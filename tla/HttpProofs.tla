------------------------ MODULE HttpProofs ------------------------
(***************************************************************************)
(* For any hosts, any limit of redirects and any number of operations on   *)
(* one session: a request goes to the host it is for, and downloads stop   *)
(* after as many redirects as maxRedirect says.                            *)
(***************************************************************************)
EXTENDS HttpClientSession, HttpSession, RestStore, FiniteSetTheorems, SequenceTheorems, TLAPS

\* The bounds are numbers.
LEMMA Bounds ==
  MaxRedirect \in Nat /\ MaxOperations \in Nat /\ 0 \in 0 .. MaxRedirect /\ 0 \in 0 .. MaxOperations
<1>1. MaxRedirect \in Nat /\ MaxOperations \in Nat
  BY SessionAssumption
<1>. QED
  BY <1>1

LEMMA InitOperationInv == Init => OperationInv
<1>. SUFFICES ASSUME Init PROVE OperationInv
  OBVIOUS
<1>1. TypeOK
  <2>1. asked \in Seq(Hosts) /\ answers \in Seq(Answers)
    BY EmptySeq DEF Init
  <2>. QED
    BY <2>1, Bounds DEF Init, TypeOK, Ends
<1>2. Exchanges /\ RedirectsFollowed /\ RedirectLimit
  BY Bounds DEF Init, Exchanges, RedirectsFollowed, RedirectLimit, UnderWay
<1>. QED
  BY <1>1, <1>2 DEF OperationInv

-----------------------------------------------------------------------------
\* A step begins an operation, is one step of the network, or changes nothing.
LEMMA NextCases ==
  ASSUME [Next]_vars
  PROVE  \/ \E m \in {"send", "download"}, host \in Hosts : Begin(m, host)
         \/ Reuse \/ StopOther \/ Connect \/ Write \/ Fail
         \/ \E answer \in Answers, closes \in BOOLEAN : Read(answer, closes)
         \/ UNCHANGED vars
  BY DEF Next, Step, Ended

\* The requests and answers of an operation, and how they grow.
LEMMA LogTypes ==
  ASSUME TypeOK
  PROVE  /\ asked \in Seq(Hosts) /\ Len(asked) \in Nat
         /\ answers \in Seq(Answers) /\ Len(answers) \in Nat
         /\ redirectCount \in Nat
  BY SessionAssumption, LenProperties DEF TypeOK

LEMMA Appended ==
  ASSUME NEW S, NEW s \in Seq(S), NEW e \in S
  PROVE  /\ Append(s, e) \in Seq(S)
         /\ Len(s) \in Nat /\ Len(Append(s, e)) = Len(s) + 1
         /\ Append(s, e)[Len(s) + 1] = e
         /\ \A k \in 1 .. Len(s) : Append(s, e)[k] = s[k]
  BY AppendProperties, LenProperties

\* An answer that is followed names a host.
LEMMA AnswerTypes ==
  ASSUME NEW answer \in Answers
  PROVE  /\ answer.redirect \in BOOLEAN
         /\ answer.redirect /\ answer.location \notin {"missing", "invalid"} => Followed(answer)
<1>1. CASE answer \in Redirects
  BY <1>1 DEF Redirects, Followed
<1>2. CASE answer = Plain
  BY <1>2 DEF Plain
<1>. QED
  BY <1>1, <1>2 DEF Answers

\* Every action keeps the types.
LEMMA TypeStep ==
  ASSUME TypeOK, Exchanges, RedirectsFollowed, [Next]_vars
  PROVE  TypeOK'
<1>. USE Bounds DEF TypeOK, connection, log, Ends
<1>1. ASSUME NEW m \in {"send", "download"}, NEW host \in Hosts, Begin(m, host)
      PROVE  TypeOK'
  <2>1. pc' \in {"too many", "connect"}
    BY ONLY <1>1 DEF Begin
  <2>3. operations' \in 0 .. MaxOperations
    <3>1. operations < MaxOperations /\ operations' = operations + 1
      BY ONLY <1>1 DEF Begin
    <3>2. operations \in 0 .. MaxOperations
      OBVIOUS
    <3>. QED
      BY ONLY <3>1, <3>2, Bounds
  <2>2. asked' \in Seq(Hosts) /\ answers' \in Seq(Answers)
    BY <1>1, EmptySeq DEF Begin
  <2>. QED
    BY <1>1, <2>1, <2>2, <2>3 DEF Begin
<1>2. CASE Reuse
  BY <1>2 DEF Reuse
<1>3. CASE StopOther
  BY <1>3 DEF StopOther, stopConnectToSender
<1>4. CASE Connect
  BY <1>4 DEF Connect
<1>5. CASE Write
  <2>1. socket \in Hosts
    BY <1>5 DEF Write, Exchanges, UnderWay
  <2>2. asked' \in Seq(Hosts)
    BY <1>5, <2>1, Appended DEF Write
  <2>. QED
    BY <1>5, <2>2 DEF Write
<1>6. CASE Fail
  BY <1>6 DEF Fail
<1>7. ASSUME NEW answer \in Answers, NEW closes \in BOOLEAN, Read(answer, closes)
      PROVE  TypeOK'
  <2>1. answers' \in Seq(Answers)
    BY <1>7, Appended DEF Read
  <2>2. CASE mode = "download" /\ answer.redirect
    <3>1. redirectCount + 1 \in 0 .. MaxRedirect
      BY <1>7, <2>2, LogTypes DEF Read, RedirectsFollowed, UnderWay
    <3>2. Follow(answer)
      BY <1>7, <2>2 DEF Read
    <3>3. CASE answer.location \in {"missing", "invalid"}
      BY <1>7, <2>1, <3>2, <3>3 DEF Read, Follow, AfterRedirect
    <3>4. CASE answer.location \notin {"missing", "invalid"}
      <4>1. NewHost(answer) \in Hosts
        BY <1>7, <2>2, <3>4, AnswerTypes DEF Read, NewHost, Followed
      <4>. QED
        BY <1>7, <2>1, <3>1, <3>2, <3>4, <4>1 DEF Read, Follow, AfterRedirect
    <3>. QED
      BY <3>3, <3>4
  <2>3. CASE ~(mode = "download" /\ answer.redirect)
    BY <1>7, <2>1, <2>3 DEF Read
  <2>. QED
    BY <2>2, <2>3
<1>8. CASE UNCHANGED vars
  BY <1>8 DEF vars
<1>. QED
  BY <1>1, <1>2, <1>3, <1>4, <1>5, <1>6, <1>7, <1>8, NextCases

\* The log of an operation agrees with the connection it used.
LEMMA ExchangesStep ==
  ASSUME OperationInv, [Next]_vars
  PROVE  Exchanges'
<1>. USE Bounds DEF OperationInv, connection, log
<1>1. ASSUME NEW m \in {"send", "download"}, NEW host \in Hosts, Begin(m, host)
      PROVE  Exchanges'
  <2>1. asked' = <<>> /\ answers' = <<>> /\ req' = first' /\ pc' \in {"too many", "connect"}
    BY ONLY <1>1 DEF Begin
  <2>2. Len(asked') = 0 /\ Len(answers') = 0
    BY ONLY <2>1
  <2>3. NextHost(Len(answers))' = first'
    BY ONLY <2>2 DEF NextHost
  <2>4. \A k \in 1 .. Len(asked') : asked'[k] = NextHost(k - 1)'
    BY ONLY <2>2
  <2>5. Len(asked') \in {Len(answers'), Len(answers') + 1}
    BY ONLY <2>2
  <2>6. pc' # "read" /\ pc' # "write"
    BY ONLY <2>1
  <2>7. Len(asked') = Len(answers') + 0
    BY ONLY <2>2
  <2>. QED
    BY ONLY <2>1, <2>3, <2>4, <2>5, <2>6, <2>7 DEF Exchanges, UnderWay
<1>2. CASE Reuse
  BY <1>2 DEF Reuse, Exchanges, NextHost, UnderWay, TypeOK
<1>3. CASE StopOther
  BY <1>3 DEF StopOther, stopConnectToSender, Exchanges, NextHost, UnderWay
<1>4. CASE Connect
  BY <1>4 DEF Connect, Exchanges, NextHost, UnderWay
<1>5. CASE Write
  <2>1. socket = req /\ socket \in Hosts /\ req = NextHost(Len(answers)) /\ Len(asked) = Len(answers)
    BY <1>5, LogTypes DEF Write, Exchanges, UnderWay, TypeOK
  <2>2. /\ Len(asked') = Len(asked) + 1 /\ asked'[Len(asked) + 1] = socket
        /\ \A k \in 1 .. Len(asked) : asked'[k] = asked[k]
    BY <1>5, <2>1, LogTypes, Appended DEF Write
  <2>3. UNCHANGED <<first, answers, req, socket>> /\ pc' = "read"
    BY <1>5 DEF Write
  <2>4. \A n \in 0 .. Len(answers) : NextHost(n)' = NextHost(n)
    BY <2>1, <2>2, <2>3, LogTypes DEF NextHost
  <2>5. ASSUME NEW k \in 1 .. Len(asked')
        PROVE  asked'[k] = NextHost(k - 1)'
    <3>1. k - 1 \in 0 .. Len(answers)
      BY <2>1, <2>2, LogTypes
    <3>2. CASE k \in 1 .. Len(asked)
      BY <2>2, <2>4, <3>1, <3>2 DEF Exchanges
    <3>3. CASE k = Len(asked) + 1
      BY <2>1, <2>2, <2>4, <3>1, <3>3, LogTypes
    <3>. QED
      BY <2>2, <3>2, <3>3, LogTypes
  <2>6. req' = NextHost(Len(answers))' /\ socket' = req'
    BY <2>1, <2>3, <2>4, LogTypes
  <2>7. Len(asked') = Len(answers') + 1
    BY <2>1, <2>2, <2>3
  <2>. QED
    BY <2>3, <2>5, <2>6, <2>7 DEF Exchanges, UnderWay
<1>6. CASE Fail
  BY <1>6 DEF Fail, Exchanges, NextHost, UnderWay
<1>7. ASSUME NEW answer \in Answers, NEW closes \in BOOLEAN, Read(answer, closes)
      PROVE  Exchanges'
  <2>1. Len(asked) = Len(answers) + 1 /\ req = NextHost(Len(answers)) /\ pc = "read"
    BY <1>7 DEF Read, Exchanges, UnderWay
  <2>2. /\ Len(answers') = Len(answers) + 1 /\ answers'[Len(answers) + 1] = answer
        /\ \A k \in 1 .. Len(answers) : answers'[k] = answers[k]
    BY <1>7, LogTypes, Appended DEF Read
  <2>3. UNCHANGED <<first, asked>> /\ pc' # "read"
    BY <1>7 DEF Read, Follow, AfterRedirect
  <2>4. \A n \in 0 .. Len(answers) : NextHost(n)' = NextHost(n)
    BY <2>2, <2>3, LogTypes DEF NextHost
  <2>5. asked[Len(answers) + 1] = req
    BY <2>1, LogTypes DEF Exchanges
  <2>6. \A k \in 1 .. Len(asked') : asked'[k] = NextHost(k - 1)'
    <3>1. ASSUME NEW k \in 1 .. Len(asked)
          PROVE  asked[k] = NextHost(k - 1)'
      <4>1. k - 1 \in 0 .. Len(answers)
        BY <2>1, LogTypes
      <4>. QED
        BY <2>4, <4>1 DEF Exchanges
    <3>. QED
      BY <2>3, <3>1
  <2>7. UnderWay' => req' = NextHost(Len(answers))' /\ pc' = "connect"
    <3>1. ASSUME UnderWay'
          PROVE  req' = NextHost(Len(answers))' /\ pc' = "connect"
      <4>1. mode = "download" /\ answer.redirect /\ answer.location \notin {"missing", "invalid"}
        BY <1>7, <3>1 DEF Read, Follow, AfterRedirect, UnderWay
      <4>2. req' = NewHost(answer) /\ pc' = "connect"
        BY <1>7, <3>1, <4>1 DEF Read, Follow, AfterRedirect, UnderWay
      <4>3. Len(answers') # 0 /\ answers'[Len(answers')] = answer /\ asked'[Len(answers')] = req
        BY <2>2, <2>3, <2>5, LogTypes
      <4>4. NextHost(Len(answers))' = NewHost(answer)
        BY ONLY <4>3 DEF NextHost, NewHost
      <4>. QED
        BY ONLY <4>2, <4>4
    <3>. QED
      BY <3>1
  <2>. QED
    BY <2>1, <2>2, <2>3, <2>6, <2>7, LogTypes DEF Exchanges
<1>8. CASE UNCHANGED vars
  BY <1>8 DEF vars, Exchanges, NextHost, UnderWay
<1>. QED
  BY <1>1, <1>2, <1>3, <1>4, <1>5, <1>6, <1>7, <1>8, NextCases

\* The count of redirects is that of the answers followed.
LEMMA RedirectStep ==
  ASSUME OperationInv, [Next]_vars
  PROVE  RedirectsFollowed' /\ RedirectLimit'
<1>. USE Bounds DEF OperationInv, connection, log
<1>1. ASSUME NEW m \in {"send", "download"}, NEW host \in Hosts, Begin(m, host)
      PROVE  RedirectsFollowed' /\ RedirectLimit'
  <2>1. Len(asked') = 0 /\ Len(answers') = 0 /\ DOMAIN answers' = {}
    <3>1. asked' = <<>> /\ answers' = <<>>
      BY ONLY <1>1 DEF Begin
    <3>. QED
      BY ONLY <3>1
  <2>2. /\ redirectCount' = 0 /\ mode' = m
        /\ m = "download" /\ MaxRedirect = 0 => pc' = "too many"
        /\ ~(m = "download" /\ MaxRedirect = 0) => pc' = "connect"
    BY <1>1 DEF Begin
  <2>3. CASE m = "download" /\ MaxRedirect = 0
    <3>1. mode' = "download" /\ pc' = "too many" /\ Len(asked') = 0 /\ Len(answers') = MaxRedirect
      BY ONLY <2>1, <2>2, <2>3
    <3>2. Len(asked') <= MaxRedirect
      <4>1. 0 <= MaxRedirect
        BY ONLY Bounds
      <4>. QED
        BY ONLY <3>1, <4>1
    <3>3. \A k \in DOMAIN answers' : answers'[k].redirect /\ answers'[k].location \in Hosts \cup {None}
      BY ONLY <2>1
    <3>. QED
      BY ONLY <3>1, <3>2, <3>3 DEF RedirectsFollowed, RedirectLimit, UnderWay
  <2>4. CASE ~(m = "download" /\ MaxRedirect = 0)
    <3>1. pc' = "connect"
      BY ONLY <2>2, <2>4
    <3>2. mode' = "download" => MaxRedirect # 0
      BY ONLY <2>2, <2>4
    <3>3. /\ 0 <= MaxRedirect
          /\ MaxRedirect # 0 => 0 < MaxRedirect /\ Len(answers') # MaxRedirect
      BY ONLY <2>1, Bounds
    <3>4. \A k \in 1 .. Len(answers') : Followed(answers'[k])
      BY ONLY <2>1
    <3>5. RedirectsFollowed'
      BY ONLY <2>1, <2>2, <3>1, <3>2, <3>3, <3>4 DEF RedirectsFollowed, UnderWay
    <3>6. RedirectLimit'
      BY ONLY <2>1, <3>1, <3>2, <3>3 DEF RedirectLimit
    <3>. QED
      BY ONLY <3>5, <3>6
  <2>. QED
    BY <2>3, <2>4
<1>2. ASSUME UnderWay, pc' \in {"connect", "write", "failed"}, UNCHANGED <<mode, redirectCount, asked, answers>>
      PROVE  RedirectsFollowed' /\ RedirectLimit'
  BY <1>2, LogTypes DEF RedirectsFollowed, RedirectLimit, UnderWay, Followed
<1>3. CASE Reuse
  BY <1>2, <1>3 DEF Reuse, UnderWay
<1>4. CASE StopOther
  BY <1>2, <1>4 DEF StopOther, UnderWay
<1>5. CASE Connect
  BY <1>2, <1>5 DEF Connect, UnderWay
<1>6. CASE Write
  <2>1. socket \in Hosts /\ Len(asked) = Len(answers)
    BY <1>6, LogTypes DEF Write, Exchanges, UnderWay, TypeOK
  <2>2. Len(asked') = Len(asked) + 1
    BY <1>6, <2>1, LogTypes, Appended DEF Write
  <2>. QED
    BY <1>6, <2>1, <2>2, LogTypes DEF Write, RedirectsFollowed, RedirectLimit, UnderWay
<1>7. CASE Fail
  BY <1>2, <1>7 DEF Fail, UnderWay
<1>8. ASSUME NEW answer \in Answers, NEW closes \in BOOLEAN, Read(answer, closes)
      PROVE  RedirectsFollowed' /\ RedirectLimit'
  <2>1. Len(asked) = Len(answers) + 1 /\ UnderWay
    BY <1>8 DEF Read, Exchanges, UnderWay
  <2>2. /\ Len(answers') = Len(answers) + 1 /\ answers'[Len(answers) + 1] = answer
        /\ \A k \in 1 .. Len(answers) : answers'[k] = answers[k]
        /\ Last(answers') = answer /\ answers' \in Seq(Answers)
    BY <1>8, LogTypes, Appended DEF Read, Last
  <2>3. UNCHANGED <<mode, asked>>
    BY <1>8 DEF Read
  <2>4. CASE mode # "download"
    BY <1>8, <2>3, <2>4 DEF Read, RedirectsFollowed, RedirectLimit, UnderWay
  <2>5. CASE mode = "download"
    <3>1. /\ Len(answers) = redirectCount /\ redirectCount < MaxRedirect
          /\ \A k \in 1 .. Len(answers) : Followed(answers[k])
      BY <2>1, <2>5 DEF RedirectsFollowed
    <3>2. Len(asked') <= MaxRedirect
      BY <2>1, <2>3, <3>1, LogTypes
    <3>3. (\A k \in 1 .. Len(answers') : Followed(answers'[k])) <=> Followed(answer)
      BY <2>2, <3>1, LogTypes
    <3>4. (\A k \in DOMAIN answers' : answers'[k].redirect /\ answers'[k].location \in Hosts \cup {None}) <=> Followed(answer)
      BY <2>2, <3>3 DEF Followed
    <3>5. CASE ~answer.redirect
      <4>1. pc' = "answer" /\ ~Followed(answer)
        BY <1>8, <3>5 DEF Read, Followed
      <4>. QED
        BY <2>2, <3>2, <3>4, <3>5, <4>1 DEF RedirectsFollowed, RedirectLimit, UnderWay
    <3>6. CASE answer.redirect /\ answer.location \in {"missing", "invalid"}
      <4>1. pc' = "failed" /\ ~Followed(answer)
        <5>1. ~Followed(answer)
          BY <3>6, SessionAssumption DEF Followed
        <5>. QED
          BY <1>8, <2>5, <3>6, <5>1 DEF Read, Follow, AfterRedirect
      <4>. QED
        BY <3>2, <3>4, <4>1 DEF RedirectsFollowed, RedirectLimit, UnderWay
    <3>7. CASE answer.redirect /\ answer.location \notin {"missing", "invalid"}
      <4>1. Followed(answer)
        BY <3>7, AnswerTypes
      <4>2. /\ redirectCount' = redirectCount + 1
            /\ pc' = IF redirectCount + 1 < MaxRedirect THEN "connect" ELSE "too many"
        BY <1>8, <2>5, <3>7 DEF Read, Follow, AfterRedirect
      <4>3. Len(answers') = redirectCount'
        BY <2>2, <3>1, <4>2
      <4>4. CASE redirectCount + 1 < MaxRedirect
        <5>1. redirectCount' < MaxRedirect /\ Len(answers') # MaxRedirect /\ pc' = "connect"
          <6>1. redirectCount' < MaxRedirect /\ redirectCount' \in Nat /\ MaxRedirect \in Nat
            BY <4>2, <4>4, LogTypes
          <6>2. redirectCount' # MaxRedirect
            BY ONLY <6>1
          <6>. QED
            BY ONLY <4>2, <4>3, <4>4, <6>1, <6>2
        <5>2. RedirectsFollowed'
          BY ONLY <2>3, <2>5, <3>3, <4>1, <4>3, <5>1 DEF RedirectsFollowed
        <5>3. RedirectLimit'
          BY ONLY <3>2, <5>1 DEF RedirectLimit
        <5>. QED
          BY ONLY <5>2, <5>3
      <4>5. CASE ~(redirectCount + 1 < MaxRedirect)
        <5>1. Len(answers') = MaxRedirect
          <6>1. redirectCount \in Nat /\ MaxRedirect \in Nat
            BY LogTypes
          <6>2. redirectCount + 1 = MaxRedirect
            BY ONLY <3>1, <4>5, <6>1
          <6>. QED
            BY ONLY <4>2, <4>3, <6>2
        <5>2. pc' = "too many"
          BY ONLY <4>2, <4>5
        <5>. QED
          BY ONLY <3>2, <3>4, <4>1, <5>1, <5>2 DEF RedirectsFollowed, RedirectLimit, UnderWay
      <4>. QED
        BY <4>4, <4>5
    <3>. QED
      BY <3>5, <3>6, <3>7
  <2>. QED
    BY <2>4, <2>5
<1>9. CASE UNCHANGED vars
  BY <1>9 DEF vars, RedirectsFollowed, RedirectLimit, UnderWay
<1>. QED
  BY <1>1, <1>3, <1>4, <1>5, <1>6, <1>7, <1>8, <1>9, NextCases

-----------------------------------------------------------------------------
LEMMA OperationInvHolds == Spec => []OperationInv
<1>1. OperationInv /\ [Next]_vars => OperationInv'
  BY TypeStep, ExchangesStep, RedirectStep DEF OperationInv
<1>. QED
  BY InitOperationInv, <1>1, PTL DEF Spec

(***************************************************************************)
(* TypeOK for all hosts and limits: an open socket goes to the host the    *)
(* session believes it to go to.                                           *)
(***************************************************************************)
THEOREM TypeCorrect == Spec => []TypeOK
  BY OperationInvHolds, PTL DEF OperationInv

(***************************************************************************)
(* RequestsReachTheirHost for all hosts and limits: no connection that is  *)
(* left over carries a request to a wrong host.                            *)
(***************************************************************************)
THEOREM Destinations == Spec => []RequestsReachTheirHost
<1>1. ASSUME OperationInv
      PROVE  RequestsReachTheirHost
  <2>1. SUFFICES ASSUME NEW k \in DOMAIN asked
                 PROVE  asked[k] = IF k = 1 THEN first
                                   ELSE IF answers[k - 1].location = None THEN asked[k - 1] ELSE answers[k - 1].location
    BY DEF RequestsReachTheirHost
  <2>2. k \in 1 .. Len(asked) /\ Len(asked) \in Nat
    BY <1>1, LogTypes DEF OperationInv
  <2>3. asked[k] = NextHost(k - 1) /\ (k - 1 = 0 <=> k = 1)
    BY <1>1, <2>2 DEF OperationInv, Exchanges
  <2>. QED
    BY <2>3 DEF NextHost
<1>. QED
  BY OperationInvHolds, <1>1, PTL

(***************************************************************************)
(* RedirectLimit for all hosts and limits, zero included.                  *)
(***************************************************************************)
THEOREM Limit == Spec => []RedirectLimit
  BY OperationInvHolds, PTL DEF OperationInv

-----------------------------------------------------------------------------
(***************************************************************************)
(* The other end of HTTP, module HttpSession: for any number of            *)
(* connections, requests and descriptors, the answers of a connection come *)
(* in the order of its requests, and at most one request that was handled  *)
(* stays unanswered.                                                       *)
(***************************************************************************)
OneConnection(c) ==
  /\ Waiting(conn[c], inbox[c], sent[c], session[c], answered[c])
  /\ Answered(conn[c], answered[c])
  /\ HandledUpTo(conn[c], session[c], answered[c], handled[c])

SessionInv == ListenerTypeOK /\ ConnectionInv

LEMMA InitSessionInv == ListenerInit => SessionInv
<1>. SUFFICES ASSUME ListenerInit PROVE SessionInv
  OBVIOUS
<1>1. ListenerTypeOK
  BY ListenerAssumption DEF ListenerInit, ListenerTypeOK, Idle, Sessions
<1>2. ConnectionInv
  BY DEF ListenerInit, ConnectionInv, Idle, Waiting, Answered, HandledUpTo, InHand, Handled
<1>. QED
  BY <1>1, <1>2 DEF SessionInv

-----------------------------------------------------------------------------
\* A step is one action of one connection.
LEMMA ListenerCases ==
  ASSUME [ListenerNext]_listenerVars
  PROVE  \/ \E c \in Conns : \/ Dial(c) \/ Accept(c) \/ Send(c) \/ Hangup(c) \/ StopReading(c) \/ ReadOn(c)
                             \/ ReadRequest(c) \/ ReadFails(c) \/ HandlerThrows(c)
                             \/ WriteAnswer(c) \/ WriteFails(c)
                             \/ \E kind \in Kinds : Answer(c, kind)
         \/ UNCHANGED listenerVars
  BY DEF ListenerNext, Serve, Quiet

\* doSession runs for open connections only.
LEMMA OpenSession ==
  ASSUME ListenerTypeOK, NEW c \in Conns, session[c].at \in {"read", "handle", "write"}
  PROVE  conn[c] = "open"
<1>1. session[c].at # "none" <=> conn[c] = "open"
  BY DEF ListenerTypeOK
<1>2. session[c].at # "none"
  OBVIOUS
<1>. QED
  BY <1>1, <1>2

\* The request in hand has a number, which is the number of its answer.
LEMMA RequestInHand ==
  ASSUME ListenerTypeOK, ConnectionInv, NEW c \in Conns, session[c].at \in {"handle", "write"}
  PROVE  session[c].request \in 1 .. MaxRequests /\ session[c].request = Len(answered[c]) + 1
<1>1. conn[c] = "open" /\ session[c].request \in 0 .. MaxRequests /\ Len(answered[c]) \in Nat
  <2>1. session[c] \in Sessions /\ answered[c] \in Seq([request : 1 .. MaxRequests, kind : Kinds])
    BY DEF ListenerTypeOK
  <2>. QED
    BY <2>1, OpenSession, LenProperties DEF Sessions
<1>2. session[c].request = Len(answered[c]) + 1
  BY <1>1 DEF ConnectionInv, Waiting, InHand
<1>. QED
  BY <1>1, <1>2, ListenerAssumption

\* The records the actions write.
LEMMA SessionRecords ==
  ASSUME NEW request \in 0 .. MaxRequests, NEW kind \in Kinds
  PROVE  /\ Idle \in Sessions
         /\ [at |-> "read", request |-> 0, answer |-> "none"] \in Sessions
         /\ [at |-> "handle", request |-> request, answer |-> "none"] \in Sessions
         /\ [at |-> "write", request |-> request, answer |-> kind] \in Sessions
  BY ListenerAssumption DEF Sessions, Idle

\* A step that writes the record of one connection and its state with it.
LEMMA SessionWritten ==
  ASSUME ListenerTypeOK, NEW c \in Conns, NEW ses \in Sessions, NEW state \in {"open", "closed"},
         ses.at # "none" <=> state = "open", ses.at = "write" <=> ses.answer # "none",
         session' = [session EXCEPT ![c] = ses],
         conn' = [conn EXCEPT ![c] = state] \/ (conn' = conn /\ conn[c] = state)
  PROVE  /\ session' \in [Conns -> Sessions]
         /\ conn' \in [Conns -> {"new", "backlog", "open", "closed"}]
         /\ \A d \in Conns : /\ session'[d].at # "none" <=> conn'[d] = "open"
                             /\ session'[d].at = "write" <=> session'[d].answer # "none"
<1>1. /\ session' \in [Conns -> Sessions]
      /\ conn' \in [Conns -> {"new", "backlog", "open", "closed"}]
      /\ session'[c] = ses /\ conn'[c] = state
      /\ \A d \in Conns \ {c} : session'[d] = session[d] /\ conn'[d] = conn[d]
  <2>1. session \in [Conns -> Sessions] /\ conn \in [Conns -> {"new", "backlog", "open", "closed"}]
    BY DEF ListenerTypeOK
  <2>. QED
    BY <2>1
<1>2. ASSUME NEW d \in Conns
      PROVE  /\ session'[d].at # "none" <=> conn'[d] = "open"
             /\ session'[d].at = "write" <=> session'[d].answer # "none"
  <2>1. CASE d = c
    <3>1. session'[d] = ses /\ conn'[d] = state
      BY <1>1, <2>1
    <3>2. (ses.at # "none" <=> state = "open") /\ (ses.at = "write" <=> ses.answer # "none")
      OBVIOUS
    <3>. QED
      BY ONLY <3>1, <3>2
  <2>2. CASE d # c
    BY <1>1, <2>2 DEF ListenerTypeOK
  <2>. QED
    BY <2>1, <2>2
<1>. QED
  BY <1>1, <1>2

\* Every action keeps the types.
LEMMA ListenerTypeStep ==
  ASSUME ListenerTypeOK, ConnectionInv, [ListenerNext]_listenerVars
  PROVE  ListenerTypeOK'
<1>. USE ListenerAssumption DEF ListenerTypeOK, link
<1>1. ASSUME NEW c \in Conns, Dial(c) PROVE ListenerTypeOK'
  BY <1>1 DEF Dial
<1>2. ASSUME NEW c \in Conns, Accept(c) PROVE ListenerTypeOK'
  <2>1. CASE Cardinality(Open) < MaxOpen
    <3>. DEFINE ses == [at |-> "read", request |-> 0, answer |-> "none"]
    <3>1. ses \in Sessions
      BY DEF Sessions
    <3>2. session' = [session EXCEPT ![c] = ses] /\ conn' = [conn EXCEPT ![c] = "open"]
      BY <1>2, <2>1 DEF Accept
    <3>. HIDE DEF ses
    <3>3. /\ session' \in [Conns -> Sessions]
          /\ conn' \in [Conns -> {"new", "backlog", "open", "closed"}]
          /\ \A d \in Conns : /\ session'[d].at # "none" <=> conn'[d] = "open"
                              /\ session'[d].at = "write" <=> session'[d].answer # "none"
      BY <3>1, <3>2, SessionWritten DEF ses
    <3>. QED
      BY <1>2, <2>1, <3>3 DEF Accept
  <2>2. CASE ~(Cardinality(Open) < MaxOpen)
    BY <1>2, <2>2 DEF Accept
  <2>. QED
    BY <2>1, <2>2
<1>3. ASSUME NEW c \in Conns, Send(c) PROVE ListenerTypeOK'
  <2>1. sent[c] + 1 \in 1 .. MaxRequests
    BY <1>3 DEF Send
  <2>2. Append(inbox[c], sent[c] + 1) \in Seq(1 .. MaxRequests)
    BY <2>1
  <2>3. sent' \in [Conns -> 0 .. MaxRequests] /\ inbox' \in [Conns -> Seq(1 .. MaxRequests)]
    BY <1>3, <2>1, <2>2 DEF Send
  <2>. QED
    BY <1>3, <2>3 DEF Send
<1>4. ASSUME NEW c \in Conns, Hangup(c) \/ StopReading(c) \/ ReadOn(c) PROVE ListenerTypeOK'
  BY <1>4 DEF Hangup, StopReading, ReadOn
<1>5. ASSUME NEW c \in Conns, ReadRequest(c) PROVE ListenerTypeOK'
  <2>1. Head(inbox[c]) \in 1 .. MaxRequests /\ Tail(inbox[c]) \in Seq(1 .. MaxRequests)
    BY <1>5 DEF ReadRequest
  <2>2. inbox' \in [Conns -> Seq(1 .. MaxRequests)]
    BY <1>5, <2>1 DEF ReadRequest, Unread
  <2>3. /\ session' \in [Conns -> Sessions]
        /\ \A d \in Conns : /\ session'[d].at # "none" <=> conn'[d] = "open"
                            /\ session'[d].at = "write" <=> session'[d].answer # "none"
    <3>. DEFINE ses == [at |-> "handle", request |-> Head(inbox[c]), answer |-> "none"]
    <3>1. ses \in Sessions /\ ses.at = "handle" /\ ses.answer = "none"
      BY <2>1 DEF Sessions
    <3>2. session' = [session EXCEPT ![c] = ses] /\ conn' = conn
      BY <1>5 DEF ReadRequest
    <3>3. conn[c] = "open"
      BY <1>5, OpenSession DEF ReadRequest
    <3>. HIDE DEF ses
    <3>. QED
      BY <3>1, <3>2, <3>3, SessionWritten
  <2>. QED
    BY <1>5, <2>2, <2>3 DEF ReadRequest
<1>6. ASSUME NEW c \in Conns, Close(c), UNCHANGED listener,
             handled' \in [Conns -> SUBSET (1 .. MaxRequests)],
             answered' \in [Conns -> Seq([request : 1 .. MaxRequests, kind : Kinds])]
      PROVE  ListenerTypeOK'
  <2>1. /\ session' \in [Conns -> Sessions]
        /\ conn' \in [Conns -> {"new", "backlog", "open", "closed"}]
        /\ \A d \in Conns : /\ session'[d].at # "none" <=> conn'[d] = "open"
                            /\ session'[d].at = "write" <=> session'[d].answer # "none"
    <3>1. Idle \in Sessions /\ Idle.at = "none" /\ Idle.answer = "none"
      BY DEF Idle, Sessions
    <3>. QED
      BY <1>6, <3>1, SessionWritten DEF Close
  <2>2. inbox' \in [Conns -> Seq(1 .. MaxRequests)]
    BY <1>6 DEF Close
  <2>. QED
    BY <1>6, <2>1, <2>2 DEF Close
<1>7. ASSUME NEW c \in Conns, ReadFails(c) PROVE ListenerTypeOK'
  BY <1>6, <1>7 DEF ReadFails
<1>8. ASSUME NEW c \in Conns, session[c].at = "handle", handled' = [handled EXCEPT ![c] = @ \cup {session[c].request}]
      PROVE  handled' \in [Conns -> SUBSET (1 .. MaxRequests)]
  BY <1>8, RequestInHand
<1>9. ASSUME NEW c \in Conns, NEW kind \in Kinds, Answer(c, kind) PROVE ListenerTypeOK'
  <2>1. handled' \in [Conns -> SUBSET (1 .. MaxRequests)]
    BY <1>8, <1>9 DEF Answer
  <2>2. /\ session' \in [Conns -> Sessions]
        /\ \A d \in Conns : /\ session'[d].at # "none" <=> conn'[d] = "open"
                            /\ session'[d].at = "write" <=> session'[d].answer # "none"
    <3>. DEFINE ses == [at |-> "write", request |-> session[c].request, answer |-> kind]
    <3>1. ses \in Sessions /\ ses.at = "write" /\ ses.answer # "none"
      BY DEF Sessions, Kinds, Framed
    <3>2. session' = [session EXCEPT ![c] = ses] /\ conn' = conn
      BY <1>9 DEF Answer
    <3>3. conn[c] = "open"
      BY <1>9, OpenSession DEF Answer
    <3>. HIDE DEF ses
    <3>. QED
      BY <3>1, <3>2, <3>3, SessionWritten
  <2>. QED
    BY <1>9, <2>1, <2>2 DEF Answer
<1>10. ASSUME NEW c \in Conns, HandlerThrows(c) PROVE ListenerTypeOK'
  <2>1. handled' \in [Conns -> SUBSET (1 .. MaxRequests)]
    BY <1>8, <1>10 DEF HandlerThrows
  <2>. QED
    BY <1>6, <1>10, <2>1 DEF HandlerThrows
<1>11. ASSUME NEW c \in Conns, WriteAnswer(c) PROVE ListenerTypeOK'
  <2>. DEFINE last == [request |-> session[c].request, kind |-> session[c].answer]
  <2>1. session[c].request \in 1 .. MaxRequests
    BY <1>11, RequestInHand DEF WriteAnswer
  <2>2. session[c].answer \in Kinds
    <3>1. session[c] \in Sessions /\ session[c].at = "write"
      BY <1>11 DEF WriteAnswer
    <3>2. session[c].at = "write" <=> session[c].answer # "none"
      OBVIOUS
    <3>. QED
      BY <3>1, <3>2 DEF Sessions
  <2>3. answered' \in [Conns -> Seq([request : 1 .. MaxRequests, kind : Kinds])]
    <3>1. last \in [request : 1 .. MaxRequests, kind : Kinds]
      BY <2>1, <2>2
    <3>2. Append(answered[c], last) \in Seq([request : 1 .. MaxRequests, kind : Kinds])
      BY <3>1, AppendProperties
    <3>. QED
      BY <1>11, <3>2 DEF WriteAnswer
  <2>4. CASE NeedEof(session[c].answer)
    BY <1>6, <1>11, <2>3, <2>4 DEF WriteAnswer
  <2>5. CASE ~NeedEof(session[c].answer)
    <3>. DEFINE ses == [at |-> "read", request |-> 0, answer |-> "none"]
    <3>1. ses \in Sessions /\ ses.at = "read" /\ ses.answer = "none"
      BY DEF Sessions
    <3>2. session' = [session EXCEPT ![c] = ses] /\ conn' = conn
      BY <1>11, <2>5 DEF WriteAnswer
    <3>4. conn[c] = "open"
      BY <1>11, OpenSession DEF WriteAnswer
    <3>. HIDE DEF ses
    <3>3. /\ session' \in [Conns -> Sessions]
          /\ \A d \in Conns : /\ session'[d].at # "none" <=> conn'[d] = "open"
                              /\ session'[d].at = "write" <=> session'[d].answer # "none"
      BY <3>1, <3>2, <3>4, SessionWritten
    <3>. QED
      BY <1>11, <2>3, <2>5, <3>3 DEF WriteAnswer
  <2>. QED
    BY <2>4, <2>5
<1>12. ASSUME NEW c \in Conns, WriteFails(c) PROVE ListenerTypeOK'
  BY <1>6, <1>12 DEF WriteFails
<1>13. CASE UNCHANGED listenerVars
  BY <1>13 DEF listenerVars
<1>. QED
  BY <1>1, <1>2, <1>3, <1>4, <1>5, <1>7, <1>9, <1>10, <1>11, <1>12, <1>13, ListenerCases

-----------------------------------------------------------------------------
\* What an action does to one connection leaves the others as they are.
LEMMA OtherConnections ==
  ASSUME ConnectionInv, NEW c \in Conns, OneConnection(c)',
         \A d \in Conns \ {c} :
           /\ conn'[d] = conn[d] /\ inbox'[d] = inbox[d] /\ sent'[d] = sent[d]
           /\ session'[d] = session[d] /\ answered'[d] = answered[d] /\ handled'[d] = handled[d]
  PROVE  ConnectionInv'
<1>1. ASSUME NEW d \in Conns \ {c}
      PROVE  OneConnection(d)'
  BY <1>1 DEF ConnectionInv, OneConnection
<1>. QED
  BY <1>1 DEF ConnectionInv, OneConnection

\* The sequences of a connection and their lengths.
LEMMA ConnectionTypes ==
  ASSUME ListenerTypeOK, NEW c \in Conns
  PROVE  /\ inbox[c] \in Seq(1 .. MaxRequests) /\ Len(inbox[c]) \in Nat
         /\ answered[c] \in Seq([request : 1 .. MaxRequests, kind : Kinds]) /\ Len(answered[c]) \in Nat
         /\ sent[c] \in 0 .. MaxRequests /\ session[c] \in Sessions
         /\ InHand(session[c]) \in {0, 1}
  BY LenProperties DEF ListenerTypeOK, InHand

LEMMA ConnectionNumbers ==
  ASSUME ListenerTypeOK, NEW c \in Conns
  PROVE  /\ Len(inbox[c]) \in Nat /\ Len(answered[c]) \in Nat
         /\ sent[c] \in Nat /\ InHand(session[c]) \in Nat
  BY ConnectionTypes, ListenerAssumption

LEMMA MovedSum == \A a, b, s \in Nat : s = a + 0 + b => s = a + 1 + (b - 1)
  OBVIOUS

\* A connection that closes with the requests it has handled.
LEMMA ClosedConnection ==
  ASSUME ListenerTypeOK, NEW c \in Conns, Close(c),
         Answered("closed", answered'[c]),
         HandledUpTo("closed", Idle, answered'[c], handled'[c])
  PROVE  OneConnection(c)'
<1>1. conn'[c] = "closed" /\ session'[c] = Idle
  BY DEF Close, ListenerTypeOK
<1>. QED
  BY <1>1 DEF OneConnection, Waiting

\* Every action keeps the requests, their answers and the handled ones in step.
LEMMA ConnectionStep ==
  ASSUME ListenerTypeOK, ConnectionInv, [ListenerNext]_listenerVars
  PROVE  ConnectionInv'
<1>1. ASSUME NEW c \in Conns
      PROVE  OneConnection(c)
  BY <1>1 DEF ConnectionInv, OneConnection
<1>2. ASSUME NEW c \in Conns, Dial(c) PROVE ConnectionInv'
  <2>1. conn[c] = "new" /\ conn'[c] = "backlog"
    BY <1>2 DEF Dial, ListenerTypeOK
  <2>2. OneConnection(c)'
    BY <1>1, <1>2, <2>1 DEF Dial, OneConnection, Waiting, Answered, HandledUpTo
  <2>. QED
    BY <1>2, <2>2, OtherConnections DEF Dial, ListenerTypeOK
<1>3. ASSUME NEW c \in Conns, Accept(c) PROVE ConnectionInv'
  <2>1. CASE Cardinality(Open) < MaxOpen
    <3>1. conn[c] = "backlog" /\ conn'[c] = "open" /\ session[c].at = "none" /\ session'[c].at = "read"
      BY <1>3, <2>1 DEF Accept, ListenerTypeOK
    <3>2. OneConnection(c)'
      <4>1. InHand(session'[c]) = InHand(session[c]) /\ Handled(session'[c]) = Handled(session[c])
        BY <3>1 DEF InHand, Handled
      <4>2. UNCHANGED <<inbox, sent, answered, handled>> /\ conn[c] # "closed" /\ conn'[c] # "closed"
        BY <1>3, <3>1 DEF Accept
      <4>3. InHand(session'[c]) # 1
        BY <3>1 DEF InHand
      <4>. QED
        BY <1>1, <4>1, <4>2, <4>3 DEF OneConnection, Waiting, Answered, HandledUpTo
    <3>. QED
      BY <1>3, <2>1, <3>2, OtherConnections DEF Accept, ListenerTypeOK
  <2>2. CASE ~(Cardinality(Open) < MaxOpen)
    BY <1>3, <2>2 DEF Accept, ConnectionInv
  <2>. QED
    BY <2>1, <2>2
<1>4. ASSUME NEW c \in Conns, Send(c) PROVE ConnectionInv'
  <2>0. Len(inbox[c]) \in Nat /\ Len(answered[c]) \in Nat /\ sent[c] \in Nat /\ InHand(session[c]) \in Nat
    BY ConnectionNumbers
  <2>1. inbox'[c] = Append(inbox[c], sent[c] + 1) /\ sent'[c] = sent[c] + 1 /\ conn[c] # "closed"
    BY <1>4 DEF Send, ListenerTypeOK
  <2>2. Waiting(conn[c], inbox[c], sent[c], session[c], answered[c])
    BY <1>1 DEF OneConnection
  <2>3. Waiting(conn[c], inbox'[c], sent'[c], session[c], answered[c])
    <3>1. Len(inbox'[c]) = Len(inbox[c]) + 1
      BY <2>1, ConnectionTypes
    <3>2. ASSUME NEW k \in 1 .. Len(inbox'[c])
          PROVE  inbox'[c][k] = Len(answered[c]) + InHand(session[c]) + k
      <4>1. CASE k = Len(inbox[c]) + 1
        <5>1. inbox'[c][k] = sent[c] + 1
          BY <2>1, <4>1, ConnectionTypes
        <5>2. sent[c] = Len(answered[c]) + InHand(session[c]) + Len(inbox[c])
          BY <2>1, <2>2 DEF Waiting
        <5>. QED
          <6>1. sent[c] + 1 = Len(answered[c]) + InHand(session[c]) + (Len(inbox[c]) + 1)
            <7>1. PICK a, i, b, s \in Nat : a = Len(answered[c]) /\ i = InHand(session[c]) /\ b = Len(inbox[c]) /\ s = sent[c]
              BY <2>0
            <7>2. s = a + i + b
              BY <5>2, <7>1
            <7>3. s + 1 = a + i + (b + 1)
              BY <7>2
            <7>. QED
              BY <7>1, <7>3
          <6>. QED
            BY <4>1, <5>1, <6>1
      <4>2. CASE k \in 1 .. Len(inbox[c])
        <5>1. inbox'[c][k] = inbox[c][k]
          BY <2>1, <4>2, ConnectionTypes
        <5>. QED
          BY <2>1, <2>2, <4>2, <5>1 DEF Waiting
      <4>. QED
        BY <3>1, <4>1, <4>2, ConnectionTypes
    <3>. QED
      <4>1. /\ sent[c] = Len(answered[c]) + InHand(session[c]) + Len(inbox[c])
            /\ InHand(session[c]) = 1 => session[c].request = Len(answered[c]) + 1
        BY <2>1, <2>2 DEF Waiting
      <4>2. sent'[c] = Len(answered[c]) + InHand(session[c]) + Len(inbox'[c])
        BY <2>0, <2>1, <3>1, <4>1
      <4>. QED
        BY <3>2, <4>1, <4>2 DEF Waiting
  <2>4. OneConnection(c)'
    BY <1>1, <1>4, <2>3 DEF Send, OneConnection
  <2>. QED
    BY <1>4, <2>4, OtherConnections DEF Send, ListenerTypeOK
<1>5. ASSUME NEW c \in Conns, Hangup(c) \/ StopReading(c) \/ ReadOn(c) PROVE ConnectionInv'
  BY <1>5 DEF Hangup, StopReading, ReadOn, ConnectionInv
<1>6. ASSUME NEW c \in Conns, ReadRequest(c) PROVE ConnectionInv'
  <2>0. Len(inbox[c]) \in Nat /\ Len(answered[c]) \in Nat /\ sent[c] \in Nat /\ InHand(session[c]) \in Nat
    BY ConnectionNumbers
  <2>1. /\ inbox[c] # <<>> /\ inbox'[c] = Tail(inbox[c])
        /\ session[c].at = "read" /\ session'[c].at = "handle" /\ session'[c].request = Head(inbox[c])
    BY <1>6 DEF ReadRequest, Unread, ListenerTypeOK
  <2>2. conn[c] = "open" /\ conn' = conn /\ sent' = sent /\ answered' = answered /\ handled' = handled
    BY <1>6, OpenSession DEF ReadRequest
  <2>3. Waiting("open", inbox[c], sent[c], session[c], answered[c])
    BY <1>1, <2>2 DEF OneConnection
  <2>4. Len(inbox[c]) >= 1 /\ Len(inbox'[c]) = Len(inbox[c]) - 1 /\ Head(inbox[c]) = inbox[c][1]
    BY <2>1, ConnectionTypes
  <2>5. \A k \in 1 .. Len(inbox'[c]) : inbox'[c][k] = inbox[c][k + 1]
    BY <2>1, <2>4, ConnectionTypes
  <2>6. InHand(session[c]) = 0 /\ InHand(session'[c]) = 1 /\ Handled(session[c]) = Handled(session'[c])
    BY <2>1 DEF InHand, Handled
  <2>7. Waiting("open", inbox'[c], sent[c], session'[c], answered[c])
    <3>1. session'[c].request = Len(answered[c]) + 1
      BY <2>1, <2>3, <2>4, <2>6, ConnectionTypes DEF Waiting
    <3>2. ASSUME NEW k \in 1 .. Len(inbox'[c])
          PROVE  inbox'[c][k] = Len(answered[c]) + 1 + k
      <4>1. k + 1 \in 1 .. Len(inbox[c]) /\ inbox'[c][k] = inbox[c][k + 1]
        BY <2>4, <2>5, ConnectionTypes
      <4>. QED
        BY <2>3, <2>6, <4>1, ConnectionTypes DEF Waiting
    <3>. QED
      <4>1. sent[c] = Len(answered[c]) + 0 + Len(inbox[c])
        BY <2>3, <2>6 DEF Waiting
      <4>2. sent[c] = Len(answered[c]) + 1 + (Len(inbox[c]) - 1)
        BY <2>0, <2>4, <4>1, MovedSum
      <4>3. sent[c] = Len(answered[c]) + 1 + Len(inbox'[c])
        BY <2>4, <4>2
      <4>. QED
        BY <2>6, <3>1, <3>2, <4>3 DEF Waiting
  <2>8. OneConnection(c)'
    BY <1>1, <2>2, <2>6, <2>7 DEF OneConnection, HandledUpTo
  <2>. QED
    BY <1>6, <2>8, OtherConnections DEF ReadRequest, ListenerTypeOK
<1>7. ASSUME NEW c \in Conns, ReadFails(c) PROVE ConnectionInv'
  <2>1. answered' = answered /\ handled' = handled /\ Handled(session[c]) = 0 /\ Close(c)
    BY <1>7 DEF ReadFails, Handled
  <2>2. Answered("closed", answered[c]) /\ HandledUpTo("closed", Idle, answered[c], handled[c])
    BY <1>1, <2>1 DEF OneConnection, Answered, HandledUpTo, Handled, Idle
  <2>3. OneConnection(c)'
    BY <2>1, <2>2, ClosedConnection
  <2>. QED
    BY <2>1, <2>3, OtherConnections DEF Close, ListenerTypeOK
<1>8. ASSUME NEW c \in Conns, session[c].at = "handle", handled' = [handled EXCEPT ![c] = @ \cup {session[c].request}]
      PROVE  handled'[c] = 1 .. Len(answered[c]) + 1
  <2>1. conn[c] = "open" /\ Handled(session[c]) = 0
    BY <1>8, OpenSession DEF Handled
  <2>2. handled[c] = 1 .. Len(answered[c])
    BY <1>1, <2>1, ConnectionTypes DEF OneConnection, HandledUpTo
  <2>3. session[c].request = Len(answered[c]) + 1
    BY <1>8, RequestInHand
  <2>4. handled'[c] = handled[c] \cup {session[c].request}
    BY <1>8 DEF ListenerTypeOK
  <2>. QED
    BY <2>2, <2>3, <2>4, ConnectionTypes
<1>9. ASSUME NEW c \in Conns, NEW kind \in Kinds, Answer(c, kind) PROVE ConnectionInv'
  <2>1. /\ session[c].at = "handle" /\ session'[c].at = "write" /\ session'[c].request = session[c].request
        /\ UNCHANGED <<conn, inbox, sent, answered>>
    BY <1>9 DEF Answer, link, ListenerTypeOK
  <2>2. InHand(session'[c]) = InHand(session[c]) /\ Handled(session'[c]) = 1
    BY <2>1 DEF InHand, Handled
  <2>3. handled'[c] = 1 .. Len(answered[c]) + 1
    BY <1>8, <1>9 DEF Answer
  <2>4. OneConnection(c)'
    BY <1>1, <2>1, <2>2, <2>3 DEF OneConnection, Waiting, HandledUpTo
  <2>. QED
    BY <1>9, <2>1, <2>4, OtherConnections DEF Answer, ListenerTypeOK
<1>10. ASSUME NEW c \in Conns, HandlerThrows(c) PROVE ConnectionInv'
  <2>1. handled'[c] = 1 .. Len(answered[c]) + 1 /\ answered' = answered /\ Close(c)
    BY <1>8, <1>10 DEF HandlerThrows
  <2>2. Answered("closed", answered[c])
    BY <1>1 DEF OneConnection, Answered
  <2>3. OneConnection(c)'
    BY <2>1, <2>2, ClosedConnection DEF HandledUpTo
  <2>. QED
    BY <1>10, <2>1, <2>3, OtherConnections DEF HandlerThrows, Close, ListenerTypeOK
<1>11. ASSUME NEW c \in Conns, WriteAnswer(c) PROVE ConnectionInv'
  <2>. DEFINE last == [request |-> session[c].request, kind |-> session[c].answer]
  <2>1. /\ answered'[c] = Append(answered[c], last) /\ handled' = handled
        /\ session[c].at = "write" /\ conn[c] = "open"
    BY <1>11, OpenSession DEF WriteAnswer, ListenerTypeOK
  <2>2. /\ last.request = Len(answered[c]) + 1
        /\ Len(answered'[c]) = Len(answered[c]) + 1
        /\ answered'[c][Len(answered[c]) + 1] = last
        /\ \A k \in 1 .. Len(answered[c]) : answered'[c][k] = answered[c][k]
    BY <2>1, RequestInHand, ConnectionTypes
  <2>3. handled[c] = 1 .. Len(answered'[c])
    BY <1>1, <2>1, <2>2, ConnectionTypes DEF OneConnection, HandledUpTo, Handled
  <2>4. Answered("open", answered[c])
    BY <1>1, <2>1 DEF OneConnection
  <2>. HIDE DEF last
  <2>5. ASSUME NEW k \in 1 .. Len(answered'[c])
        PROVE  /\ answered'[c][k].request = k
               /\ k < Len(answered'[c]) => answered'[c][k].kind \in Framed
    <3>1. CASE k \in 1 .. Len(answered[c])
      BY <2>2, <2>4, <3>1 DEF Answered
    <3>2. CASE k = Len(answered[c]) + 1
      BY <2>2, <3>2, ConnectionTypes
    <3>. QED
      BY <2>2, <3>1, <3>2, ConnectionTypes
  <2>6. CASE NeedEof(session[c].answer)
    <3>1. Answered("closed", answered'[c])
      BY <2>5 DEF Answered
    <3>2. HandledUpTo("closed", Idle, answered'[c], handled'[c])
      BY <2>1, <2>2, <2>3, ConnectionTypes DEF HandledUpTo, Idle, Handled
    <3>3. Close(c)
      BY <1>11, <2>6 DEF WriteAnswer
    <3>4. OneConnection(c)'
      BY <3>1, <3>2, <3>3, ClosedConnection
    <3>. QED
      BY <1>11, <3>3, <3>4, OtherConnections DEF WriteAnswer, Close, ListenerTypeOK
  <2>7. CASE ~NeedEof(session[c].answer)
    <3>1. session'[c].at = "read" /\ UNCHANGED <<conn, inbox, sent>>
      BY <1>11, <2>7 DEF WriteAnswer, link, ListenerTypeOK
    <3>2. last.kind \in Framed
      BY <2>7 DEF last, NeedEof
    <3>3. Answered("open", answered'[c])
      BY <2>2, <2>5, <3>2, ConnectionTypes DEF Answered
    <3>4. InHand(session[c]) = 1 /\ InHand(session'[c]) = 0 /\ Handled(session'[c]) = 0
      BY <2>1, <3>1 DEF InHand, Handled
    <3>5. Waiting("open", inbox[c], sent[c], session'[c], answered'[c])
      <4>1. Waiting("open", inbox[c], sent[c], session[c], answered[c])
        BY <1>1, <2>1 DEF OneConnection
      <4>2. /\ sent[c] = Len(answered[c]) + 1 + Len(inbox[c])
            /\ \A k \in 1 .. Len(inbox[c]) : inbox[c][k] = Len(answered[c]) + 1 + k
        BY <3>4, <4>1 DEF Waiting
      <4>3. /\ sent[c] = Len(answered'[c]) + 0 + Len(inbox[c])
            /\ \A k \in 1 .. Len(inbox[c]) : inbox[c][k] = Len(answered'[c]) + 0 + k
        BY <2>2, <4>2, ConnectionTypes
      <4>. QED
        BY <3>4, <4>3 DEF Waiting
    <3>6. HandledUpTo("open", session'[c], answered'[c], handled[c])
      BY <2>2, <2>3, <3>4, ConnectionTypes DEF HandledUpTo
    <3>7. OneConnection(c)'
      BY <2>1, <3>1, <3>3, <3>5, <3>6 DEF OneConnection
    <3>. QED
      BY <1>11, <2>7, <3>7, OtherConnections DEF WriteAnswer, link, ListenerTypeOK
  <2>. QED
    BY <2>6, <2>7
<1>12. ASSUME NEW c \in Conns, WriteFails(c) PROVE ConnectionInv'
  <2>1. answered' = answered /\ handled' = handled /\ Handled(session[c]) = 1 /\ Close(c)
    BY <1>12 DEF WriteFails, Handled
  <2>2. Answered("closed", answered[c]) /\ HandledUpTo("closed", Idle, answered[c], handled[c])
    BY <1>1, <2>1 DEF OneConnection, Answered, HandledUpTo
  <2>3. OneConnection(c)'
    BY <2>1, <2>2, ClosedConnection
  <2>. QED
    BY <2>1, <2>3, OtherConnections DEF Close, ListenerTypeOK
<1>13. CASE UNCHANGED listenerVars
  BY <1>13 DEF listenerVars, link, ConnectionInv
<1>. QED
  BY <1>2, <1>3, <1>4, <1>5, <1>6, <1>7, <1>9, <1>10, <1>11, <1>12, <1>13, ListenerCases

-----------------------------------------------------------------------------
LEMMA SessionInvHolds == ListenerSpec => []SessionInv
<1>1. SessionInv /\ [ListenerNext]_listenerVars => SessionInv'
  BY ListenerTypeStep, ConnectionStep DEF SessionInv
<1>. QED
  BY InitSessionInv, <1>1, PTL DEF ListenerSpec

(***************************************************************************)
(* ListenerTypeOK for every number of connections and requests: the state of       *)
(* doSession goes with the state of its connection.                        *)
(***************************************************************************)
THEOREM ListenerTypeCorrect == ListenerSpec => []ListenerTypeOK
  BY SessionInvHolds, PTL DEF SessionInv

(***************************************************************************)
(* AnswersInOrder for every number of connections and requests: the        *)
(* answers of a pipelining client are those of its requests, in order.     *)
(***************************************************************************)
THEOREM Order == ListenerSpec => []AnswersInOrder
<1>1. ASSUME SessionInv
      PROVE  AnswersInOrder
  <2>1. SUFFICES ASSUME NEW c \in Conns, NEW k \in DOMAIN answered[c]
                 PROVE  /\ answered[c][k].request = k
                        /\ k < Len(answered[c]) => answered[c][k].kind \in Framed
    BY DEF AnswersInOrder
  <2>2. k \in 1 .. Len(answered[c])
    BY <1>1, <2>1, ConnectionTypes DEF SessionInv
  <2>. QED
    BY <1>1, <2>2 DEF SessionInv, ConnectionInv, Answered
<1>. QED
  BY SessionInvHolds, <1>1, PTL

(***************************************************************************)
(* AtMostOneUnanswered for every number of connections and requests: a     *)
(* connection handles its requests once and in order, and leaves one       *)
(* unanswered at most.                                                     *)
(***************************************************************************)
THEOREM OneUnanswered == ListenerSpec => []AtMostOneUnanswered
<1>1. ASSUME SessionInv
      PROVE  AtMostOneUnanswered
  <2>1. SUFFICES ASSUME NEW c \in Conns
                 PROVE  /\ handled[c] = 1 .. Cardinality(handled[c])
                        /\ Cardinality(handled[c]) \in {Len(answered[c]), Len(answered[c]) + 1}
                        /\ conn[c] = "open" /\ session[c].at # "write" =>
                             Cardinality(handled[c]) = Len(answered[c])
    BY DEF AtMostOneUnanswered
  <2>2. HandledUpTo(conn[c], session[c], answered[c], handled[c]) /\ Len(answered[c]) \in Nat
    BY <1>1, ConnectionTypes DEF SessionInv, ConnectionInv
  <2>3. PICK n \in {Len(answered[c]), Len(answered[c]) + 1} :
          /\ handled[c] = 1 .. n
          /\ conn[c] = "open" /\ session[c].at # "write" => n = Len(answered[c])
    <3>1. CASE session[c].at = "write"
      BY <2>2, <3>1 DEF HandledUpTo, Handled
    <3>2. CASE session[c].at # "write"
      <4>1. \/ handled[c] = 1 .. Len(answered[c])
            \/ conn[c] = "closed" /\ handled[c] = 1 .. Len(answered[c]) + 1
        BY <2>2, <3>2 DEF HandledUpTo, Handled
      <4>. QED
        BY <4>1
    <3>. QED
      BY <3>1, <3>2
  <2>4. Cardinality(1 .. n) = n
    BY <2>2, <2>3, FS_Interval
  <2>. QED
    BY <2>3, <2>4
<1>. QED
  BY SessionInvHolds, <1>1, PTL


-----------------------------------------------------------------------------
\* The course of a call: it has an answer only after its request was carried
\* out, it returns once, and it remembers who had returned true before it.
CallType ==
  /\ at \in [Calls -> {"new", "request", "sections", "answer", "given up", "done"}]
  /\ call \in [Calls -> [method : Writes \cup Reads \cup {Nothing}, key : Keys \cup {Nothing},
                         content : Contents \cup {<<>>}, refresh : BOOLEAN, now : {0, 1}, before : SUBSET Calls]]
  /\ served = [c \in Calls |-> served[c]] /\ reply = [c \in Calls |-> reply[c]]
  /\ clock \in {0, 1}
InOrder(c) ==
  /\ IF at[c] = "new" THEN call[c].method = Nothing ELSE call[c].key \in Keys /\ call[c].method \in Writes \cup Reads
  /\ at[c] \in {"new", "request"} => served[c] = NoRows
  /\ at[c] \notin {"given up", "done"} => reply[c] = Nothing
  /\ at[c] = "given up" => reply[c] = <<"exception">>
  /\ at[c] = "sections" => call[c].method = "insertDocument" /\ served[c] = Rows(c)
BeforeIsTrue == \A c \in Calls : \A d \in call[c].before : reply[d] = <<"true">>
CallInv == CallType /\ (\A c \in Calls : InOrder(c)) /\ BeforeIsTrue

LEMMA Distinct ==
  /\ Nothing \notin Calls /\ Nothing \notin Keys /\ Nothing \notin Writes \cup Reads
  /\ Nothing # <<"true">> /\ "sections" \notin Calls
  BY NothingAssumption

LEMMA InitCallInv == RestInit => CallInv
<1>. SUFFICES ASSUME RestInit PROVE CallInv
  OBVIOUS
<1>1. CallType
  BY DEF RestInit, CallType, NoCall
<1>2. (\A c \in Calls : InOrder(c)) /\ BeforeIsTrue
  BY DEF RestInit, InOrder, BeforeIsTrue, NoCall
<1>. QED
  BY <1>1, <1>2 DEF CallInv

\* A step is one of one call, or the clock's.
LEMMA RestCases ==
  ASSUME [RestNext]_restVars
  PROVE  \/ \E c \in Calls : Start(c) \/ Request(c) \/ Refuse(c) \/ Receive(c) \/ GiveUp(c)
         \/ UNCHANGED <<tables, at, call, served, reply>> /\ (clock' = clock \/ clock' = 1)
  BY DEF RestNext, RestQuiet, Expire, restVars, tables

\* What is carried out was waited for, or given up: it is the request of its
\* method, or the second one of insertDocument.
LEMMA RequestServes ==
  ASSUME NEW c \in Calls, Request(c) \/ Refuse(c)
  PROVE  /\ \E answer : CarryOut(c, answer)
         /\ \/ at[c] \in {"request", "sections"}
            \/ at[c] = "given up" /\ (served[c] = NoRows \/ served[c] = Rows(c))
<1>1. CASE Refuse(c)
  BY <1>1 DEF Refuse
<1>2. CASE \/ insertDocument(c) \/ selectDocumentById(c) \/ deleteDocument(c)
           \/ insertOAuthState(c) \/ consumeOAuthState(c) \/ selectAuthUser(c)
  BY <1>2 DEF insertDocument, selectDocumentById, deleteDocument, insertOAuthState, consumeOAuthState,
              selectAuthUser, Arrives
<1>3. CASE \/ insertAuthUser(c) \/ updateAuthUserLogin(c) \/ upsertGoogleOAuthTokens(c)
           \/ selectGoogleOAuthTokens(c) \/ insertAppSession(c) \/ selectActiveAppSession(c)
           \/ revokeAppSession(c) \/ updateAppSessionLastSeen(c)
  BY <1>3 DEF insertAuthUser, updateAuthUserLogin, upsertGoogleOAuthTokens, selectGoogleOAuthTokens,
              insertAppSession, selectActiveAppSession, revokeAppSession, updateAppSessionLastSeen, Arrives
<1>4. CASE insertSections(c)
  BY <1>4 DEF insertSections
<1>. QED
  BY <1>1, <1>2, <1>3, <1>4 DEF Request

LEMMA ServeMoves ==
  ASSUME CallType, NEW c \in Calls, NEW answer, CarryOut(c, answer)
  PROVE  /\ at'[c] = IF at[c] = "given up" THEN "done" ELSE "answer"
         /\ served'[c] = answer
         /\ \A d \in Calls : d # c => at'[d] = at[d] /\ served'[d] = served[d]
         /\ UNCHANGED <<clock, call, reply>>
         /\ CallType'
  BY DEF CallType, CarryOut

LEMMA StartAsks ==
  ASSUME CallInv, NEW c \in Calls, Start(c)
  PROVE  /\ at[c] = "new" /\ at'[c] = "request"
         /\ call'[c].key \in Keys /\ call'[c].method \in Writes \cup Reads
         /\ call'[c].before = {d \in Calls : reply[d] = <<"true">>} /\ call'[c].now = clock
         /\ \A d \in Calls : d # c => at'[d] = at[d] /\ call'[d] = call[d]
         /\ UNCHANGED <<tables, clock, served, reply>>
         /\ CallType'
<1>1. PICK method \in Writes \cup Reads, key \in Keys, content \in Contents \cup {<<>>}, refresh \in BOOLEAN :
        BeginCall(c, method, key, content, refresh)
  BY MethodAssumption DEF Start
<1>. DEFINE begun == [method |-> method, key |-> key, content |-> content, refresh |-> refresh,
                      now |-> clock, before |-> {d \in Calls : reply[d] = <<"true">>}]
<1>2. /\ at[c] = "new" /\ at' = [at EXCEPT ![c] = "request"] /\ call' = [call EXCEPT ![c] = begun]
      /\ UNCHANGED <<tables, clock, served, reply>>
  BY <1>1 DEF BeginCall
<1>3. begun \in [method : Writes \cup Reads \cup {Nothing}, key : Keys \cup {Nothing},
                 content : Contents \cup {<<>>}, refresh : BOOLEAN, now : {0, 1}, before : SUBSET Calls]
  BY DEF CallInv, CallType
<1>4. CallType'
  BY <1>2, <1>3 DEF CallInv, CallType
<1>5. call'[c] = begun /\ \A d \in Calls : d # c => at'[d] = at[d] /\ call'[d] = call[d]
  BY <1>2 DEF CallInv, CallType
<1>6. at'[c] = "request"
  BY <1>2 DEF CallInv, CallType
<1>. QED
  BY <1>2, <1>4, <1>5, <1>6

\* A method is told its answer, goes on to its second request, or gives up.
LEMMA ReceiveMoves ==
  ASSUME CallInv, NEW c \in Calls, Receive(c)
  PROVE  /\ at[c] = "answer" /\ reply[c] = Nothing /\ UNCHANGED <<tables, clock, call, served>>
         /\ \A d \in Calls : d # c => at'[d] = at[d] /\ reply'[d] = reply[d]
         /\ \/ /\ served[c] = Rows(c) /\ call[c].method = "insertDocument" /\ call[c].content # <<>>
               /\ at'[c] = "sections" /\ reply'[c] = Nothing
            \/ /\ ~(served[c] = Rows(c) /\ call[c].method = "insertDocument" /\ call[c].content # <<>>)
               /\ at'[c] = "done" /\ reply'[c] = Returned(c)
         /\ CallType'
  BY DEF CallInv, CallType, InOrder, Receive, Return, FirstOfTwo

LEMMA GiveUpMoves ==
  ASSUME CallInv, NEW c \in Calls, GiveUp(c)
  PROVE  /\ at[c] \in {"request", "sections", "answer"} /\ reply[c] = Nothing
         /\ at'[c] = IF at[c] = "answer" THEN "done" ELSE "given up"
         /\ reply'[c] = <<"exception">>
         /\ \A d \in Calls : d # c => at'[d] = at[d] /\ reply'[d] = reply[d]
         /\ UNCHANGED <<tables, clock, call, served>>
         /\ CallType'
  BY DEF CallInv, CallType, InOrder, GiveUp

LEMMA NextCallInv == CallInv /\ [RestNext]_restVars => CallInv'
<1>. SUFFICES ASSUME CallInv, [RestNext]_restVars PROVE CallInv'
  OBVIOUS
<1>1. ASSUME NEW c \in Calls, Start(c) PROVE CallInv'
  <2>1. InOrder(c)' /\ \A d \in Calls : d # c => InOrder(d)'
    <3>1. /\ at[c] = "new" /\ at'[c] = "request"
          /\ call'[c].key \in Keys /\ call'[c].method \in Writes \cup Reads
          /\ \A d \in Calls : d # c => at'[d] = at[d] /\ call'[d] = call[d]
          /\ served' = served /\ reply' = reply
      BY <1>1, StartAsks
    <3>2. \A d \in Calls : InOrder(d)
      BY DEF CallInv
    <3>. QED
      BY ONLY <3>1, <3>2, c \in Calls DEF InOrder
  <2>2. BeforeIsTrue'
    <3>1. reply' = reply /\ call'[c].before = {d \in Calls : reply[d] = <<"true">>}
          /\ \A d \in Calls : d # c => call'[d] = call[d]
      BY <1>1, StartAsks
    <3>2. \A e \in Calls : \A d \in call[e].before : reply[d] = <<"true">>
      BY DEF CallInv, BeforeIsTrue
    <3>. QED
      BY ONLY <3>1, <3>2 DEF BeforeIsTrue
  <2>. QED
    BY <1>1, <2>1, <2>2, StartAsks DEF CallInv
<1>2. ASSUME NEW c \in Calls, Request(c) \/ Refuse(c) PROVE CallInv'
  <2>1. PICK answer : CarryOut(c, answer)
    BY <1>2, RequestServes
  <2>2. at[c] \in {"request", "sections", "given up"}
    BY <1>2, RequestServes
  <2>3. InOrder(c)' /\ \A d \in Calls : d # c => InOrder(d)'
    <3>1. /\ at'[c] = IF at[c] = "given up" THEN "done" ELSE "answer"
          /\ \A d \in Calls : d # c => at'[d] = at[d] /\ served'[d] = served[d]
          /\ call' = call /\ reply' = reply
      BY <2>1, ServeMoves DEF CallInv
    <3>2. \A d \in Calls : InOrder(d)
      BY DEF CallInv
    <3>. QED
      BY ONLY <2>2, <3>1, <3>2, c \in Calls DEF InOrder
  <2>4. BeforeIsTrue'
    BY <2>1, ServeMoves DEF CallInv, BeforeIsTrue
  <2>. QED
    BY <2>1, <2>3, <2>4, ServeMoves DEF CallInv
<1>3. ASSUME NEW c \in Calls, Receive(c) PROVE CallInv'
  <2>1. InOrder(c)' /\ \A d \in Calls : d # c => InOrder(d)'
    BY <1>3, ReceiveMoves DEF CallInv, InOrder
  <2>2. BeforeIsTrue'
    BY <1>3, ReceiveMoves, Distinct DEF CallInv, CallType, BeforeIsTrue
  <2>. QED
    BY <1>3, <2>1, <2>2, ReceiveMoves DEF CallInv
<1>4. ASSUME NEW c \in Calls, GiveUp(c) PROVE CallInv'
  <2>1. InOrder(c)' /\ \A d \in Calls : d # c => InOrder(d)'
    BY <1>4, GiveUpMoves DEF CallInv, InOrder
  <2>2. BeforeIsTrue'
    BY <1>4, GiveUpMoves, Distinct DEF CallInv, CallType, BeforeIsTrue
  <2>. QED
    BY <1>4, <2>1, <2>2, GiveUpMoves DEF CallInv
<1>5. CASE UNCHANGED <<tables, at, call, served, reply>> /\ (clock' = clock \/ clock' = 1)
  BY <1>5 DEF CallInv, CallType, InOrder, BeforeIsTrue
<1>. QED
  BY <1>1, <1>2, <1>3, <1>4, <1>5, RestCases

-----------------------------------------------------------------------------
\* Documents.  A row belongs to an insert whose first request was carried out,
\* so that no request can make it again; its sections are all or none.  What
\* an insert was answered says how far it came, and what a reader was answered
\* were the sections of one insert.
Insert(c) == call[c].method = "insertDocument"
ReadsDocument(c) == call[c].method = "selectDocumentById"
BothServed == <<"rows", "sections">>
InsertInv(d) ==
  /\ Insert(d) => served[d] \in {NoRows, Failed, Rows(d), BothServed}
  /\ Insert(d) /\ served[d] = BothServed /\ documents[call[d].key] = d => sections[d] = call[d].content
  /\ Insert(d) /\ reply[d] = <<"true">> => call[d].content = <<>> \/ served[d] = BothServed
  /\ sections[d] # <<>> => at[d] # "new" /\ sections[d] = call[d].content
RowInv(k) ==
  documents[k] # Nothing =>
    /\ Insert(documents[k]) /\ call[documents[k]].key = k
    /\ at[documents[k]] # "new" /\ served[documents[k]] # NoRows
OfOneInsert(c) ==
  {<<"rows", row.of, row.shown>> : row \in
     {r \in [of : Calls, shown : Contents \cup {<<>>}] :
        at[r.of] # "new" /\ call[r.of].key = call[c].key /\ r.shown \in {<<>>, call[r.of].content}}}
ReadInv(c) ==
  /\ ReadsDocument(c) => served[c] \in {NoRows, Failed} \cup OfOneInsert(c)
  /\ ReadsDocument(c) /\ reply[c] \notin {Nothing, <<"exception">>, <<"false">>} => at[c] = "done" /\ reply[c] = served[c]
DocumentsInv ==
  /\ documents \in [Keys -> Calls \cup {Nothing}] /\ sections \in [Calls -> Contents \cup {<<>>}]
  /\ \A k \in Keys : RowInv(k)
  /\ \A d \in Calls : InsertInv(d)
  /\ \A c \in Calls : ReadInv(c)

LEMMA AnswersDiffer ==
  /\ Failed # NoRows /\ Failed # BothServed /\ NoRows # BothServed
  /\ \A row : Rows(row) # Failed /\ Rows(row) # NoRows
  /\ \A c \in Calls : Rows(c) # BothServed
  BY Distinct DEF Failed, NoRows, BothServed, Rows

LEMMA InitDocumentsInv == RestInit => DocumentsInv
<1>. SUFFICES ASSUME RestInit PROVE DocumentsInv
  OBVIOUS
<1>1. \A d \in Calls : ~Insert(d) /\ ~ReadsDocument(d) /\ sections[d] = <<>>
  BY Distinct DEF RestInit, NoCall, Insert, ReadsDocument, Writes, Reads
<1>2. \A k \in Keys : documents[k] = Nothing
  BY DEF RestInit
<1>. QED
  BY <1>1, <1>2 DEF RestInit, DocumentsInv, RowInv, InsertInv, ReadInv

\* What other requests do to the documents: nothing.
LEMMA OtherRequests ==
  ASSUME NEW c \in Calls, Request(c) \/ Refuse(c),
         ~insertDocument(c), ~insertSections(c), ~deleteDocument(c), ~selectDocumentById(c)
  PROVE  /\ UNCHANGED <<documents, sections>>
         /\ \E answer : CarryOut(c, answer) /\ (Insert(c) \/ ReadsDocument(c) => answer = Failed)
<1>1. CASE Refuse(c)
  BY <1>1 DEF Refuse, tables
<1>2. CASE insertOAuthState(c) \/ consumeOAuthState(c) \/ selectAuthUser(c) \/ insertAuthUser(c)
  BY <1>2 DEF insertOAuthState, consumeOAuthState, selectAuthUser, insertAuthUser, Arrives, Insert, ReadsDocument, tables
<1>3. CASE \/ updateAuthUserLogin(c) \/ upsertGoogleOAuthTokens(c) \/ selectGoogleOAuthTokens(c)
  BY <1>3 DEF updateAuthUserLogin, upsertGoogleOAuthTokens, selectGoogleOAuthTokens, Arrives, Insert, ReadsDocument, tables
<1>4. CASE \/ insertAppSession(c) \/ selectActiveAppSession(c) \/ revokeAppSession(c)
           \/ updateAppSessionLastSeen(c)
  BY <1>4 DEF insertAppSession, selectActiveAppSession, revokeAppSession, updateAppSessionLastSeen,
              Arrives, Insert, ReadsDocument, tables
<1>. QED
  BY <1>1, <1>2, <1>3, <1>4 DEF Request

\* A step of one call leaves the others as they are, and its arguments.
OnlyCall(c) ==
  /\ \A d \in Calls : d # c => /\ at'[d] = at[d] /\ call'[d] = call[d]
                               /\ served'[d] = served[d] /\ reply'[d] = reply[d]
  /\ at'[c] # "new" /\ (at[c] # "new" => call'[c] = call[c])

LEMMA StepMoves ==
  ASSUME CallInv, NEW c \in Calls, Start(c) \/ Request(c) \/ Refuse(c) \/ Receive(c) \/ GiveUp(c)
  PROVE  OnlyCall(c)
<1>1. CASE Start(c)
  BY <1>1, StartAsks DEF OnlyCall
<1>2. CASE Request(c) \/ Refuse(c)
  BY <1>2, RequestServes, ServeMoves DEF CallInv, OnlyCall
<1>3. CASE Receive(c)
  BY <1>3, ReceiveMoves DEF OnlyCall
<1>4. CASE GiveUp(c)
  BY <1>4, GiveUpMoves DEF OnlyCall
<1>. QED
  BY <1>1, <1>2, <1>3, <1>4

\* An answer a reader may have stays one: calls that have begun do not change.
LEMMA OfOneInsertStays ==
  ASSUME NEW c \in Calls, NEW d \in Calls, OnlyCall(c), call'[d].key = call[d].key
  PROVE  OfOneInsert(d) \subseteq OfOneInsert(d)'
<1>1. \A e \in Calls : at[e] # "new" => at'[e] # "new" /\ call'[e] = call[e]
  BY DEF OnlyCall
<1>. QED
  BY ONLY <1>1, call'[d].key = call[d].key DEF OfOneInsert

LEMMA OtherReaders ==
  ASSUME DocumentsInv, NEW c \in Calls, OnlyCall(c), NEW d \in Calls, d # c
  PROVE  ReadInv(d)'
<1>1. /\ at'[d] = at[d] /\ call'[d] = call[d] /\ served'[d] = served[d] /\ reply'[d] = reply[d]
  BY DEF OnlyCall
<1>2. ReadInv(d)
  BY DEF DocumentsInv
<1>3. OfOneInsert(d) \subseteq OfOneInsert(d)'
  BY <1>1, OfOneInsertStays
<1>. QED
  BY ONLY <1>1, <1>2, <1>3 DEF ReadInv, ReadsDocument

LEMMA OtherInserts ==
  ASSUME DocumentsInv, NEW c \in Calls, OnlyCall(c), NEW d \in Calls, d # c,
         sections'[d] = sections[d], documents'[call[d].key] = d => documents[call[d].key] = d
  PROVE  InsertInv(d)'
<1>1. /\ at'[d] = at[d] /\ call'[d] = call[d] /\ served'[d] = served[d] /\ reply'[d] = reply[d]
  BY DEF OnlyCall
<1>2. InsertInv(d)
  BY DEF DocumentsInv
<1>. QED
  BY ONLY <1>1, <1>2, sections'[d] = sections[d], documents'[call[d].key] = d => documents[call[d].key] = d
     DEF InsertInv, Insert, Rows

LEMMA OtherRows ==
  ASSUME DocumentsInv, NEW c \in Calls, OnlyCall(c), NEW k \in Keys, documents'[k] = documents[k],
         documents[k] = c => served'[c] # NoRows
  PROVE  RowInv(k)'
<1>1. RowInv(k) /\ documents[k] \in Calls \cup {Nothing}
  BY DEF DocumentsInv
<1>2. CASE documents[k] = Nothing
  BY <1>2 DEF RowInv
<1>3. CASE documents[k] # Nothing
  <2>. DEFINE d == documents[k]
  <2>1. d \in Calls /\ Insert(d) /\ call[d].key = k /\ at[d] # "new" /\ served[d] # NoRows
    BY <1>1, <1>3 DEF RowInv
  <2>2. at'[d] # "new" /\ call'[d] = call[d] /\ served'[d] # NoRows
    BY <2>1 DEF OnlyCall
  <2>. QED
    BY <2>1, <2>2 DEF RowInv, Insert
<1>. QED
  BY <1>2, <1>3

\* A step of one call that leaves the documents alone: what is left to show is
\* about that call.
LEMMA QuietStep ==
  ASSUME DocumentsInv, NEW c \in Calls, OnlyCall(c), UNCHANGED <<documents, sections>>,
         served'[c] # NoRows \/ at[c] = "new" \/ served[c] = NoRows \/ ~Insert(c),
         InsertInv(c)', ReadInv(c)'
  PROVE  DocumentsInv'
<1>1. \A k \in Keys : documents[k] = c => at[c] # "new" /\ served[c] # NoRows /\ Insert(c)
  BY Distinct DEF DocumentsInv, RowInv
<1>2. \A k \in Keys : RowInv(k)'
  BY <1>1, OtherRows
<1>3. \A d \in Calls : InsertInv(d)' /\ ReadInv(d)'
  BY OtherInserts, OtherReaders
<1>. QED
  BY <1>2, <1>3 DEF DocumentsInv

LEMMA StartDocuments ==
  ASSUME CallInv, DocumentsInv, NEW c \in Calls, Start(c)
  PROVE  DocumentsInv'
<1>1. /\ at[c] = "new" /\ UNCHANGED <<documents, sections, served, reply>> /\ OnlyCall(c)
  BY StartAsks, StepMoves DEF tables
<1>2. served'[c] = NoRows /\ reply'[c] = Nothing /\ sections'[c] = <<>>
  BY <1>1 DEF CallInv, InOrder, DocumentsInv, InsertInv
<1>3. InsertInv(c)'
  BY <1>2, Distinct DEF InsertInv, NoRows, BothServed
<1>4. ReadInv(c)'
  BY <1>2 DEF ReadInv
<1>. QED
  BY <1>1, <1>3, <1>4, QuietStep

LEMMA GiveUpDocuments ==
  ASSUME CallInv, DocumentsInv, NEW c \in Calls, GiveUp(c)
  PROVE  DocumentsInv'
<1>1. /\ UNCHANGED <<documents, sections, served, call>> /\ OnlyCall(c) /\ reply'[c] = <<"exception">>
  BY GiveUpMoves, StepMoves DEF tables
<1>2. InsertInv(c) /\ ReadInv(c)
  BY DEF DocumentsInv
<1>3. OfOneInsert(c) \subseteq OfOneInsert(c)'
  BY <1>1, OfOneInsertStays
<1>4. at'[c] # "new"
  BY <1>1 DEF OnlyCall
<1>5. InsertInv(c)'
  BY ONLY <1>1, <1>2, <1>4 DEF InsertInv, Insert, Rows
<1>6. ReadInv(c)'
  BY ONLY <1>1, <1>2, <1>3 DEF ReadInv, ReadsDocument
<1>. QED
  BY <1>1, <1>5, <1>6, QuietStep

LEMMA ReceiveDocuments ==
  ASSUME CallInv, DocumentsInv, NEW c \in Calls, Receive(c)
  PROVE  DocumentsInv'
<1>1. /\ UNCHANGED <<documents, sections, served, call>> /\ OnlyCall(c) /\ at[c] = "answer" /\ reply[c] = Nothing
      /\ \/ at'[c] = "sections" /\ reply'[c] = Nothing
         \/ /\ ~(served[c] = Rows(c) /\ call[c].method = "insertDocument" /\ call[c].content # <<>>)
            /\ at'[c] = "done" /\ reply'[c] = Returned(c)
  BY ReceiveMoves, StepMoves DEF tables
<1>2. InsertInv(c) /\ ReadInv(c)
  BY DEF DocumentsInv
<1>3. OfOneInsert(c) \subseteq OfOneInsert(c)'
  BY <1>1, OfOneInsertStays
<1>5. InsertInv(c)'
  <2>1. Insert(c) /\ reply'[c] = <<"true">> => call[c].content = <<>> \/ served[c] = BothServed
    BY <1>1, <1>2, Distinct DEF InsertInv, Insert, Returned, Reads, NeedsRows
  <2>. QED
    BY ONLY <1>1, <1>2, <2>1 DEF InsertInv, Insert, Rows
<1>6. ReadInv(c)'
  <2>1. ReadsDocument(c) => reply'[c] \in {Nothing, <<"false">>} \/ (at'[c] = "done" /\ reply'[c] = served[c])
    BY <1>1 DEF ReadsDocument, Returned, Reads
  <2>. QED
    BY ONLY <1>1, <1>2, <1>3, <2>1 DEF ReadInv, ReadsDocument
<1>. QED
  BY <1>1, <1>5, <1>6, <1>2, QuietStep

\* Whoever carries out a request: the call has not returned a value, and will
\* only be told the answer.
LEMMA Carried ==
  ASSUME CallInv, NEW c \in Calls, Request(c) \/ Refuse(c), NEW answer, CarryOut(c, answer)
  PROVE  /\ OnlyCall(c) /\ UNCHANGED <<call, reply>> /\ served'[c] = answer
         /\ at[c] # "new" /\ at'[c] # "new" /\ call[c].key \in Keys
         /\ reply[c] \in {Nothing, <<"exception">>} /\ reply[c] # <<"true">>
<1>1. /\ OnlyCall(c) /\ UNCHANGED <<call, reply>> /\ served'[c] = answer
      /\ at[c] \in {"request", "sections", "given up"} /\ at'[c] # "new"
  BY StepMoves, ServeMoves, RequestServes DEF CallInv, OnlyCall
<1>2. reply[c] = Nothing \/ reply[c] = <<"exception">>
  BY <1>1 DEF CallInv, InOrder
<1>3. reply[c] # <<"true">>
  BY <1>2, Distinct
<1>4. call[c].key \in Keys
  BY <1>1 DEF CallInv, InOrder
<1>. QED
  BY <1>1, <1>2, <1>3, <1>4

LEMMA OtherDocuments ==
  ASSUME CallInv, DocumentsInv, NEW c \in Calls, Request(c) \/ Refuse(c),
         ~insertDocument(c), ~insertSections(c), ~deleteDocument(c), ~selectDocumentById(c)
  PROVE  DocumentsInv'
<1>1. PICK answer : CarryOut(c, answer) /\ (Insert(c) \/ ReadsDocument(c) => answer = Failed)
  BY OtherRequests
<1>2. /\ UNCHANGED <<documents, sections, reply, call>> /\ OnlyCall(c) /\ served'[c] = answer
      /\ at'[c] # "new" /\ reply[c] \in {Nothing, <<"exception">>} /\ reply[c] # <<"true">>
  BY <1>1, Carried, OtherRequests
<1>3. InsertInv(c) /\ ReadInv(c)
  BY DEF DocumentsInv
<1>4. InsertInv(c)'
  BY ONLY <1>1, <1>2, <1>3, AnswersDiffer DEF InsertInv, Insert, ReadsDocument, Rows
<1>5. ReadInv(c)'
  BY ONLY <1>1, <1>2 DEF ReadInv, ReadsDocument
<1>6. served'[c] # NoRows \/ ~Insert(c)
  BY <1>1, <1>2, AnswersDiffer
<1>. QED
  BY <1>2, <1>4, <1>5, <1>6, QuietStep

LEMMA InsertDocuments ==
  ASSUME CallInv, DocumentsInv, NEW c \in Calls, insertDocument(c)
  PROVE  DocumentsInv'
<1>. DEFINE key == call[c].key
<1>1. /\ Insert(c) /\ ~ReadsDocument(c) /\ served[c] = NoRows /\ UNCHANGED sections
      /\ \/ CarryOut(c, Rows(c)) /\ documents' = [documents EXCEPT ![key] = c]
         \/ CarryOut(c, Failed) /\ UNCHANGED documents
  BY DEF insertDocument, Arrives, CallInv, InOrder, Insert, ReadsDocument
<1>2. InsertInv(c) /\ \A d \in Calls : d # c => ReadInv(d)'
  <2>1. OnlyCall(c)
    BY StepMoves DEF Request
  <2>. QED
    BY <2>1, OtherReaders DEF DocumentsInv
<1>3. CASE CarryOut(c, Failed) /\ UNCHANGED documents
  <2>1. /\ OnlyCall(c) /\ UNCHANGED <<call, reply>> /\ served'[c] = Failed /\ at'[c] # "new"
        /\ reply[c] # <<"true">>
    BY <1>3, Carried DEF Request
  <2>2. InsertInv(c)' /\ ReadInv(c)'
    BY ONLY <1>1, <1>2, <1>3, <2>1, AnswersDiffer DEF InsertInv, ReadInv, Insert, ReadsDocument, Rows
  <2>. QED
    BY <1>1, <1>3, <2>1, <2>2, QuietStep
<1>4. CASE CarryOut(c, Rows(c)) /\ documents' = [documents EXCEPT ![key] = c]
  <2>1. /\ OnlyCall(c) /\ UNCHANGED <<call, reply>> /\ served'[c] = Rows(c) /\ at'[c] # "new"
        /\ reply[c] # <<"true">> /\ key \in Keys
    BY <1>4, Carried DEF Request
  <2>2. documents'[key] = c /\ \A k \in Keys : k # key => documents'[k] = documents[k]
    BY <1>4, <2>1 DEF DocumentsInv
  <2>3. documents' \in [Keys -> Calls \cup {Nothing}]
    BY <1>4, <2>1 DEF DocumentsInv
  <2>4. InsertInv(c)'
    BY ONLY <1>1, <1>2, <2>1, AnswersDiffer, c \in Calls DEF InsertInv, Insert, Rows
  <2>5. ReadInv(c)'
    BY ONLY <1>1, <2>1 DEF ReadInv, ReadsDocument
  <2>6. ASSUME NEW d \in Calls, d # c PROVE InsertInv(d)'
    <3>1. documents'[call[d].key] = d => documents[call[d].key] = d
      BY <2>2, <2>6, <1>4 DEF DocumentsInv
    <3>. QED
      BY <1>1, <2>1, <2>6, <3>1, OtherInserts
  <2>7. ASSUME NEW k \in Keys PROVE RowInv(k)'
    <3>1. CASE k = key
      BY <1>1, <2>1, <2>2, <3>1, AnswersDiffer DEF RowInv, Insert
    <3>2. CASE k # key
      BY <2>1, <2>2, <3>2, OtherRows, AnswersDiffer
    <3>. QED
      BY <3>1, <3>2
  <2>. QED
    BY <1>1, <1>2, <2>3, <2>4, <2>5, <2>6, <2>7 DEF DocumentsInv
<1>. QED
  BY <1>1, <1>3, <1>4

LEMMA SectionsDocuments ==
  ASSUME CallInv, DocumentsInv, NEW c \in Calls, insertSections(c)
  PROVE  DocumentsInv'
<1>. DEFINE key == call[c].key
<1>1. /\ Insert(c) /\ ~ReadsDocument(c) /\ served[c] = Rows(c) /\ UNCHANGED documents
      /\ \/ /\ CarryOut(c, BothServed) /\ documents[key] = c
            /\ sections' = [sections EXCEPT ![c] = call[c].content]
         \/ CarryOut(c, Failed) /\ UNCHANGED sections
  BY DEF insertSections, CallInv, InOrder, Insert, ReadsDocument, BothServed
<1>2. PICK answer \in {BothServed, Failed} : CarryOut(c, answer)
  BY <1>1
<1>3. /\ OnlyCall(c) /\ UNCHANGED <<call, reply>> /\ served'[c] = answer /\ at'[c] # "new"
      /\ reply[c] # <<"true">> /\ served'[c] # NoRows
  BY <1>2, Carried, AnswersDiffer DEF Request
<1>4. InsertInv(c) /\ ReadInv(c)'
  BY <1>1, <1>3 DEF DocumentsInv, ReadInv, ReadsDocument
<1>5. CASE UNCHANGED sections /\ served'[c] = Failed
  <2>1. InsertInv(c)'
    BY ONLY <1>1, <1>3, <1>4, <1>5, AnswersDiffer DEF InsertInv, Insert, Rows
  <2>. QED
    BY <1>1, <1>3, <1>4, <1>5, <2>1, QuietStep
<1>6. CASE sections' = [sections EXCEPT ![c] = call[c].content]
  <2>1. sections'[c] = call[c].content /\ \A d \in Calls : d # c => sections'[d] = sections[d]
    BY <1>6 DEF DocumentsInv
  <2>2. sections' \in [Calls -> Contents \cup {<<>>}]
    BY <1>6 DEF DocumentsInv, CallInv, CallType
  <2>3. InsertInv(c)'
    BY ONLY <1>1, <1>2, <1>3, <2>1 DEF InsertInv, Insert, Rows
  <2>4. \A d \in Calls : InsertInv(d)'
    BY <1>1, <1>3, <2>1, <2>3, OtherInserts
  <2>5. \A k \in Keys : RowInv(k)'
    BY <1>1, <1>3, OtherRows
  <2>6. \A d \in Calls : ReadInv(d)'
    BY <1>3, <1>4, OtherReaders
  <2>. QED
    BY <1>1, <2>2, <2>4, <2>5, <2>6 DEF DocumentsInv
<1>7. CASE CarryOut(c, Failed) /\ UNCHANGED sections
  BY <1>5, <1>7, Carried DEF Request
<1>. QED
  BY <1>1, <1>6, <1>7

\* A row that is deleted takes its sections along, of whichever insert it is.
LEMMA DeleteDocuments ==
  ASSUME CallInv, DocumentsInv, NEW c \in Calls, deleteDocument(c)
  PROVE  DocumentsInv'
<1>. DEFINE key == call[c].key
            row == documents[key]
<1>1. /\ ~Insert(c) /\ ~ReadsDocument(c)
      /\ documents' = [documents EXCEPT ![key] = Nothing] /\ sections' = WithoutSections(row)
      /\ \E answer : CarryOut(c, answer)
  BY DEF deleteDocument, Arrives, Insert, ReadsDocument
<1>2. OnlyCall(c) /\ UNCHANGED <<call, reply>> /\ at'[c] # "new" /\ key \in Keys
  BY <1>1, Carried DEF Request
<1>3. /\ documents'[key] = Nothing /\ (\A k \in Keys : k # key => documents'[k] = documents[k])
      /\ documents' \in [Keys -> Calls \cup {Nothing}]
  BY <1>1, <1>2 DEF DocumentsInv
<1>4. /\ \A d \in Calls : sections'[d] = IF d = row THEN <<>> ELSE sections[d]
      /\ sections' \in [Calls -> Contents \cup {<<>>}]
  BY <1>1 DEF WithoutSections, DocumentsInv
<1>5. row # Nothing => row \in Calls /\ row # c /\ call[row].key = key
  BY <1>1, <1>2 DEF DocumentsInv, RowInv
<1>6. ASSUME NEW d \in Calls, d # c PROVE InsertInv(d)'
  <2>1. CASE d = row
    <3>1. call[d].key = key /\ sections'[d] = <<>> /\ documents'[key] # d
      BY <1>3, <1>4, <1>5, <2>1, Distinct
    <3>2. /\ at'[d] = at[d] /\ call'[d] = call[d] /\ served'[d] = served[d] /\ reply'[d] = reply[d]
          /\ InsertInv(d)
      BY <1>2, <1>6 DEF OnlyCall, DocumentsInv
    <3>. QED
      BY ONLY <3>1, <3>2 DEF InsertInv, Insert, Rows
  <2>2. CASE d # row
    <3>1. documents'[call[d].key] = d => documents[call[d].key] = d
      BY <1>1, <1>2, <1>3, Distinct DEF DocumentsInv
    <3>. QED
      BY <1>2, <1>4, <1>6, <2>2, <3>1, OtherInserts
  <2>. QED
    BY <2>1, <2>2
<1>7. InsertInv(c)'
  <2>1. sections'[c] = sections[c] /\ InsertInv(c)
    BY <1>4, <1>5, Distinct DEF DocumentsInv
  <2>. QED
    BY ONLY <1>1, <1>2, <2>1 DEF InsertInv, Insert, Rows
<1>8. ASSUME NEW k \in Keys PROVE RowInv(k)'
  <2>1. CASE k = key
    BY <1>3, <2>1 DEF RowInv
  <2>2. CASE k # key
    <3>1. documents[k] # c
      BY <1>1, Distinct DEF DocumentsInv, RowInv
    <3>. QED
      BY <1>2, <1>3, <2>2, <3>1, OtherRows
  <2>. QED
    BY <2>1, <2>2
<1>9. \A d \in Calls : ReadInv(d)'
  BY <1>1, <1>2, OtherReaders DEF ReadInv, ReadsDocument
<1>. QED
  BY <1>3, <1>4, <1>6, <1>7, <1>8, <1>9 DEF DocumentsInv

LEMMA SelectDocuments ==
  ASSUME CallInv, DocumentsInv, NEW c \in Calls, selectDocumentById(c)
  PROVE  DocumentsInv'
<1>. DEFINE key == call[c].key
            row == documents[key]
<1>1. /\ ~Insert(c) /\ ReadsDocument(c) /\ UNCHANGED <<documents, sections>>
      /\ CarryOut(c, IF row = Nothing THEN NoRows ELSE <<"rows", row, sections[row]>>)
  BY DEF selectDocumentById, Arrives, Embedded, Insert, ReadsDocument, tables
<1>2. /\ OnlyCall(c) /\ UNCHANGED <<call, reply>> /\ at'[c] # "new" /\ key \in Keys
      /\ served'[c] = IF row = Nothing THEN NoRows ELSE <<"rows", row, sections[row]>>
      /\ reply[c] \in {Nothing, <<"exception">>}
  BY <1>1, Carried DEF Request
<1>3. row # Nothing => <<"rows", row, sections[row]>> \in OfOneInsert(c)'
  <2>. SUFFICES ASSUME row # Nothing PROVE <<"rows", row, sections[row]>> \in OfOneInsert(c)'
    OBVIOUS
  <2>1. /\ row \in Calls /\ at[row] # "new" /\ call[row].key = key
        /\ sections[row] \in {<<>>, call[row].content} /\ sections[row] \in Contents \cup {<<>>}
    BY <1>2 DEF DocumentsInv, RowInv, InsertInv
  <2>2. at'[row] # "new" /\ call' = call
    BY <1>2, <2>1 DEF OnlyCall
  <2>3. ASSUME NEW d \in Calls, NEW shown \in Contents \cup {<<>>}, at'[d] # "new",
               call'[d].key = call'[c].key, shown \in {<<>>, call'[d].content}
        PROVE  <<"rows", d, shown>> \in OfOneInsert(c)'
    <3>. DEFINE r == [of |-> d, shown |-> shown]
    <3>1. /\ r \in [of : Calls, shown : Contents \cup {<<>>}] /\ r.of = d /\ r.shown = shown
      OBVIOUS
    <3>. HIDE DEF r
    <3>. QED
      BY ONLY <2>3, <3>1 DEF OfOneInsert
  <2>. QED
    BY <2>1, <2>2, <2>3
<1>4. InsertInv(c)'
  <2>1. InsertInv(c)
    BY DEF DocumentsInv
  <2>. QED
    BY ONLY <1>1, <1>2, <2>1 DEF InsertInv, Insert, Rows
<1>5. ReadInv(c)'
  BY <1>2, <1>3 DEF ReadInv
<1>. QED
  BY <1>1, <1>2, <1>4, <1>5, QuietStep

LEMMA NextDocumentsInv == CallInv /\ DocumentsInv /\ [RestNext]_restVars => DocumentsInv'
<1>. SUFFICES ASSUME CallInv, DocumentsInv, [RestNext]_restVars PROVE DocumentsInv'
  OBVIOUS
<1>1. ASSUME NEW c \in Calls, Start(c) \/ Request(c) \/ Refuse(c) \/ Receive(c) \/ GiveUp(c)
      PROVE  DocumentsInv'
  BY <1>1, StartDocuments, ReceiveDocuments, GiveUpDocuments, InsertDocuments, SectionsDocuments,
     DeleteDocuments, SelectDocuments, OtherDocuments
<1>2. CASE UNCHANGED <<tables, at, call, served, reply>>
  BY <1>2 DEF tables, DocumentsInv, RowInv, InsertInv, ReadInv, OfOneInsert, Insert, ReadsDocument, Rows
<1>. QED
  BY <1>1, <1>2, RestCases

LEMMA WholeOrReported == DocumentsInv => HalvesAreReported
<1>. SUFFICES ASSUME DocumentsInv PROVE HalvesAreReported
  OBVIOUS
<1>1. TrueMeansWhole
  <2>. SUFFICES ASSUME NEW k \in Keys, NEW d \in Calls, documents[k] = d, reply[d] = <<"true">>
                PROVE  sections[d] = call[d].content
    BY DEF TrueMeansWhole, IsWhole
  <2>1. Insert(d) /\ call[d].key = k /\ InsertInv(d)
    BY Distinct DEF DocumentsInv, RowInv
  <2>. QED
    BY <2>1 DEF InsertInv
<1>2. ASSUME NEW c \in Calls, ReadsDocument(c), reply[c] # Nothing, Len(reply[c]) = 3
      PROVE  LET d == reply[c][2] IN call[d].key = call[c].key /\ reply[c][3] \in {<<>>, call[d].content}
  <2>1. reply[c] # <<"exception">> /\ reply[c] # <<"false">>
    BY ONLY <1>2
  <2>2. reply[c] \in {NoRows, Failed} \cup OfOneInsert(c)
    BY <1>2, <2>1 DEF DocumentsInv, ReadInv
  <2>3. reply[c] \in OfOneInsert(c)
    BY ONLY <1>2, <2>2 DEF NoRows, Failed
  <2>4. PICK r \in [of : Calls, shown : Contents \cup {<<>>}] :
          /\ call[r.of].key = call[c].key /\ r.shown \in {<<>>, call[r.of].content}
          /\ reply[c] = <<"rows", r.of, r.shown>>
    BY ONLY <2>3 DEF OfOneInsert
  <2>5. reply[c][2] = r.of /\ reply[c][3] = r.shown
    BY ONLY <2>4
  <2>. QED
    BY ONLY <2>4, <2>5
<1>. QED
  BY ONLY <1>1, <1>2 DEF HalvesAreReported, AllSectionsOrNone, ReadsDocument

LEMMA DocumentsInvariance == RestSpec => [](CallInv /\ DocumentsInv)
<1>1. RestInit => CallInv /\ DocumentsInv
  BY InitCallInv, InitDocumentsInv
<1>2. CallInv /\ DocumentsInv /\ [RestNext]_restVars => (CallInv /\ DocumentsInv)'
  BY NextCallInv, NextDocumentsInv
<1>. QED
  BY <1>1, <1>2, PTL DEF RestSpec

\* insertDocument returns true only for a document that has all its sections,
\* and selectDocumentById returns the sections of one insert, all of them or
\* none, whatever calls insert and delete the same file at the same time.
THEOREM HalvesReported == RestSpec => []HalvesAreReported
  BY DocumentsInvariance, WholeOrReported, PTL

-----------------------------------------------------------------------------
\* OAuth states.  A state has been consumed for every call that was told so,
\* and for one call alone.
Consume(c) == call[c].method = "consumeOAuthState"
Accepted(c) == served[c] \notin {NoRows, Failed}
ConsumeInv(c) ==
  /\ Consume(c) /\ Accepted(c) => call[c].now = 0 /\ call[c].key \in Keys /\ states[call[c].key] = "consumed"
  /\ Consume(c) /\ reply[c] = <<"true">> => Accepted(c)
OneAccepted(c, d) ==
  Consume(c) /\ Accepted(c) /\ Consume(d) /\ Accepted(d) /\ call[c].key = call[d].key => c = d
StatesInv ==
  /\ states \in [Keys -> {"none", "unused", "consumed"}]
  /\ \A c \in Calls : ConsumeInv(c)
  /\ \A c, d \in Calls : OneAccepted(c, d)

LEMMA InitStatesInv == RestInit => StatesInv
<1>. SUFFICES ASSUME RestInit PROVE StatesInv
  OBVIOUS
<1>1. \A c \in Calls : ~Accepted(c) /\ reply[c] # <<"true">>
  BY Distinct DEF RestInit, Accepted
<1>2. states \in [Keys -> {"none", "unused", "consumed"}]
  BY DEF RestInit
<1>. QED
  BY ONLY <1>1, <1>2 DEF StatesInv, ConsumeInv, OneAccepted

\* The only request that writes a state, and the only one of its method that
\* PostgREST answers otherwise than with an error.
LEMMA OtherStates ==
  ASSUME NEW c \in Calls, Request(c) \/ Refuse(c), ~consumeOAuthState(c)
  PROVE  UNCHANGED states /\ \E answer : CarryOut(c, answer) /\ (Consume(c) => answer = Failed)
<1>1. CASE Refuse(c)
  BY <1>1 DEF Refuse, tables
<1>2. CASE insertDocument(c) \/ insertSections(c) \/ selectDocumentById(c) \/ deleteDocument(c)
  BY <1>2 DEF insertDocument, insertSections, selectDocumentById, deleteDocument, Arrives, Consume, tables
<1>3. CASE insertOAuthState(c) \/ selectAuthUser(c) \/ insertAuthUser(c) \/ updateAuthUserLogin(c)
  BY <1>3 DEF insertOAuthState, selectAuthUser, insertAuthUser, updateAuthUserLogin, Arrives, Consume, tables
<1>4. CASE \/ upsertGoogleOAuthTokens(c) \/ selectGoogleOAuthTokens(c) \/ insertAppSession(c)
           \/ selectActiveAppSession(c) \/ revokeAppSession(c) \/ updateAppSessionLastSeen(c)
  BY <1>4 DEF upsertGoogleOAuthTokens, selectGoogleOAuthTokens, insertAppSession, selectActiveAppSession,
              revokeAppSession, updateAppSessionLastSeen, Arrives, Consume, tables
<1>. QED
  BY <1>1, <1>2, <1>3, <1>4 DEF Request

\* A step of one call that writes no state and accepts none.
LEMMA QuietStates ==
  ASSUME StatesInv, NEW c \in Calls, OnlyCall(c), UNCHANGED states, ConsumeInv(c)',
         (Consume(c) /\ Accepted(c))' => at[c] # "new" /\ Accepted(c)
  PROVE  StatesInv'
<1>1. ASSUME NEW d \in Calls, d # c PROVE Consume(d)' = Consume(d) /\ Accepted(d)' = Accepted(d)
  BY <1>1 DEF OnlyCall, Consume, Accepted
<1>2. ASSUME NEW d \in Calls, d # c PROVE ConsumeInv(d)'
  <2>1. ConsumeInv(d) /\ call'[d] = call[d] /\ reply'[d] = reply[d]
    BY <1>2 DEF StatesInv, OnlyCall
  <2>. QED
    BY ONLY <1>1, <1>2, <2>1, UNCHANGED states DEF ConsumeInv
<1>3. ASSUME NEW d \in Calls, NEW e \in Calls PROVE OneAccepted(d, e)'
  <2>1. \A f \in Calls : (Consume(f) /\ Accepted(f))' => Consume(f) /\ Accepted(f) /\ call'[f] = call[f]
    BY <1>1 DEF OnlyCall, Consume
  <2>. QED
    BY <2>1 DEF StatesInv, OneAccepted
<1>. QED
  BY <1>2, <1>3 DEF StatesInv

LEMMA ConsumeStates ==
  ASSUME CallInv, StatesInv, NEW c \in Calls, consumeOAuthState(c)
  PROVE  StatesInv'
<1>. DEFINE key == call[c].key
<1>1. /\ Consume(c) /\ served[c] = NoRows /\ CarryOut(c, IfFound(Usable(c), key))
      /\ states' = [states EXCEPT ![key] = IF Usable(c) THEN "consumed" ELSE states[key]]
  BY DEF consumeOAuthState, Arrives, CallInv, InOrder, Consume
<1>2. /\ OnlyCall(c) /\ UNCHANGED <<call, reply>> /\ served'[c] = IfFound(Usable(c), key)
      /\ key \in Keys /\ reply[c] # <<"true">>
  BY <1>1, Carried DEF Request
<1>3. CASE ~Usable(c)
  <2>1. served'[c] = NoRows /\ UNCHANGED states
    BY <1>1, <1>2, <1>3 DEF IfFound, StatesInv
  <2>2. ~Accepted(c)'
    BY <2>1 DEF Accepted, NoRows
  <2>3. ConsumeInv(c)'
    BY <1>2, <2>2 DEF ConsumeInv
  <2>. QED
    BY <1>2, <2>1, <2>2, <2>3, QuietStates
<1>4. CASE Usable(c)
  <2>1. states[key] = "unused" /\ call[c].now = 0
    BY <1>4 DEF Usable
  <2>2. /\ states'[key] = "consumed" /\ \A k \in Keys : k # key => states'[k] = states[k]
        /\ states' \in [Keys -> {"none", "unused", "consumed"}]
    BY <1>1, <1>2, <1>4 DEF StatesInv
  <2>3. \A d \in Calls : Consume(d) /\ Accepted(d) => call[d].key # key
    BY <2>1 DEF StatesInv, ConsumeInv
  <2>4. Accepted(c)' /\ Consume(c)' /\ call'[c] = call[c]
    BY <1>1, <1>2, <1>4, AnswersDiffer DEF IfFound, Accepted, Consume, NoRows, Failed
  <2>5. ASSUME NEW d \in Calls, d # c
        PROVE  Consume(d)' = Consume(d) /\ Accepted(d)' = Accepted(d) /\ call'[d] = call[d] /\ reply'[d] = reply[d]
    BY <1>2, <2>5 DEF OnlyCall, Consume, Accepted
  <2>6. ASSUME NEW d \in Calls PROVE ConsumeInv(d)'
    <3>1. CASE d = c
      BY <1>2, <2>1, <2>2, <2>4, <3>1 DEF ConsumeInv
    <3>2. CASE d # c
      <4>1. ConsumeInv(d)
        BY DEF StatesInv
      <4>. QED
        BY ONLY <2>2, <2>3, <2>5, <3>2, <4>1, d \in Calls DEF ConsumeInv
    <3>. QED
      BY <3>1, <3>2
  <2>7. ASSUME NEW d \in Calls, NEW e \in Calls PROVE OneAccepted(d, e)'
    <3>1. OneAccepted(d, e)
      BY DEF StatesInv
    <3>. QED
      BY ONLY <2>3, <2>4, <2>5, <3>1, c \in Calls, d \in Calls, e \in Calls DEF OneAccepted
  <2>. QED
    BY <2>2, <2>6, <2>7 DEF StatesInv
<1>. QED
  BY <1>3, <1>4

LEMMA NextStatesInv == CallInv /\ StatesInv /\ [RestNext]_restVars => StatesInv'
<1>. SUFFICES ASSUME CallInv, StatesInv, [RestNext]_restVars PROVE StatesInv'
  OBVIOUS
<1>1. ASSUME NEW c \in Calls, Start(c) PROVE StatesInv'
  <2>1. OnlyCall(c) /\ UNCHANGED <<states, served, reply>> /\ at[c] = "new"
    BY <1>1, StartAsks, StepMoves DEF tables
  <2>2. ~Accepted(c)' /\ reply'[c] # <<"true">>
    BY <2>1, Distinct DEF CallInv, InOrder, Accepted, NoRows
  <2>3. ConsumeInv(c)'
    BY <2>2 DEF ConsumeInv
  <2>. QED
    BY <2>1, <2>2, <2>3, QuietStates
<1>2. ASSUME NEW c \in Calls, Request(c) \/ Refuse(c) PROVE StatesInv'
  <2>1. CASE consumeOAuthState(c)
    BY <2>1, ConsumeStates
  <2>2. CASE ~consumeOAuthState(c)
    <3>1. PICK answer : UNCHANGED states /\ CarryOut(c, answer) /\ (Consume(c) => answer = Failed)
      BY <1>2, <2>2, OtherStates
    <3>2. OnlyCall(c) /\ UNCHANGED <<call, reply>> /\ served'[c] = answer /\ reply[c] # <<"true">>
      BY <1>2, <3>1, Carried
    <3>3. ~(Consume(c) /\ Accepted(c))'
      BY <3>1, <3>2 DEF Consume, Accepted, Failed
    <3>4. ConsumeInv(c)'
      BY <3>2, <3>3 DEF ConsumeInv
    <3>. QED
      BY <3>1, <3>2, <3>3, <3>4, QuietStates
  <2>. QED
    BY <2>1, <2>2
<1>3. ASSUME NEW c \in Calls, Receive(c) \/ GiveUp(c) PROVE StatesInv'
  <2>1. /\ OnlyCall(c) /\ UNCHANGED <<states, served, call>> /\ at[c] # "new"
        /\ reply'[c] \in {Nothing, <<"exception">>} \/ reply'[c] = Returned(c)
    BY <1>3, ReceiveMoves, GiveUpMoves, StepMoves DEF tables
  <2>2. Consume(c)' = Consume(c) /\ Accepted(c)' = Accepted(c)
    BY <2>1 DEF Consume, Accepted
  <2>3. Consume(c) /\ reply'[c] = <<"true">> => Accepted(c)
    BY <2>1, Distinct DEF Consume, Accepted, Returned, NeedsRows, Reads
  <2>4. ConsumeInv(c)'
    BY <2>1, <2>2, <2>3 DEF StatesInv, ConsumeInv
  <2>. QED
    BY <2>1, <2>2, <2>4, QuietStates
<1>4. CASE UNCHANGED <<tables, at, call, served, reply>>
  BY <1>4 DEF tables, StatesInv, ConsumeInv, OneAccepted, Consume, Accepted
<1>. QED
  BY <1>1, <1>2, <1>3, <1>4, RestCases

-----------------------------------------------------------------------------
\* Sessions.  Made: the request of the call was carried out and the call has
\* been told, or will be unless it gives up.  Known: the session existed before
\* the call began.  Over: it was revoked before the call began.
InsertsSession(c) == call[c].method = "insertAppSession"
Revokes(c) == call[c].method = "revokeAppSession"
Selects(c) == call[c].method = "selectActiveAppSession"
Made(c) == reply[c] = <<"true">> \/ (at[c] = "answer" /\ served[c] # Failed)
Known(d) == \E c \in call[d].before : InsertsSession(c) /\ call[c].key = call[d].key
Over(e) == \E d \in call[e].before : Revokes(d) /\ call[d].key = call[e].key /\ Known(d)
NotFound == {Nothing, NoRows, <<"false">>, <<"exception">>}
HashInv(c) ==
  /\ InsertsSession(c) /\ Made(c) => sessions[call[c].key] # "none"
  /\ Revokes(c) /\ Made(c) /\ Known(c) => sessions[call[c].key] = "revoked"
  /\ Selects(c) /\ Over(c) => served[c] \in {NoRows, Failed} /\ reply[c] \in NotFound
SessionsInv ==
  /\ sessions \in [Keys -> {"none", "active", "revoked"}]
  /\ \A c \in Calls : HashInv(c)

LEMMA InitSessionsInv == RestInit => SessionsInv
<1>. SUFFICES ASSUME RestInit PROVE SessionsInv
  OBVIOUS
<1>1. \A c \in Calls : ~InsertsSession(c) /\ ~Revokes(c) /\ ~Selects(c)
  BY Distinct DEF RestInit, NoCall, InsertsSession, Revokes, Selects, Writes, Reads
<1>2. sessions \in [Keys -> {"none", "active", "revoked"}]
  BY DEF RestInit
<1>. QED
  BY ONLY <1>1, <1>2 DEF SessionsInv, HashInv

LEMMA OtherSessions ==
  ASSUME NEW c \in Calls, Request(c) \/ Refuse(c),
         ~insertAppSession(c), ~revokeAppSession(c), ~selectActiveAppSession(c)
  PROVE  /\ UNCHANGED sessions
         /\ \E answer : CarryOut(c, answer) /\ (InsertsSession(c) \/ Revokes(c) \/ Selects(c) => answer = Failed)
<1>. USE DEF InsertsSession, Revokes, Selects
<1>1. CASE Refuse(c)
  BY <1>1 DEF Refuse, tables
<1>2. CASE insertDocument(c) \/ insertSections(c) \/ selectDocumentById(c) \/ deleteDocument(c)
  BY <1>2 DEF insertDocument, insertSections, selectDocumentById, deleteDocument, Arrives, tables
<1>3. CASE insertOAuthState(c) \/ consumeOAuthState(c) \/ selectAuthUser(c) \/ insertAuthUser(c)
  BY <1>3 DEF insertOAuthState, consumeOAuthState, selectAuthUser, insertAuthUser, Arrives, tables
<1>4. CASE \/ updateAuthUserLogin(c) \/ upsertGoogleOAuthTokens(c) \/ selectGoogleOAuthTokens(c)
           \/ updateAppSessionLastSeen(c)
  BY <1>4 DEF updateAuthUserLogin, upsertGoogleOAuthTokens, selectGoogleOAuthTokens,
              updateAppSessionLastSeen, Arrives, tables
<1>. QED
  BY <1>1, <1>2, <1>3, <1>4 DEF Request

\* What a call remembers of the calls before it does not change: these have
\* returned true.
LEMMA MemoryStays ==
  ASSUME CallInv, NEW c \in Calls, OnlyCall(c), NEW d \in Calls, call'[d] = call[d]
  PROVE  /\ InsertsSession(d)' = InsertsSession(d) /\ Revokes(d)' = Revokes(d) /\ Selects(d)' = Selects(d)
         /\ Known(d)' = Known(d) /\ Over(d)' = Over(d)
<1>1. \A e \in Calls : \A f \in call[e].before : f \in Calls /\ call'[f] = call[f]
  <2>. TAKE e \in Calls
  <2>. TAKE f \in call[e].before
  <2>1. f \in Calls
    BY DEF CallInv, CallType
  <2>2. at[f] # "new"
    BY <2>1, Distinct DEF CallInv, BeforeIsTrue, InOrder
  <2>. QED
    BY <2>1, <2>2 DEF OnlyCall
<1>2. \A e \in Calls : call'[e] = call[e] => Known(e)' = Known(e)
  BY ONLY <1>1 DEF Known, InsertsSession
<1>3. Over(d)' = Over(d)
  BY ONLY <1>1, <1>2, d \in Calls, call'[d] = call[d] DEF Over, Revokes
<1>. QED
  BY ONLY <1>2, <1>3, d \in Calls, call'[d] = call[d] DEF InsertsSession, Revokes, Selects

\* A session that was inserted and revoked does not become active again.
OnlyOnward ==
  \A k \in Keys : /\ sessions[k] # "none" => sessions'[k] # "none"
                  /\ sessions[k] = "revoked" => sessions'[k] = "revoked"

LEMMA StepSessions ==
  ASSUME CallInv, SessionsInv, NEW c \in Calls, OnlyCall(c), OnlyOnward,
         sessions' \in [Keys -> {"none", "active", "revoked"}], HashInv(c)'
  PROVE  SessionsInv'
<1>1. ASSUME NEW d \in Calls, d # c PROVE HashInv(d)'
  <2>1. /\ at'[d] = at[d] /\ call'[d] = call[d] /\ served'[d] = served[d] /\ reply'[d] = reply[d]
    BY <1>1 DEF OnlyCall
  <2>2. /\ InsertsSession(d)' = InsertsSession(d) /\ Revokes(d)' = Revokes(d) /\ Selects(d)' = Selects(d)
        /\ Known(d)' = Known(d) /\ Over(d)' = Over(d)
    BY <2>1, MemoryStays
  <2>3. Made(d)' = Made(d)
    BY ONLY <2>1 DEF Made
  <2>4. HashInv(d)
    BY DEF SessionsInv
  <2>5. InsertsSession(d) \/ Revokes(d) => call[d].key \in Keys
    BY Distinct DEF CallInv, InOrder, InsertsSession, Revokes, Writes
  <2>. QED
    BY ONLY <2>1, <2>2, <2>3, <2>4, <2>5, OnlyOnward DEF OnlyOnward, HashInv, NotFound, NoRows, Failed
<1>. QED
  BY <1>1 DEF SessionsInv

LEMMA InsertSessions ==
  ASSUME CallInv, SessionsInv, NEW c \in Calls, insertAppSession(c)
  PROVE  SessionsInv'
<1>. DEFINE key == call[c].key
<1>1. /\ InsertsSession(c) /\ ~Revokes(c) /\ ~Selects(c)
      /\ \/ CarryOut(c, NoRows) /\ sessions[key] = "none" /\ sessions' = [sessions EXCEPT ![key] = "active"]
         \/ CarryOut(c, Failed) /\ UNCHANGED sessions
  BY DEF insertAppSession, Arrives, InsertsSession, Revokes, Selects
<1>2. PICK answer \in {NoRows, Failed} : CarryOut(c, answer)
  BY <1>1
<1>3. /\ OnlyCall(c) /\ UNCHANGED <<call, reply>> /\ served'[c] = answer /\ key \in Keys
      /\ reply[c] # <<"true">>
  BY <1>2, Carried DEF Request
<1>4. OnlyOnward /\ sessions' \in [Keys -> {"none", "active", "revoked"}]
  BY <1>1, <1>3 DEF OnlyOnward, SessionsInv
<1>5. sessions'[key] # "none" \/ served'[c] = Failed
  BY <1>1, <1>3, Carried DEF Request, SessionsInv
<1>6. HashInv(c)'
  BY ONLY <1>1, <1>3, <1>5 DEF HashInv, Made, InsertsSession, Revokes, Selects
<1>. QED
  BY <1>3, <1>4, <1>6, StepSessions

LEMMA RevokeSessions ==
  ASSUME CallInv, SessionsInv, NEW c \in Calls, revokeAppSession(c)
  PROVE  SessionsInv'
<1>. DEFINE key == call[c].key
<1>1. /\ ~InsertsSession(c) /\ Revokes(c) /\ ~Selects(c) /\ CarryOut(c, NoRows)
      /\ sessions' = [sessions EXCEPT ![key] = IF @ = "none" THEN "none" ELSE "revoked"]
  BY DEF revokeAppSession, Arrives, InsertsSession, Revokes, Selects
<1>3. OnlyCall(c) /\ UNCHANGED <<call, reply>> /\ key \in Keys
  BY <1>1, Carried DEF Request
<1>4. OnlyOnward /\ sessions' \in [Keys -> {"none", "active", "revoked"}]
  BY <1>1, <1>3 DEF OnlyOnward, SessionsInv
<1>5. Known(c) => sessions'[key] = "revoked"
  <2>. SUFFICES ASSUME Known(c) PROVE sessions'[key] = "revoked"
    OBVIOUS
  <2>1. PICK d \in call[c].before : InsertsSession(d) /\ call[d].key = key
    BY DEF Known
  <2>2. d \in Calls /\ Made(d)
    BY <2>1 DEF CallInv, CallType, BeforeIsTrue, Made
  <2>3. sessions[key] # "none"
    BY <2>1, <2>2 DEF SessionsInv, HashInv
  <2>. QED
    BY <1>1, <1>3, <2>3 DEF SessionsInv
<1>6. HashInv(c)'
  <2>1. Known(c)' = Known(c)
    BY <1>3, MemoryStays
  <2>. QED
    BY ONLY <1>1, <1>3, <1>5, <2>1 DEF HashInv, InsertsSession, Revokes, Selects
<1>. QED
  BY <1>3, <1>4, <1>6, StepSessions

\* After a revocation that was answered the row is revoked, or was never there.
LEMMA OverIsRevoked ==
  ASSUME CallInv, SessionsInv, NEW c \in Calls, Over(c)
  PROVE  sessions[call[c].key] = "revoked"
<1>1. PICK d \in call[c].before : Revokes(d) /\ call[d].key = call[c].key /\ Known(d)
  BY DEF Over
<1>2. d \in Calls /\ Made(d)
  BY <1>1 DEF CallInv, CallType, BeforeIsTrue, Made
<1>. QED
  BY <1>1, <1>2 DEF SessionsInv, HashInv

LEMMA SelectSessions ==
  ASSUME CallInv, SessionsInv, NEW c \in Calls, selectActiveAppSession(c)
  PROVE  SessionsInv'
<1>1. /\ ~InsertsSession(c) /\ ~Revokes(c) /\ Selects(c) /\ UNCHANGED sessions
      /\ CarryOut(c, IfFound(Active(c), call[c].key))
  BY DEF selectActiveAppSession, Arrives, InsertsSession, Revokes, Selects, tables
<1>3. /\ OnlyCall(c) /\ UNCHANGED <<call, reply>> /\ served'[c] = IfFound(Active(c), call[c].key)
      /\ reply[c] \in {Nothing, <<"exception">>}
  BY <1>1, Carried DEF Request
<1>4. OnlyOnward /\ sessions' \in [Keys -> {"none", "active", "revoked"}]
  BY <1>1 DEF OnlyOnward, SessionsInv
<1>5. Over(c) => served'[c] = NoRows
  BY <1>3, OverIsRevoked DEF Active, IfFound
<1>6. HashInv(c)'
  <2>1. Over(c)' = Over(c)
    BY <1>3, MemoryStays
  <2>. QED
    BY ONLY <1>1, <1>3, <1>5, <2>1 DEF HashInv, InsertsSession, Revokes, Selects, NotFound
<1>. QED
  BY <1>3, <1>4, <1>6, StepSessions

LEMMA NextSessionsInv == CallInv /\ SessionsInv /\ [RestNext]_restVars => SessionsInv'
<1>. SUFFICES ASSUME CallInv, SessionsInv, [RestNext]_restVars PROVE SessionsInv'
  OBVIOUS
<1>0. UNCHANGED sessions => OnlyOnward /\ sessions' \in [Keys -> {"none", "active", "revoked"}]
  BY DEF OnlyOnward, SessionsInv
<1>1. ASSUME NEW c \in Calls, Start(c) PROVE SessionsInv'
  <2>1. OnlyCall(c) /\ UNCHANGED <<sessions, served, reply>> /\ at[c] = "new" /\ at'[c] = "request"
    BY <1>1, StartAsks, StepMoves DEF tables
  <2>2. ~Made(c)' /\ served'[c] = NoRows /\ reply'[c] = Nothing
    BY <2>1, Distinct DEF CallInv, InOrder, Made
  <2>3. HashInv(c)'
    BY <2>2 DEF HashInv, NotFound
  <2>. QED
    BY <1>0, <2>1, <2>3, StepSessions
<1>2. ASSUME NEW c \in Calls, Request(c) \/ Refuse(c), ~insertAppSession(c), ~revokeAppSession(c),
             ~selectActiveAppSession(c)
      PROVE  SessionsInv'
  <2>1. PICK answer : /\ UNCHANGED sessions /\ CarryOut(c, answer)
                      /\ (InsertsSession(c) \/ Revokes(c) \/ Selects(c) => answer = Failed)
    BY <1>2, OtherSessions
  <2>2. /\ OnlyCall(c) /\ UNCHANGED <<call, reply>> /\ served'[c] = answer
        /\ reply[c] \in {Nothing, <<"exception">>} /\ reply[c] # <<"true">>
    BY <1>2, <2>1, Carried
  <2>3. HashInv(c)'
    BY ONLY <2>1, <2>2 DEF HashInv, Made, InsertsSession, Revokes, Selects, NotFound
  <2>. QED
    BY <1>0, <2>1, <2>2, <2>3, StepSessions
<1>3. ASSUME NEW c \in Calls, Receive(c) \/ GiveUp(c) PROVE SessionsInv'
  <2>1. /\ OnlyCall(c) /\ UNCHANGED <<sessions, served, call>> /\ at'[c] # "answer"
        /\ \/ reply'[c] \in {Nothing, <<"exception">>}
           \/ at[c] = "answer" /\ reply'[c] = Returned(c)
    BY <1>3, ReceiveMoves, GiveUpMoves, StepMoves DEF tables
  <2>2. Made(c)' => Made(c)
    BY <2>1, Distinct DEF Made, Returned
  <2>3. Selects(c) /\ served[c] \in {NoRows, Failed} => reply'[c] \in NotFound
    <3>1. Selects(c) => Returned(c) = IF served[c] = Failed THEN <<"false">> ELSE served[c]
      BY DEF Selects, Returned, Reads
    <3>. QED
      BY ONLY <2>1, <3>1 DEF NotFound
  <2>4. /\ HashInv(c)
        /\ InsertsSession(c)' = InsertsSession(c) /\ Revokes(c)' = Revokes(c) /\ Selects(c)' = Selects(c)
        /\ Known(c)' = Known(c) /\ Over(c)' = Over(c)
    BY <2>1, MemoryStays DEF SessionsInv
  <2>5. HashInv(c)'
    BY ONLY <2>1, <2>2, <2>3, <2>4 DEF HashInv, NoRows, Failed, NotFound
  <2>. QED
    BY <1>0, <2>1, <2>5, StepSessions
<1>4. CASE UNCHANGED <<tables, at, call, served, reply>>
  BY <1>4 DEF tables, SessionsInv, HashInv, InsertsSession, Revokes, Selects, Made, Known, Over, NotFound
<1>. QED
  BY <1>1, <1>2, <1>3, <1>4, InsertSessions, RevokeSessions, SelectSessions, RestCases

-----------------------------------------------------------------------------
TokensType == tokens \in [Keys -> [access : Calls \cup {Nothing}, refresh : Calls \cup {Nothing}]]

\* Only upsertGoogleOAuthTokens writes the tokens.
LEMMA OtherTokens ==
  ASSUME [RestNext]_restVars, \A c \in Calls : ~upsertGoogleOAuthTokens(c)
  PROVE  UNCHANGED tokens
<1>1. ASSUME NEW c \in Calls, Request(c) PROVE UNCHANGED tokens
  <2>1. CASE \/ insertDocument(c) \/ insertSections(c) \/ selectDocumentById(c) \/ deleteDocument(c)
             \/ insertOAuthState(c) \/ consumeOAuthState(c)
    BY <2>1 DEF insertDocument, insertSections, selectDocumentById, deleteDocument, insertOAuthState,
                consumeOAuthState, tables
  <2>2. CASE \/ selectAuthUser(c) \/ insertAuthUser(c) \/ updateAuthUserLogin(c) \/ selectGoogleOAuthTokens(c)
    BY <2>2 DEF selectAuthUser, insertAuthUser, updateAuthUserLogin, selectGoogleOAuthTokens, tables
  <2>3. CASE \/ insertAppSession(c) \/ selectActiveAppSession(c) \/ revokeAppSession(c)
             \/ updateAppSessionLastSeen(c)
    BY <2>3 DEF insertAppSession, selectActiveAppSession, revokeAppSession, updateAppSessionLastSeen, tables
  <2>. QED
    BY <1>1, <2>1, <2>2, <2>3 DEF Request
<1>2. ASSUME NEW c \in Calls, Start(c) \/ Refuse(c) \/ Receive(c) \/ GiveUp(c) PROVE UNCHANGED tokens
  BY <1>2 DEF Start, BeginCall, Refuse, Receive, GiveUp, tables
<1>. QED
  BY <1>1, <1>2, RestCases DEF tables

LEMMA NextTokens == TokensType /\ CallInv /\ [RestNext]_restVars => TokensType' /\ RefreshTokenIsKept
<1>. SUFFICES ASSUME TokensType, CallInv, [RestNext]_restVars PROVE TokensType' /\ RefreshTokenIsKept
  OBVIOUS
<1>1. CASE \A c \in Calls : ~upsertGoogleOAuthTokens(c)
  BY <1>1, OtherTokens DEF TokensType, RefreshTokenIsKept
<1>2. ASSUME NEW c \in Calls, upsertGoogleOAuthTokens(c) PROVE TokensType' /\ RefreshTokenIsKept
  <2>. DEFINE key == call[c].key
              row == [access |-> c, refresh |-> RefreshToken(c)]
  <2>1. tokens' = [tokens EXCEPT ![key] = row] /\ \E answer : CarryOut(c, answer)
    BY <1>2 DEF upsertGoogleOAuthTokens
  <2>2. key \in Keys
    BY <1>2, <2>1, Carried DEF Request
  <2>3. RefreshToken(c) \in Calls \cup {Nothing} /\ (tokens[key].refresh # Nothing => RefreshToken(c) # Nothing)
    BY <2>2, Distinct DEF RefreshToken, TokensType
  <2>4. TokensType'
    BY <2>1, <2>2, <2>3 DEF TokensType
  <2>5. \A k \in Keys : tokens'[k] = IF k = key THEN row ELSE tokens[k]
    BY <2>1, <2>2 DEF TokensType
  <2>6. RefreshTokenIsKept
    BY <2>3, <2>5 DEF RefreshTokenIsKept
  <2>. QED
    BY <2>4, <2>6
<1>. QED
  BY <1>1, <1>2

LEMMA AcceptedOnce == StatesInv => ConsumedOnce
<1>. SUFFICES ASSUME StatesInv PROVE ConsumedOnce
  OBVIOUS
<1>1. \A c \in Calls : ConsumeInv(c)
  BY DEF StatesInv
<1>2. \A c, d \in Calls : OneAccepted(c, d)
  BY DEF StatesInv
<1>. QED
  BY ONLY <1>1, <1>2 DEF ConsumedOnce, ConsumeInv, OneAccepted, Consume

LEMMA RevokedForGood == CallInv /\ SessionsInv => RevokedStaysRevoked
<1>. SUFFICES ASSUME CallInv, SessionsInv,
                     NEW c \in Calls, NEW d \in Calls, NEW e \in Calls,
                     InsertsSession(c), Revokes(d), Selects(e), call[c].key = call[d].key,
                     call[d].key = call[e].key, c \in call[d].before, d \in call[e].before
              PROVE  reply[e] \in {Nothing, <<>>, <<"false">>, <<"exception">>}
  BY DEF RevokedStaysRevoked, InsertsSession, Revokes, Selects
<1>1. Over(e)
  BY DEF Over, Known
<1>. QED
  BY <1>1 DEF SessionsInv, HashInv, NotFound, NoRows

LateInv == CallInv /\ StatesInv /\ SessionsInv /\ TokensType

\* Requests carried out after their caller gave up, or after later ones, undo
\* nothing: an OAuth state is accepted once, a revoked session is not found
\* again, and the refresh token of a user is never erased.
THEOREM LateRequestsAreHarmless == RestSpec => LateRequestsUndoNothing
<1>1. RestInit => LateInv
  BY InitCallInv, InitStatesInv, InitSessionsInv DEF RestInit, LateInv, TokensType, NoTokens
<1>2. LateInv /\ [RestNext]_restVars => LateInv'
  BY NextCallInv, NextStatesInv, NextSessionsInv, NextTokens DEF LateInv
<1>3. LateInv => ConsumedOnce /\ RevokedStaysRevoked
  BY AcceptedOnce, RevokedForGood DEF LateInv
<1>4. LateInv /\ [RestNext]_restVars => RefreshTokenIsKept
  BY NextTokens DEF LateInv
<1>. QED
  BY <1>1, <1>2, <1>3, <1>4, PTL DEF RestSpec, LateRequestsUndoNothing

-----------------------------------------------------------------------------
\* Types.  A user and the time of its login come into the table together, and
\* sections are in it only while the row of their document is.
UsersInv ==
  /\ users \in [Keys -> Calls \cup {Nothing}] /\ logins \in [Keys -> Calls \cup {Nothing}]
  /\ \A k \in Keys : (users[k] = Nothing) = (logins[k] = Nothing)
SectionsHaveRows == \A c \in Calls : sections[c] # <<>> => \E k \in Keys : documents[k] = c

\* Only two requests write the users, and three the documents and sections.
LEMMA OtherUsers ==
  ASSUME [RestNext]_restVars, \A c \in Calls : ~insertAuthUser(c) /\ ~updateAuthUserLogin(c)
  PROVE  UNCHANGED <<users, logins>>
<1>1. ASSUME NEW c \in Calls, Request(c) PROVE UNCHANGED <<users, logins>>
  <2>1. CASE \/ insertDocument(c) \/ insertSections(c) \/ selectDocumentById(c) \/ deleteDocument(c)
             \/ insertOAuthState(c) \/ consumeOAuthState(c)
    BY <2>1 DEF insertDocument, insertSections, selectDocumentById, deleteDocument, insertOAuthState,
                consumeOAuthState, tables
  <2>2. CASE \/ selectAuthUser(c) \/ upsertGoogleOAuthTokens(c) \/ selectGoogleOAuthTokens(c)
    BY <2>2 DEF selectAuthUser, upsertGoogleOAuthTokens, selectGoogleOAuthTokens, tables
  <2>3. CASE \/ insertAppSession(c) \/ selectActiveAppSession(c) \/ revokeAppSession(c)
             \/ updateAppSessionLastSeen(c)
    BY <2>3 DEF insertAppSession, selectActiveAppSession, revokeAppSession, updateAppSessionLastSeen, tables
  <2>. QED
    BY <1>1, <2>1, <2>2, <2>3 DEF Request
<1>2. ASSUME NEW c \in Calls, Start(c) \/ Refuse(c) \/ Receive(c) \/ GiveUp(c) PROVE UNCHANGED <<users, logins>>
  BY <1>2 DEF Start, BeginCall, Refuse, Receive, GiveUp, tables
<1>. QED
  BY <1>1, <1>2, RestCases DEF tables

LEMMA OtherSections ==
  ASSUME [RestNext]_restVars, \A c \in Calls : ~insertDocument(c) /\ ~insertSections(c) /\ ~deleteDocument(c)
  PROVE  UNCHANGED <<documents, sections>>
<1>1. ASSUME NEW c \in Calls, Request(c) PROVE UNCHANGED <<documents, sections>>
  <2>1. CASE selectDocumentById(c)
    BY <2>1 DEF selectDocumentById, tables
  <2>2. CASE ~selectDocumentById(c)
    BY <1>1, <2>2, OtherRequests
  <2>. QED
    BY <2>1, <2>2
<1>2. ASSUME NEW c \in Calls, Start(c) \/ Refuse(c) \/ Receive(c) \/ GiveUp(c) PROVE UNCHANGED <<documents, sections>>
  BY <1>2 DEF Start, BeginCall, Refuse, Receive, GiveUp, tables
<1>. QED
  BY <1>1, <1>2, RestCases DEF tables

LEMMA NextUsers == UsersInv /\ CallInv /\ [RestNext]_restVars => UsersInv'
<1>. SUFFICES ASSUME UsersInv, CallInv, [RestNext]_restVars PROVE UsersInv'
  OBVIOUS
<1>1. CASE \A c \in Calls : ~insertAuthUser(c) /\ ~updateAuthUserLogin(c)
  BY <1>1, OtherUsers DEF UsersInv
<1>2. ASSUME NEW c \in Calls, insertAuthUser(c) PROVE UsersInv'
  <2>1. call[c].key \in Keys
    BY <1>2, Carried DEF Request, insertAuthUser
  <2>2. c # Nothing
    BY Distinct
  <2>. QED
    BY <1>2, <2>1, <2>2 DEF insertAuthUser, UsersInv
<1>3. ASSUME NEW c \in Calls, updateAuthUserLogin(c) PROVE UsersInv'
  <2>1. call[c].key \in Keys
    BY <1>3, Carried DEF Request, updateAuthUserLogin
  <2>2. c # Nothing
    BY Distinct
  <2>. QED
    BY <1>3, <2>1, <2>2 DEF updateAuthUserLogin, LoginUpdated, UsersInv
<1>. QED
  BY <1>1, <1>2, <1>3

LEMMA NextSections == SectionsHaveRows /\ CallInv /\ DocumentsInv /\ [RestNext]_restVars => SectionsHaveRows'
<1>. SUFFICES ASSUME SectionsHaveRows, CallInv, DocumentsInv, [RestNext]_restVars,
                     NEW d \in Calls, sections'[d] # <<>>
              PROVE  \E k \in Keys : documents'[k] = d
  BY DEF SectionsHaveRows
<1>0. /\ documents \in [Keys -> Calls \cup {Nothing}] /\ sections \in [Calls -> Contents \cup {<<>>}]
      /\ d # Nothing
  BY Distinct DEF DocumentsInv
<1>1. CASE \A c \in Calls : ~insertDocument(c) /\ ~insertSections(c) /\ ~deleteDocument(c)
  BY <1>1, OtherSections DEF SectionsHaveRows
<1>2. ASSUME NEW c \in Calls, insertDocument(c) PROVE \E k \in Keys : documents'[k] = d
  <2>1. PICK k \in Keys : documents[k] = d
    BY <1>2 DEF insertDocument, SectionsHaveRows
  <2>2. documents'[k] = d
    BY <1>0, <1>2, <2>1 DEF insertDocument, Unique
  <2>. QED
    BY <2>2
<1>3. ASSUME NEW c \in Calls, insertSections(c) PROVE \E k \in Keys : documents'[k] = d
  <2>1. call[c].key \in Keys
    BY <1>3, Carried DEF Request, insertSections
  <2>2. documents' = documents /\ (sections[d] # <<>> \/ documents[call[c].key] = d)
    BY <1>0, <1>3 DEF insertSections
  <2>. QED
    BY <2>1, <2>2 DEF SectionsHaveRows
<1>4. ASSUME NEW c \in Calls, deleteDocument(c) PROVE \E k \in Keys : documents'[k] = d
  <2>1. sections[d] # <<>> /\ documents[call[c].key] # d
    BY <1>4 DEF deleteDocument, WithoutSections
  <2>2. PICK k \in Keys : documents[k] = d
    BY <2>1 DEF SectionsHaveRows
  <2>3. documents'[k] = d
    BY <1>0, <1>4, <2>1, <2>2 DEF deleteDocument
  <2>. QED
    BY <2>3
<1>. QED
  BY <1>1, <1>2, <1>3, <1>4

RestTypesInv ==
  CallInv /\ DocumentsInv /\ StatesInv /\ SessionsInv /\ TokensType /\ UsersInv /\ SectionsHaveRows

\* The tables hold what their columns may, a document is in the row of its
\* external_id, a user has a login, and sections belong to a document.
THEOREM RestTypeCorrect == RestSpec => []RestTypeOK
<1>1. RestInit => UsersInv /\ SectionsHaveRows /\ TokensType
  BY DEF RestInit, UsersInv, SectionsHaveRows, TokensType, NoTokens
<1>2. RestInit => RestTypesInv
  BY <1>1, InitCallInv, InitDocumentsInv, InitStatesInv, InitSessionsInv DEF RestTypesInv
<1>3. RestTypesInv /\ [RestNext]_restVars => RestTypesInv'
  BY NextCallInv, NextDocumentsInv, NextStatesInv, NextSessionsInv, NextTokens, NextUsers, NextSections
     DEF RestTypesInv
<1>4. RestTypesInv => RestTypeOK
  BY DEF RestTypesInv, RestTypeOK, CallInv, CallType, DocumentsInv, RowInv, StatesInv, SessionsInv, TokensType,
         UsersInv, SectionsHaveRows
<1>. QED
  BY <1>2, <1>3, <1>4, PTL DEF RestSpec
=============================================================================
