---------------------------- MODULE TransportProofs ---------------------------
(***************************************************************************)
(* Theorems about Transport: for any number of sends, any policies, names, *)
(* addresses and destinations.                                             *)
(***************************************************************************)
EXTENDS Transport, TLAPS

Form == [ip : Address, mapped : BOOLEAN]

Endpoint(url) == << url.scheme, url.host, EffectivePort(url) >>

Conn == [to : {"https", "http"} \X (Name \cup Address) \X Int, address : Form]

SendState ==
    [pc : {"new", "waiting", "connected", "done"}, url : URL \cup {NoURL},
     conn : Conn \cup {NoConn}]

DialState ==
    [pc : {"none", "resolved", "dialling", "ended"}, url : URL \cup {NoURL},
     answer : SUBSET Form, addresses : SUBSET Form, tried : SUBSET Form]

\* A request that is waiting or on a connection has passed the URL check, and
\* its dial, if there is one, is to its own destination.
SendOK(send, dial) ==
    /\ send.pc = "new" => dial.pc = "none"
    /\ send.pc \in {"waiting", "connected"} => send.url \in URL /\ ValidURL(send.url)
    /\ send.pc = "waiting" /\ dial.pc # "none" => dial.url = send.url
    /\ send.pc = "connected" =>
            /\ send.conn \in Conn
            /\ send.conn.to = Endpoint(send.url)
            /\ Permits(send.conn.address.ip)

\* A dial tries only addresses of its one lookup, and none before all of them
\* have been checked.
DialOK(dial) ==
    /\ dial.pc # "none" => dial.url \in URL
    /\ dial.addresses = Unmap(dial.answer)
    /\ dial.tried \subseteq dial.addresses
    /\ dial.pc = "dialling" \/ dial.tried # {} =>
            \A a \in dial.addresses : Permits(a.ip)

\* Connections that are kept were made under the same policy.
PoolOK(pool) == pool \subseteq Conn /\ \A conn \in pool : Permits(conn.address.ip)

\* The inductive invariant.
IInv ==
    /\ given \in Policies
    /\ sends \in [Sends -> SendState]
    /\ dials \in [Sends -> DialState]
    /\ \A s \in Sends : SendOK(sends[s], dials[s]) /\ DialOK(dials[s])
    /\ PoolOK(idle)

-----------------------------------------------------------------------------
(* The policy. *)

\* An unmapped address that the policy's check passes is one it permits.
LEMMA ValidIsPermitted ==
    ASSUME NEW a \in Form, a.mapped = FALSE, ValidAddress(a)
    PROVE  Permits(a.ip)
<1>1. a = [ip |-> a.ip, mapped |-> FALSE]
  BY DEF Form
<1>2. NetworkPolicy.cidrs = given.cidrs
  BY DEF NetworkPolicy, Normalized
<1>3. CASE a \in { [ip |-> ip, mapped |-> FALSE] : ip \in NetworkPolicy.cidrs }
  BY <1>1, <1>2, <1>3 DEF Permits
<1>4. CASE a \notin { [ip |-> ip, mapped |-> FALSE] : ip \in Reserved }
  BY <1>1, <1>4 DEF Permits
<1> QED
  BY <1>3, <1>4 DEF ValidAddress

\* Unmap keeps each address and gives it its plain form.
LEMMA Unmapped ==
    ASSUME NEW answer \in SUBSET Form
    PROVE  /\ Unmap(answer) \in SUBSET Form
           /\ \A a \in Unmap(answer) : a.mapped = FALSE
           /\ \A a \in answer : \E b \in Unmap(answer) : b.ip = a.ip
           /\ \A b \in Unmap(answer) : \E a \in answer : b.ip = a.ip
<1> DEFINE Plain(a) == [a EXCEPT !.mapped = FALSE]
<1>1. ASSUME NEW a \in Form
      PROVE  Plain(a) \in Form /\ Plain(a).mapped = FALSE /\ Plain(a).ip = a.ip
  BY DEF Form
<1>2. Unmap(answer) = { Plain(a) : a \in answer }
  BY DEF Unmap
<1> HIDE DEF Plain
<1> QED
  BY <1>1, <1>2

\* The URL check says what the policy given to NewSender says.
LEMMA ValidIsAllowed ==
    ASSUME given \in Policies, NEW url \in URL, ValidURL(url)
    PROVE  /\ url.scheme = "https" \/ given.plainHTTP
           /\ \/ given.anyPort
              \/ EffectivePort(url) \in given.ports
              \/ given.ports = {} /\ EffectivePort(url) = 443
<1>1. /\ NetworkPolicy.plainHTTP = given.plainHTTP
      /\ NetworkPolicy.anyPort = given.anyPort
      /\ ~given.anyPort => NetworkPolicy.ports =
            IF given.ports = {} THEN {443} ELSE given.ports
  BY TransportAssumption DEF NetworkPolicy, Normalized
<1>2. url.scheme = "https" \/ NetworkPolicy.plainHTTP
  BY SMT DEF ValidURL
<1>3. NetworkPolicy.anyPort \/ EffectivePort(url) \in NetworkPolicy.ports
  BY SMT DEF ValidURL
<1>4. url.scheme = "https" \/ given.plainHTTP
  BY <1>1, <1>2, Zenon
<1>5. given.anyPort \/ EffectivePort(url) \in NetworkPolicy.ports
  BY <1>1, <1>3, Zenon
<1>6. CASE given.anyPort
  BY <1>4, <1>6, Zenon
<1>7. CASE ~given.anyPort
  <2>1. NetworkPolicy.ports = IF given.ports = {} THEN {443} ELSE given.ports
    BY <1>1, <1>7, Zenon
  <2>2. EffectivePort(url) \in given.ports
        \/ (given.ports = {} /\ EffectivePort(url) = 443)
    BY <1>5, <1>7, <2>1, Zenon
  <2> QED
    BY <1>4, <2>2, Zenon
<1> QED
  BY <1>6, <1>7, Zenon

LEMMA EndpointType ==
    ASSUME NEW url \in URL
    PROVE  Endpoint(url) \in {"https", "http"} \X (Name \cup Address) \X Int
  BY TransportAssumption DEF Endpoint, EffectivePort

\* The check depends on the policy only, which never changes.
LEMMA SamePolicy ==
    ASSUME given' = given
    PROVE  /\ \A url : ValidURL(url)' <=> ValidURL(url)
           /\ \A ip : Permits(ip)' <=> Permits(ip)
  BY DEF ValidURL, NetworkPolicy, Permits

-----------------------------------------------------------------------------
(* Steps. *)

\* What every step of a send or of its dial amounts to.
LEMMA Local ==
    ASSUME IInv, NEW s \in Sends, given' = given,
           NEW send \in SendState, sends' = [sends EXCEPT ![s] = send],
           NEW dial \in DialState, dials' = [dials EXCEPT ![s] = dial],
           SendOK(send, dial), DialOK(dial), PoolOK(idle')
    PROVE  IInv'
<1>1. given' \in Policies
  BY DEF IInv
<1>2. sends' \in [Sends -> SendState] /\ dials' \in [Sends -> DialState]
  BY DEF IInv
<1>3. \A x, y : SendOK(x, y)' <=> SendOK(x, y)
  BY SamePolicy DEF SendOK
<1>4. \A y : DialOK(y)' <=> DialOK(y)
  BY SamePolicy DEF DialOK
<1>5. ASSUME NEW t \in Sends
      PROVE  SendOK(sends'[t], dials'[t]) /\ DialOK(dials'[t])
  <2>1. CASE t = s
    BY <2>1 DEF IInv
  <2>2. CASE t # s
    BY <2>2 DEF IInv
  <2> QED
    BY <2>1, <2>2
<1>6. PoolOK(idle)'
  BY SamePolicy DEF PoolOK
<1> QED
  BY <1>1, <1>2, <1>3, <1>4, <1>5, <1>6, Zenon DEF IInv

\* A step that leaves sends and dials alone.
LEMMA PoolStep ==
    ASSUME IInv, UNCHANGED << given, sends, dials >>, PoolOK(idle')
    PROVE  IInv'
<1>1. \A x, y : SendOK(x, y)' <=> SendOK(x, y)
  BY SamePolicy DEF SendOK
<1>2. \A y : DialOK(y)' <=> DialOK(y)
  BY SamePolicy DEF DialOK
<1>3. PoolOK(idle)'
  BY SamePolicy DEF PoolOK
<1> QED
  BY <1>1, <1>2, <1>3, Zenon DEF IInv

\* What the invariant says of one send and its dial.
LEMMA OfSend ==
    ASSUME IInv, NEW s \in Sends
    PROVE  /\ sends[s] \in SendState /\ dials[s] \in DialState
           /\ sends = [sends EXCEPT ![s] = sends[s]]
           /\ dials = [dials EXCEPT ![s] = dials[s]]
           /\ SendOK(sends[s], dials[s]) /\ DialOK(dials[s])
           /\ given \in Policies /\ PoolOK(idle)
  BY DEF IInv

\* A request ends: nothing is claimed of it any more.
LEMMA EndStep ==
    ASSUME IInv, NEW s \in Sends, End(s), UNCHANGED << given, dials >>,
           sends[s].pc # "new", PoolOK(idle')
    PROVE  IInv'
<1> DEFINE send == [sends[s] EXCEPT !.pc = "done"]
<1>1. sends' = [sends EXCEPT ![s] = send]
  BY OfSend DEF End, SendState
<1>2. send \in SendState /\ send.pc = "done"
  BY OfSend DEF SendState
<1> HIDE DEF send
<1>3. SendOK(send, dials[s])
  BY <1>2 DEF SendOK
<1> QED
  BY <1>1, <1>2, <1>3, OfSend, Local

LEMMA StartStep ==
    ASSUME IInv, NEW s \in Sends, Start(s)
    PROVE  IInv'
<1>1. PICK url \in URL :
         sends' = [sends EXCEPT ![s].url = url,
                                ![s].pc = IF ValidURL(url) THEN "waiting" ELSE "done"]
  BY DEF Start
<1> DEFINE pc   == IF ValidURL(url) THEN "waiting" ELSE "done"
           send == [sends[s] EXCEPT !.url = url, !.pc = pc]
<1>2. pc \in {"waiting", "done"} /\ (pc = "waiting" => ValidURL(url))
  BY Zenon
<1> HIDE DEF pc
<1>3. send \in SendState /\ send.url = url /\ send.pc = pc
  BY <1>2, OfSend DEF SendState
<1>4. sends' = [sends EXCEPT ![s] = send]
  <2>1. sends' = [sends EXCEPT ![s].url = url, ![s].pc = pc]
    BY <1>1 DEF pc
  <2> QED
    BY <2>1, OfSend DEF SendState
<1>5. dials[s].pc = "none"
  BY OfSend DEF SendOK, Start
<1> HIDE DEF send
<1>6. SendOK(send, dials[s])
  BY <1>2, <1>3, <1>5 DEF SendOK
<1>7. given' = given /\ dials' = dials /\ idle' = idle
  BY DEF Start
<1> QED
  BY <1>3, <1>4, <1>6, <1>7, OfSend, Local

\* A waiting request gets a connection to its destination.
LEMMA ConnectStep ==
    ASSUME IInv, NEW s \in Sends, sends[s].pc = "waiting",
           NEW conn \in Conn, conn.to = Endpoint(sends[s].url),
           Permits(conn.address.ip),
           sends' = [sends EXCEPT ![s].pc = "connected", ![s].conn = conn],
           NEW dial \in DialState, dials' = [dials EXCEPT ![s] = dial], DialOK(dial),
           given' = given, PoolOK(idle')
    PROVE  IInv'
<1> DEFINE send == [sends[s] EXCEPT !.pc = "connected", !.conn = conn]
<1>1. sends' = [sends EXCEPT ![s] = send]
  BY OfSend DEF SendState
<1>2. /\ send \in SendState
      /\ send.pc = "connected" /\ send.conn = conn /\ send.url = sends[s].url
  BY OfSend DEF SendState
<1> HIDE DEF send
<1>3. sends[s].url \in URL /\ ValidURL(sends[s].url)
  BY OfSend DEF SendOK
<1>4. SendOK(send, dial)
  BY <1>2, <1>3 DEF SendOK
<1> QED
  BY <1>1, <1>2, <1>4, Local

LEMMA TakeStep ==
    ASSUME IInv, NEW s \in Sends, Take(s)
    PROVE  IInv'
<1>1. PICK conn \in idle :
        /\ conn.to = << sends[s].url.scheme, sends[s].url.host,
                        EffectivePort(sends[s].url) >>
        /\ idle' \in {idle, idle \ {conn}}
        /\ sends' = [sends EXCEPT ![s].pc = "connected", ![s].conn = conn]
  BY DEF Take
<1>2. conn \in Conn /\ Permits(conn.address.ip) /\ PoolOK(idle')
  BY <1>1, OfSend DEF PoolOK
<1>3. sends[s].pc = "waiting" /\ given' = given /\ dials' = dials
  BY DEF Take
<1>4. conn.to = Endpoint(sends[s].url)
  BY <1>1 DEF Endpoint
<1> QED
  BY <1>1, <1>2, <1>3, <1>4, OfSend, ConnectStep

LEMMA RespondStep ==
    ASSUME IInv, NEW s \in Sends, Respond(s)
    PROVE  IInv'
<1>1. /\ sends[s].pc = "connected" /\ End(s) /\ given' = given /\ dials' = dials
      /\ idle' \in {idle, idle \cup {sends[s].conn}}
  BY DEF Respond
<1>2. sends[s].conn \in Conn /\ Permits(sends[s].conn.address.ip)
  BY <1>1, OfSend DEF SendOK
<1>3. PoolOK(idle')
  BY <1>1, <1>2, OfSend DEF PoolOK
<1> QED
  BY <1>1, <1>3, EndStep

\* A step of the dial that leaves its request alone.
LEMMA DialStep ==
    ASSUME IInv, NEW s \in Sends, given' = given, sends' = sends, PoolOK(idle'),
           NEW dial \in DialState, dials' = [dials EXCEPT ![s] = dial], DialOK(dial),
           dial.url = sends[s].url \/ (dials[s].pc # "none" /\ dial.url = dials[s].url),
           sends[s].pc # "new"
    PROVE  IInv'
<1>1. SendOK(sends[s], dial)
  BY OfSend DEF SendOK
<1> QED
  BY <1>1, OfSend, Local

LEMMA ResolveStep ==
    ASSUME IInv, NEW s \in Sends, Resolve(s)
    PROVE  IInv'
<1>1. /\ sends[s].pc = "waiting" /\ dials[s].pc = "none"
      /\ given' = given /\ sends' = sends /\ idle' = idle
  BY DEF Resolve
<1>2. sends[s].url \in URL
  BY <1>1, OfSend DEF SendOK
<1>3. CASE dials' = [dials EXCEPT ![s] = [NoDial EXCEPT !.pc = "ended", !.url = sends[s].url]]
  <2> DEFINE dial == [NoDial EXCEPT !.pc = "ended", !.url = sends[s].url]
  <2> DEFINE none == NoDial
  <2>1. none \in DialState /\ none.answer = {} /\ none.addresses = {} /\ none.tried = {}
    BY DEF NoDial, DialState
  <2> HIDE DEF none
  <2>2. [none EXCEPT !.pc = "ended", !.url = sends[s].url] \in DialState
    BY <1>2, <2>1 DEF DialState
  <2>3. /\ dial \in DialState /\ dial.url = sends[s].url
        /\ dial.answer = {} /\ dial.addresses = {} /\ dial.tried = {}
    BY <1>2, <2>1, <2>2 DEF DialState, none
  <2>4. DialOK(dial)
    BY <1>2, <2>3 DEF DialOK, Unmap
  <2> HIDE DEF dial
  <2> QED
    BY <1>1, <1>3, <2>3, <2>4, OfSend, DialStep DEF dial
<1>4. CASE \E answer \in Answers(sends[s].url.host) \ {{}} :
            dials' = [dials EXCEPT ![s] =
                [pc |-> "resolved", url |-> sends[s].url, answer |-> answer,
                 addresses |-> Unmap(answer), tried |-> {}]]
  <2>1. PICK answer \in Answers(sends[s].url.host) \ {{}} :
            dials' = [dials EXCEPT ![s] =
                [pc |-> "resolved", url |-> sends[s].url, answer |-> answer,
                 addresses |-> Unmap(answer), tried |-> {}]]
    BY <1>4
  <2>2. answer \in SUBSET Form
    BY DEF Answers, Form
  <2> DEFINE dial == [pc |-> "resolved", url |-> sends[s].url, answer |-> answer,
                      addresses |-> Unmap(answer), tried |-> {}]
  <2>3. dial \in DialState /\ dial.url = sends[s].url
    BY <1>2, <2>2, Unmapped DEF DialState
  <2>4. DialOK(dial)
    BY <1>2 DEF DialOK
  <2> QED
    BY <1>1, <2>1, <2>3, <2>4, OfSend, DialStep
<1> QED
  BY <1>3, <1>4 DEF Resolve

LEMMA CheckStep ==
    ASSUME IInv, NEW s \in Sends, Check(s)
    PROVE  IInv'
<1> DEFINE pc   == IF AllValid(dials[s].addresses) THEN "dialling" ELSE "ended"
           dial == [dials[s] EXCEPT !.pc = pc]
<1>1. pc \in {"dialling", "ended"} /\ (pc = "dialling" => AllValid(dials[s].addresses))
  BY Zenon
<1>2. /\ dials[s].pc = "resolved" /\ dials' = [dials EXCEPT ![s].pc = pc]
      /\ given' = given /\ sends' = sends /\ idle' = idle
  BY DEF Check
<1> HIDE DEF pc
<1>3. /\ dial \in DialState /\ dial.pc = pc /\ dial.url = dials[s].url
      /\ dial.answer = dials[s].answer /\ dial.addresses = dials[s].addresses
      /\ dial.tried = dials[s].tried
  BY <1>1, OfSend DEF DialState
<1>4. dials' = [dials EXCEPT ![s] = dial]
  BY <1>2, OfSend DEF DialState
<1> HIDE DEF dial
<1>5. pc = "dialling" => \A a \in dials[s].addresses : Permits(a.ip)
  <2>1. SUFFICES ASSUME pc = "dialling", NEW a \in dials[s].addresses
                 PROVE  Permits(a.ip)
    OBVIOUS
  <2>2. a \in Form /\ a.mapped = FALSE
    <3>1. dials[s].answer \in SUBSET Form /\ dials[s].addresses = Unmap(dials[s].answer)
      BY OfSend DEF DialState, DialOK
    <3> QED
      BY <3>1, Unmapped
  <2>3. ValidAddress(a)
    BY <1>1, <2>1 DEF AllValid
  <2> QED
    BY <2>2, <2>3, ValidIsPermitted
<1>6. DialOK(dial)
  BY <1>2, <1>3, <1>5, OfSend DEF DialOK
<1>7. sends[s].pc # "new"
  BY <1>2, OfSend DEF SendOK
<1> QED
  BY <1>2, <1>3, <1>4, <1>6, <1>7, OfSend, DialStep

LEMMA DialActionStep ==
    ASSUME IInv, NEW s \in Sends, Dial(s)
    PROVE  IInv'
<1>1. dials[s].pc = "dialling" /\ given' = given
  BY DEF Dial
<1> DEFINE url == dials[s].url
<1>2. PICK a \in dials[s].addresses \ dials[s].tried :
        LET tried == dials[s].tried \cup {a}
            conn  == [to |-> << url.scheme, url.host, EffectivePort(url) >>,
                      address |-> a] IN
        \/ /\ dials' = [dials EXCEPT ![s].tried = tried, ![s].pc = "ended"]
           /\ IF sends[s].pc = "waiting"
              THEN /\ sends' = [sends EXCEPT ![s].pc = "connected", ![s].conn = conn]
                   /\ idle' \in {idle, idle \cup {conn}}
              ELSE /\ idle' = idle \cup {conn}
                   /\ UNCHANGED sends
        \/ /\ dials' = [dials EXCEPT ![s].tried = tried,
                ![s].pc = IF tried = dials[s].addresses THEN "ended" ELSE "dialling"]
           /\ UNCHANGED << sends, idle >>
  BY DEF Dial
<1> DEFINE tried == dials[s].tried \cup {a}
           conn  == [to |-> Endpoint(url), address |-> a]
           D(pc) == [dials[s] EXCEPT !.tried = tried, !.pc = pc]
<1>3. /\ url \in URL /\ a \in Form /\ tried \in SUBSET Form
      /\ tried \subseteq dials[s].addresses
      /\ \A b \in dials[s].addresses : Permits(b.ip)
  BY <1>1, OfSend DEF DialOK, DialState
<1>4. conn \in Conn /\ conn.to = Endpoint(url) /\ Permits(conn.address.ip)
  BY <1>3, EndpointType DEF Conn
<1>5. conn = [to |-> << url.scheme, url.host, EffectivePort(url) >>, address |-> a]
  BY DEF Endpoint
<1>6. ASSUME NEW pc \in {"ended", "dialling"}
      PROVE  /\ D(pc) \in DialState /\ D(pc).url = url /\ DialOK(D(pc))
             /\ [dials EXCEPT ![s].tried = tried, ![s].pc = pc] =
                    [dials EXCEPT ![s] = D(pc)]
  <2> HIDE DEF tried
  <2>1. /\ D(pc) \in DialState /\ D(pc).url = url /\ D(pc).pc = pc
        /\ D(pc).answer = dials[s].answer /\ D(pc).addresses = dials[s].addresses
        /\ D(pc).tried = tried
    BY <1>3, OfSend DEF DialState
  <2>2. [dials EXCEPT ![s].tried = tried, ![s].pc = pc] = [dials EXCEPT ![s] = D(pc)]
    BY OfSend DEF DialState
  <2> HIDE DEF D
  <2>3. DialOK(D(pc))
    BY <1>1, <1>3, <2>1, OfSend DEF DialOK
  <2> QED
    BY <2>1, <2>2, <2>3
<1>7. PoolOK(idle) /\ PoolOK(idle \cup {conn})
  BY <1>4, OfSend DEF PoolOK
<1>8. sends[s].pc # "new"
  BY <1>1, OfSend DEF SendOK
<1> HIDE DEF tried, conn, D
<1>9. CASE /\ dials' = [dials EXCEPT ![s].tried = tried, ![s].pc = "ended"]
           /\ sends[s].pc = "waiting"
           /\ sends' = [sends EXCEPT ![s].pc = "connected", ![s].conn = conn]
           /\ idle' \in {idle, idle \cup {conn}}
  <2>1. conn.to = Endpoint(sends[s].url)
    BY <1>1, <1>4, <1>9, OfSend DEF SendOK
  <2>2. PoolOK(idle')
    BY <1>7, <1>9
  <2>3. /\ D("ended") \in DialState /\ DialOK(D("ended"))
        /\ dials' = [dials EXCEPT ![s] = D("ended")]
    BY <1>6, <1>9
  <2> QED
    BY <1>1, <1>4, <1>9, <2>1, <2>2, <2>3, ConnectStep
<1>10. CASE /\ dials' = [dials EXCEPT ![s].tried = tried, ![s].pc = "ended"]
            /\ idle' = idle \cup {conn} /\ sends' = sends
  <2>1. /\ D("ended") \in DialState /\ DialOK(D("ended")) /\ D("ended").url = url
        /\ dials' = [dials EXCEPT ![s] = D("ended")]
    BY <1>6, <1>10
  <2> QED
    BY <1>1, <1>7, <1>8, <1>10, <2>1, DialStep
<1>11. CASE /\ dials' = [dials EXCEPT ![s].tried = tried,
                    ![s].pc = IF tried = dials[s].addresses THEN "ended" ELSE "dialling"]
            /\ sends' = sends /\ idle' = idle
  <2>1. PICK pc \in {"ended", "dialling"} :
            dials' = [dials EXCEPT ![s].tried = tried, ![s].pc = pc]
    BY <1>11, Zenon
  <2>2. /\ D(pc) \in DialState /\ DialOK(D(pc)) /\ D(pc).url = url
        /\ dials' = [dials EXCEPT ![s] = D(pc)]
    BY <1>6, <2>1
  <2> QED
    BY <1>1, <1>7, <1>8, <1>11, <2>2, DialStep
<1> QED
  BY <1>2, <1>5, <1>9, <1>10, <1>11, Zenon DEF tried

LEMMA InitOK == Init => IInv
<1> SUFFICES ASSUME Init PROVE IInv
  OBVIOUS
<1>1. NewSend \in SendState /\ NewSend.pc = "new"
  BY DEF NewSend, SendState
<1>2. /\ NoDial \in DialState /\ NoDial.pc = "none" /\ NoDial.answer = {}
      /\ NoDial.addresses = {} /\ NoDial.tried = {}
  BY DEF NoDial, DialState
<1>3. SendOK(NewSend, NoDial)
  BY <1>1, <1>2 DEF SendOK
<1>4. DialOK(NoDial)
  BY <1>2 DEF DialOK, Unmap
<1>5. PoolOK({})
  BY DEF PoolOK
<1> QED
  BY <1>1, <1>2, <1>3, <1>4, <1>5 DEF Init, IInv

LEMMA NextOK == IInv /\ [Next]_vars => IInv'
<1> SUFFICES ASSUME IInv, [Next]_vars PROVE IInv'
  OBVIOUS
<1>1. PoolOK(idle)
  BY DEF IInv
<1>2. CASE Mutate
  BY <1>1, <1>2, PoolStep DEF Mutate
<1>3. CASE CloseIdle
  <2>1. PoolOK(idle') /\ UNCHANGED << given, sends, dials >>
    BY <1>1, <1>3 DEF CloseIdle, PoolOK
  <2> QED
    BY <2>1, PoolStep
<1>4. ASSUME NEW s \in Sends, Start(s) \/ Take(s) \/ Respond(s)
      PROVE  IInv'
  BY <1>4, StartStep, TakeStep, RespondStep
<1>5. ASSUME NEW s \in Sends, GiveUp(s) \/ DialFailed(s)
      PROVE  IInv'
  <2>1. /\ sends[s].pc # "new" /\ End(s)
        /\ given' = given /\ dials' = dials /\ idle' = idle
    BY <1>5 DEF GiveUp, DialFailed
  <2> QED
    BY <1>1, <2>1, EndStep
<1>6. ASSUME NEW s \in Sends, Resolve(s) \/ Check(s) \/ Dial(s)
      PROVE  IInv'
  BY <1>6, ResolveStep, CheckStep, DialActionStep
<1>7. CASE UNCHANGED vars
  BY <1>1, <1>7, PoolStep DEF vars
<1> QED
  BY <1>2, <1>3, <1>4, <1>5, <1>6, <1>7 DEF Next

\* The invariant holds in every state Sender.Send and the dialler can reach.
THEOREM Invariance == Spec => []IInv
  BY InitOK, NextOK, PTL DEF Spec

-----------------------------------------------------------------------------
(* The properties. *)

\* Requests go out only on connections made for their own destination, which
\* the policy given to NewSender permits, to addresses it permits, whatever is
\* resolved, cached or changed by the caller meanwhile.
THEOREM SendsWithinPolicy == Spec => []SentWithinPolicy
<1>1. IInv => SentWithinPolicy
  <2> SUFFICES ASSUME IInv, NEW s \in Sends, sends[s].pc = "connected"
               PROVE  /\ sends[s].conn.to = Endpoint(sends[s].url)
                      /\ Permits(sends[s].conn.address.ip)
                      /\ sends[s].url.scheme = "https" \/ given.plainHTTP
                      /\ \/ given.anyPort
                         \/ EffectivePort(sends[s].url) \in given.ports
                         \/ given.ports = {} /\ EffectivePort(sends[s].url) = 443
    BY Zenon DEF SentWithinPolicy, Endpoint
  <2>1. /\ sends[s].url \in URL /\ ValidURL(sends[s].url)
        /\ sends[s].conn.to = Endpoint(sends[s].url)
        /\ Permits(sends[s].conn.address.ip)
    BY OfSend DEF SendOK
  <2>2. given \in Policies
    BY OfSend
  <2> QED
    BY <2>1, <2>2, ValidIsAllowed, Zenon
<1> QED
  BY <1>1, Invariance, PTL

\* A destination of which one address is forbidden is not contacted at all, and
\* what is dialled is what the lookup returned.
THEOREM MixedRefused == Spec => []MixedAnswersRefused
<1>1. IInv => MixedAnswersRefused
  <2> SUFFICES ASSUME IInv, NEW s \in Sends, dials[s].tried # {}
               PROVE  /\ \A a \in dials[s].answer : Permits(a.ip)
                      /\ \A a \in dials[s].tried : \E b \in dials[s].answer : a.ip = b.ip
    BY DEF MixedAnswersRefused
  <2>1. /\ dials[s].answer \in SUBSET Form
        /\ dials[s].addresses = Unmap(dials[s].answer)
        /\ dials[s].tried \subseteq dials[s].addresses
        /\ \A a \in dials[s].addresses : Permits(a.ip)
    BY OfSend DEF DialOK, DialState
  <2> DEFINE answer == dials[s].answer
  <2>2. /\ \A a \in answer : \E b \in dials[s].addresses : b.ip = a.ip
        /\ \A b \in dials[s].addresses : \E a \in answer : b.ip = a.ip
    <3> HIDE DEF answer
    <3>1. answer \in SUBSET Form /\ dials[s].addresses = Unmap(answer)
      BY <2>1 DEF answer
    <3>2. /\ \A a \in answer : \E b \in Unmap(answer) : b.ip = a.ip
          /\ \A b \in Unmap(answer) : \E a \in answer : b.ip = a.ip
      BY <3>1, Unmapped
    <3> QED
      BY <3>1, <3>2
  <2>3. \A a \in dials[s].answer : Permits(a.ip)
    <3> SUFFICES ASSUME NEW a \in dials[s].answer PROVE Permits(a.ip)
      OBVIOUS
    <3>1. PICK b \in dials[s].addresses : b.ip = a.ip
      BY <2>1, <2>2
    <3> QED
      BY <2>1, <3>1
  <2>4. \A a \in dials[s].tried : \E b \in dials[s].answer : a.ip = b.ip
    BY <2>1, <2>2
  <2> QED
    BY <2>3, <2>4
<1> QED
  BY <1>1, Invariance, PTL
=============================================================================
