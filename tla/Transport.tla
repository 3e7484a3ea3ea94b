------------------------------- MODULE Transport ------------------------------
(***************************************************************************)
(* How Sender.Send reaches a destination under a network policy            *)
(* (src/transport/policy.go, src/sender.go): the URL check, name lookup,   *)
(* address check and dialling, with connections kept for later sends.      *)
(*                                                                         *)
(* net/http is external: a request without an idle connection starts a     *)
(* dial in a goroutine of its own and goes out on whichever connection to  *)
(* its scheme, host and port is free first, so a dial can outlive its      *)
(* request.  The name service is external too: every lookup may have       *)
(* another answer.  The caller keeps the Policy it passed to NewSender,    *)
(* with its maps and slices, and may change them at any time.  No proxy    *)
(* is configured (Policy.Proxy is nil by default) and UnsafeHTTPClient,    *)
(* which bypasses all of this, is not used.                                *)
(***************************************************************************)
EXTENDS Integers, FiniteSets

CONSTANTS
    Sends,       \* calls of Send
    Address,     \* IP addresses in their plain form
    Reserved,    \* those that are not publicly routable
    Name,        \* host names
    URL,         \* destinations: [scheme, host, port]
    Policies,    \* policies: [plainHTTP, anyPort, ports, cidrs]
    NoURL, NoConn

ASSUME TransportAssumption ==
    /\ Reserved \subseteq Address
    /\ Name \cap Address = {}
    /\ URL \subseteq [scheme : {"https", "http"}, host : Name \cup Address, port : Int]
    /\ Policies \subseteq [plainHTTP : BOOLEAN, anyPort : BOOLEAN, ports : SUBSET Nat,
                           cidrs : SUBSET Address]

VARIABLES
    given,   \* the policy as it was when NewSender was called
    caller,  \* the caller's policy object now
    sends,   \* the calls of Send
    dials,   \* the dial each of them may have started
    idle     \* connections without a request

vars == << given, caller, sends, dials, idle >>

NoPort == -1

NewSend == [pc |-> "new", url |-> NoURL, conn |-> NoConn]
NoDial  == [pc |-> "none", url |-> NoURL, answer |-> {}, addresses |-> {}, tried |-> {}]

Init ==
    /\ given \in Policies
    /\ caller = given
    /\ sends = [s \in Sends |-> NewSend]
    /\ dials = [s \in Sends |-> NoDial]
    /\ idle = {}

\* The caller changes its maps and slices.
Mutate ==
    /\ caller' \in Policies
    /\ UNCHANGED << given, sends, dials, idle >>

-----------------------------------------------------------------------------
(* The policy. *)

\* An empty list of ports is the default one, unless any port is allowed.
Normalized(policy) ==
    [policy EXCEPT !.ports =
        IF policy.anyPort THEN {} ELSE IF policy.ports = {} THEN {443} ELSE policy.ports]

\* Faulty: the sender shares the maps and slices of the caller's policy.
SharedPolicy == Normalized(caller)

\* NewSender and NewClient keep a copy.
NetworkPolicy == Normalized(given)

EffectivePort(url) ==
    IF url.port # NoPort THEN url.port ELSE IF url.scheme = "https" THEN 443 ELSE 80

\* Scheme and port; the other conditions on the text of a URL are left out.
ValidURL(url) ==
    LET port == EffectivePort(url) IN
    /\ url.scheme = "https" \/ (NetworkPolicy.plainHTTP /\ url.scheme = "http")
    /\ port \in 1 .. 65535
    /\ NetworkPolicy.anyPort \/ port \in NetworkPolicy.ports

\* Prefixes and address classes are those of the plain form.
ValidAddress(a) ==
    \/ a \in { [ip |-> ip, mapped |-> FALSE] : ip \in NetworkPolicy.cidrs }
    \/ a \notin { [ip |-> ip, mapped |-> FALSE] : ip \in Reserved }

-----------------------------------------------------------------------------
(* Send *)

End(s) == sends' = [sends EXCEPT ![s].pc = "done"]

\* ValidateURL, before anything else is done for the request.
Start(s) ==
    /\ sends[s].pc = "new"
    /\ \E url \in URL :
         sends' = [sends EXCEPT ![s].url = url,
                                ![s].pc = IF ValidURL(url) THEN "waiting" ELSE "done"]
    /\ UNCHANGED << given, caller, dials, idle >>

\* A free connection to the same scheme, host and port takes the request; an
\* HTTP/2 connection stays free for others.
Take(s) ==
    /\ sends[s].pc = "waiting"
    /\ \E conn \in idle :
        /\ conn.to = << sends[s].url.scheme, sends[s].url.host,
                        EffectivePort(sends[s].url) >>
        /\ idle' \in {idle, idle \ {conn}}
        /\ sends' = [sends EXCEPT ![s].pc = "connected", ![s].conn = conn]
    /\ UNCHANGED << given, caller, dials >>

\* A response, a redirect included, ends the request; its connection is kept
\* or closed.
Respond(s) ==
    /\ sends[s].pc = "connected"
    /\ End(s)
    /\ idle' \in {idle, idle \cup {sends[s].conn}}
    /\ UNCHANGED << given, caller, dials >>

\* A timeout or a cancelled context; a dial goes on without its request.
GiveUp(s) ==
    /\ sends[s].pc \in {"waiting", "connected"}
    /\ End(s)
    /\ UNCHANGED << given, caller, dials, idle >>

\* IdleConnTimeout, the pool's limits, or the peer.
CloseIdle ==
    /\ \E conn \in idle : idle' = idle \ {conn}
    /\ UNCHANGED << given, caller, sends, dials >>

-----------------------------------------------------------------------------
(* dialContext *)

\* Faulty: IPv4-mapped addresses are taken as they come.
KeepForm(answer) == answer

\* Unmap, and no address twice.
Unmap(answer) == { [a EXCEPT !.mapped = FALSE] : a \in answer }

\* What a lookup of a host may return; a literal address is its own answer.
Answers(host) ==
    LET Form == [ip : Address, mapped : BOOLEAN] IN
    IF host \in Name THEN SUBSET Form
    ELSE { {a} : a \in { f \in Form : f.ip = host } }

\* A lookup may also fail; an empty answer is an error.
Resolve(s) ==
    /\ sends[s].pc = "waiting" /\ dials[s].pc = "none"
    /\ \/ dials' = [dials EXCEPT ![s] = [NoDial EXCEPT !.pc = "ended", !.url = sends[s].url]]
       \/ \E answer \in Answers(sends[s].url.host) \ {{}} :
            dials' = [dials EXCEPT ![s] =
                [pc |-> "resolved", url |-> sends[s].url, answer |-> answer,
                 addresses |-> Unmap(answer), tried |-> {}]]
    /\ UNCHANGED << given, caller, sends, idle >>

\* Faulty: one good address is enough.
SomeValid(addresses) == \E a \in addresses : ValidAddress(a)

AllValid(addresses) == \A a \in addresses : ValidAddress(a)

\* One forbidden address refuses the destination.
Check(s) ==
    /\ dials[s].pc = "resolved"
    /\ dials' = [dials EXCEPT ![s].pc =
            IF AllValid(dials[s].addresses) THEN "dialling" ELSE "ended"]
    /\ UNCHANGED << given, caller, sends, idle >>

\* The addresses just checked are dialled in turn, until one answers.  Its
\* connection goes to the request, or is kept if the request no longer waits.
Dial(s) ==
    LET url == dials[s].url IN
    /\ dials[s].pc = "dialling"
    /\ \E a \in dials[s].addresses \ dials[s].tried :
        LET tried == dials[s].tried \cup {a}
            conn  == [to |-> << url.scheme, url.host, EffectivePort(url) >>,
                      address |-> a] IN
        \/ /\ dials' = [dials EXCEPT ![s].tried = tried, ![s].pc = "ended"]
           /\ IF sends[s].pc = "waiting"
              THEN /\ sends' = [sends EXCEPT ![s].pc = "connected", ![s].conn = conn]
                   /\ idle' \in {idle, idle \cup {conn}}
              ELSE /\ idle' = idle \cup {conn}
                   /\ UNCHANGED sends
        \/ /\ dials' = [dials EXCEPT ![s].tried = tried,
                ![s].pc = IF tried = dials[s].addresses THEN "ended" ELSE "dialling"]
           /\ UNCHANGED << sends, idle >>
    /\ UNCHANGED << given, caller >>

\* The request is told that its dial failed.
DialFailed(s) ==
    /\ sends[s].pc = "waiting" /\ dials[s].pc = "ended"
    /\ End(s)
    /\ UNCHANGED << given, caller, dials, idle >>

Next ==
    \/ Mutate \/ CloseIdle
    \/ \E s \in Sends : \/ Start(s) \/ Take(s) \/ Respond(s) \/ GiveUp(s)
                        \/ Resolve(s) \/ Check(s) \/ Dial(s) \/ DialFailed(s)

Spec == Init /\ [][Next]_vars

-----------------------------------------------------------------------------
(* Properties. *)

\* What the policy given to NewSender permits, said of addresses as such: an
\* address inside the allowed prefixes, or a publicly routable one.
Permits(ip) == ip \in given.cidrs \/ ip \notin Reserved

\* A request goes out only on a connection that was made for its own scheme,
\* host and port, which the policy NewSender was given permits, to an address
\* that policy permits: whatever the names resolve to later, whoever made the
\* connection, and however the caller changes its policy object meanwhile.
SentWithinPolicy ==
    \A s \in Sends :
        LET url  == sends[s].url
            conn == sends[s].conn IN
        sends[s].pc = "connected" =>
            /\ conn.to = << url.scheme, url.host, EffectivePort(url) >>
            /\ Permits(conn.address.ip)
            /\ url.scheme = "https" \/ given.plainHTTP
            /\ \/ given.anyPort
               \/ EffectivePort(url) \in given.ports
               \/ given.ports = {} /\ EffectivePort(url) = 443

\* A destination whose lookup returned one forbidden address is not contacted
\* at all, at no other address of the same answer either, and what is dialled
\* is what that lookup returned.
MixedAnswersRefused ==
    \A s \in Sends :
        dials[s].tried # {} =>
            /\ \A a \in dials[s].answer : Permits(a.ip)
            /\ \A a \in dials[s].tried : \E b \in dials[s].answer : a.ip = b.ip
=============================================================================
