------------------------------ MODULE Connect --------------------------------
(***************************************************************************)
(* Connect (src/tricoredb.go): dial, TLS, HELLO, AUTH, and the client that *)
(* comes out of them.  The peer may refuse, misbehave, vanish or stay      *)
(* silent at any point; the context may have a deadline, which Connect     *)
(* puts on the socket, or be cancelled, which only the dial and the TLS    *)
(* handshake notice.                                                       *)
(*                                                                         *)
(* Afterwards the program uses the client once, to show which deadline its *)
(* reads are under.                                                        *)
(***************************************************************************)
EXTENDS Naturals

VARIABLES opts,      \* [tls, user, readTimeout, hasDeadline]: what Connect is called with
          pc,        \* where it is
          ctx,       \* live, cancelled, or expired
          sock,      \* none, open, or closed by this side
          tls,       \* the socket speaks TLS
          deadline,  \* what the socket's reads and writes are under
          reply,     \* what the peer has put on the wire
          sent,      \* history: the frames written, each with: inside TLS?
          said,      \* history: what the peer has accepted
          client,    \* [session, readTimeout] of the client under construction
          err        \* what Connect returns

peer == <<reply, said>>
vars == <<opts, pc, ctx, sock, tls, deadline, reply, sent, said, client, err>>

Places ==
  {"dial", "config", "handshake", "hello", "helloOK", "auth", "authOK", "arm", "ready", "reading", "failed"}

(***************************************************************************)
(* Replies.  In HELLO_OK and AUTH_OK, ok can be false ("refused"); a frame *)
(* can be ERROR, have another tag, or not parse; the peer can hang up.     *)
(***************************************************************************)
Replies == {"none", "ok", "refused", "error", "tag", "garbled", "closed"}

Errors == {"nil", "dial", "protocol", "auth", "io"}

Init ==
  /\ opts \in [tls : {"off", "good", "bad"}, user : BOOLEAN, readTimeout : BOOLEAN, hasDeadline : BOOLEAN]
  /\ pc = "dial" /\ ctx = "live" /\ sock = "none" /\ tls = FALSE /\ deadline = "none"
  /\ reply = "none" /\ sent = {} /\ said = {}
  /\ client = [session |-> FALSE, readTimeout |-> FALSE]
  /\ err = "nil"

-----------------------------------------------------------------------------
(* The surroundings.                                                       *)

\* A deadline on the socket passes when that of the context does, and a read
\* deadline of the client later on.
Expire ==
  /\ opts.hasDeadline /\ ctx # "expired"
  /\ ctx' = "expired"
  /\ deadline' = IF deadline = "context" THEN "passed" ELSE deadline
  /\ UNCHANGED <<opts, pc, sock, tls, peer, sent, client, err>>

Cancel ==
  /\ ctx = "live"
  /\ ctx' = "cancelled"
  /\ UNCHANGED <<opts, pc, sock, tls, deadline, peer, sent, client, err>>

TimePasses ==
  /\ pc = "reading" /\ deadline = "read"
  /\ deadline' = "passed"
  /\ UNCHANGED <<opts, pc, ctx, sock, tls, peer, sent, client, err>>

\* The peer answers the frame that Connect is waiting on, or hangs up.
Answer ==
  /\ pc \in {"handshake", "helloOK", "authOK", "reading"} /\ reply = "none"
  /\ reply' \in Replies \ {"none"}
  /\ said' = IF reply' = "ok" THEN said \cup {pc} ELSE said
  /\ UNCHANGED <<opts, pc, ctx, sock, tls, deadline, sent, client, err>>

-----------------------------------------------------------------------------
(* Connect.                                                                *)

Go(place) == pc' = place

Fail(e) ==
  /\ Go("failed") /\ err' = e
  /\ sock' = "closed"
  /\ UNCHANGED <<opts, ctx, tls, deadline, peer, sent, client>>

DialFails ==
  /\ pc = "dial"
  /\ Go("failed") /\ err' = "dial"
  /\ UNCHANGED <<opts, ctx, sock, tls, deadline, peer, sent, client>>

\* Faulty: the context bounds the dial only.
DialOkUnbounded ==
  /\ pc = "dial" /\ ctx = "live"
  /\ sock' = "open"
  /\ Go(IF opts.tls = "off" THEN "hello" ELSE "config")
  /\ UNCHANGED <<opts, ctx, tls, deadline, peer, sent, client, err>>

\* The deadline is set before anything travels, the TLS handshake included.
DialOk ==
  /\ pc = "dial" /\ ctx = "live"
  /\ sock' = "open"
  /\ deadline' = IF opts.hasDeadline THEN "context" ELSE "none"
  /\ Go(IF opts.tls = "off" THEN "hello" ELSE "config")
  /\ UNCHANGED <<opts, ctx, tls, peer, sent, client, err>>

\* Faulty: without a usable configuration Connect goes on in plain text.
ConfigRefusedIgnored ==
  /\ pc = "config" /\ opts.tls = "bad"
  /\ Go("hello")
  /\ UNCHANGED <<opts, ctx, sock, tls, deadline, peer, sent, client, err>>

\* TLSOptions.config: half an identity, or a file that cannot be read.
ConfigRefused == pc = "config" /\ opts.tls = "bad" /\ Fail("protocol")

ConfigOk ==
  /\ pc = "config" /\ opts.tls = "good"
  /\ Go("handshake")
  /\ UNCHANGED <<opts, ctx, sock, tls, deadline, peer, sent, client, err>>

HandshakeFails ==
  /\ pc = "handshake"
  /\ reply \notin {"none", "ok"} \/ ctx # "live" \/ deadline = "passed"
  /\ Fail("protocol")

HandshakeOk ==
  /\ pc = "handshake" /\ reply = "ok"
  /\ tls' = TRUE /\ reply' = "none"
  /\ Go("hello")
  /\ UNCHANGED <<opts, ctx, sock, deadline, sent, said, client, err>>

Write(frame) ==
  /\ sent' = sent \cup {[frame |-> frame, inside |-> tls]}
  /\ UNCHANGED <<opts, ctx, sock, tls, deadline, peer, client, err>>

Hello == pc = "hello" /\ deadline # "passed" /\ Write("HELLO") /\ Go("helloOK")

Auth == pc = "auth" /\ deadline # "passed" /\ Write("AUTH") /\ Go("authOK")

WriteFails == pc \in {"hello", "auth"} /\ Fail("io")

\* Faulty: the kind of error is named after the reply.
RefusedByReply == reply

\* An ERROR frame and ok = false are a refusal: of HELLO a protocol error, of
\* AUTH an authentication error.
Refused == IF pc = "authOK" THEN "auth" ELSE "protocol"

ReplyRefused ==
  /\ pc \in {"helloOK", "authOK"} /\ reply \in {"error", "refused"}
  /\ Fail(Refused)

ReplyMisfits ==
  /\ pc \in {"helloOK", "authOK"} /\ reply \in {"tag", "garbled"}
  /\ Fail("protocol")

\* Nothing but a deadline ends a read the peer does not answer.
ReadFails ==
  /\ pc \in {"helloOK", "authOK"}
  /\ reply = "closed" \/ deadline = "passed"
  /\ Fail("io")

HelloOk ==
  /\ pc = "helloOK" /\ reply = "ok"
  /\ reply' = "none"
  /\ Go(IF opts.user THEN "auth" ELSE "arm")
  /\ UNCHANGED <<opts, ctx, sock, tls, deadline, sent, said, client, err>>

AuthOk ==
  /\ pc = "authOK" /\ reply = "ok"
  /\ reply' = "none" /\ client' = [client EXCEPT !.session = TRUE]
  /\ Go("arm")
  /\ UNCHANGED <<opts, ctx, sock, tls, deadline, sent, said, err>>

\* Faulty: the handshake deadline stays on the socket.
ArmKeepsDeadline ==
  /\ pc = "arm"
  /\ client' = [client EXCEPT !.readTimeout = opts.readTimeout]
  /\ Go("ready")
  /\ UNCHANGED <<opts, ctx, sock, tls, deadline, peer, sent, err>>

\* The handshake deadline is taken off, the read timeout put in its place.
Arm ==
  /\ pc = "arm"
  /\ deadline' = "none"
  /\ client' = [client EXCEPT !.readTimeout = opts.readTimeout]
  /\ Go("ready")
  /\ UNCHANGED <<opts, ctx, sock, tls, peer, sent, err>>

\* The first exchange.
Use ==
  /\ pc = "ready"
  /\ deadline' = IF client.readTimeout THEN "read" ELSE deadline
  /\ sent' = sent \cup {[frame |-> "REQUEST", inside |-> tls]}
  /\ Go("reading")
  /\ UNCHANGED <<opts, ctx, sock, tls, peer, client, err>>

Steps ==
  \/ DialFails \/ DialOk \/ ConfigRefused \/ ConfigOk \/ HandshakeFails \/ HandshakeOk
  \/ Hello \/ Auth \/ WriteFails \/ ReplyRefused \/ ReplyMisfits \/ ReadFails
  \/ HelloOk \/ AuthOk \/ Arm

Surroundings == Expire \/ Cancel \/ TimePasses \/ Answer

Next == Steps \/ Use \/ Surroundings

Spec == Init /\ [][Next]_vars

\* Connect takes its next step, and time passes; the peer owes nothing.
FairSpec == Spec /\ WF_vars(Steps) /\ WF_vars(Expire)

-----------------------------------------------------------------------------
\* Every variable has its type.
TypeOK ==
  /\ pc \in Places /\ ctx \in {"live", "cancelled", "expired"}
  /\ sock \in {"none", "open", "closed"} /\ tls \in BOOLEAN
  /\ deadline \in {"none", "context", "read", "passed"}
  /\ reply \in Replies /\ said \subseteq Places /\ err \in Errors
  /\ sent \subseteq [frame : {"HELLO", "AUTH", "REQUEST"}, inside : BOOLEAN]
  /\ client \in [session : BOOLEAN, readTimeout : BOOLEAN]

\* Connect ends with an error and no socket, or with a client whose peer has
\* accepted all that was asked of it, and whose reads are under the read
\* timeout of the options and no deadline of the context that made it.
AllOrNothing ==
  /\ pc = "failed" => err # "nil" /\ sock # "open"
  /\ pc \in {"ready", "reading"} =>
       /\ err = "nil" /\ sock = "open" /\ "helloOK" \in said
       /\ opts.user => "authOK" \in said /\ client.session
       /\ client.readTimeout = opts.readTimeout
       /\ deadline = "passed" => client.readTimeout /\ pc = "reading"

\* With TLS asked for, no frame travels outside it; the secret is sent only
\* to a peer that has accepted HELLO, and no request before AUTH is accepted.
SecretInside ==
  \A f \in sent :
    /\ opts.tls # "off" => f.inside /\ "handshake" \in said
    /\ f.frame = "AUTH" => "helloOK" \in said
    /\ f.frame = "REQUEST" /\ opts.user => "authOK" \in said

\* A context with a deadline bounds the whole handshake: whatever the peer
\* does, Connect returns.
ConnectReturns == opts.hasDeadline => <>(pc \in {"ready", "reading", "failed"})

\* Cancelling it does so too.
CancelReturns == ctx = "cancelled" ~> pc \in {"ready", "reading", "failed"}
=============================================================================
