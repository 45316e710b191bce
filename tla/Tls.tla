-------------------------------- MODULE Tls ---------------------------------
(***************************************************************************)
(* A TLS connection of the async package: Schannel on Windows              *)
(* (schannel.c, schannel.mbt), OpenSSL elsewhere (openssl.c, openssl.mbt), *)
(* both over one Transport (transport.mbt).  The security library does no  *)
(* I/O: it takes what is in the transport's read buffer and leaves its     *)
(* records in the write buffer, and the connection moves both.             *)
(*                                                                         *)
(* One task sets the connection up and then reads from it; another writes  *)
(* and shuts it down.  They are coroutines: they interleave only where     *)
(* they wait, for a lock, for the network or between two calls.            *)
(*                                                                         *)
(* What the peer sends is a sequence of units: "hs" is a handshake         *)
(* message, "part" "hs" one that comes in two pieces, "h" "1" "2" "t" a    *)
(* record of two bytes with its header and its trailer, "reneg" and "bye"  *)
(* whole records.  "junk" is memory in front of a buffer.  Records sent    *)
(* are numbered as the library makes them.                                 *)
(*                                                                         *)
(* Connect and accept on Windows drop from the read buffer all but what    *)
(* the library reports as EXTRA.  Handing it a message of the handshake it *)
(* takes that message; handing it anything else, in a shutdown or with an  *)
(* error, it takes whatever it likes.                                      *)
(***************************************************************************)
EXTENDS Integers, FiniteSets, SequencesExt

Units == {"part", "hs", "h", "1", "2", "3", "t", "reneg", "bye", "junk"}
Bytes == {"1", "2", "3"}

CONSTANTS
    Streams,      \* what a peer may send
    MaxWrites,    \* bound: records made when the last is written
    BufferSize    \* records the write buffer holds

\* A peer of the protocol: from a header to its trailer there are bytes, and
\* none come after its close_notify.  It may be cut off anywhere.
WellFormed(s) ==
    \A i, j \in DOMAIN s :
       /\ s[i] = "h" /\ i < j /\ (\A k \in (i + 1)..(j - 1) : s[k] # "t") =>
             s[j] \in Bytes \cup {"t"}
       /\ s[i] = "bye" /\ i < j => s[j] \notin Bytes

ASSUME TlsAssumption ==
    /\ Streams \subseteq Seq(Units) /\ \A s \in Streams : WellFormed(s)
    /\ MaxWrites \in Nat /\ BufferSize \in Nat

Tasks == {"reader", "writer"}
Nobody == "nobody"

VARIABLES
    backend, role, trust,
    setup,        \* how far the connection is set up
    held,         \* what the connection or a call has acquired and not released
    state,        \* struct Context.state, Schannel only
    tstate,       \* Transport.state: "Normal", "Closed" or "Error"
    sent,         \* what the peer sends in all
    turn,         \* the task that runs
    inbound, rbuf,      \* on its way from the peer; in the transport's read buffer
    inside,       \* units OpenSSL has taken in, and plain bytes it has for the reader
    plain,
    remaining, trailer, \* curr_msg_remaining and curr_msg_trailer, Schannel only
    got,          \* bytes the reader has been given
    dropped,      \* history: where connect or accept dropped input that was for the reader
    made, wbuf, wire,   \* records made, in the write buffer, sent
    goodbye,      \* the record of the connection's own close_notify
    wlock, rlock, \* who has the write lock and the read lock of the transport
    pc, then,     \* where each task is; what it goes on with
    upto, at,     \* of flush_write: the part of the buffer it sends, what it has sent
    shut,         \* Tls.shutdown
    mishap        \* history: flushes overtaken or given up, records not counted

kindVars == <<backend, role, trust, sent>>
setupVars == <<setup, held, state>>
readVars == <<inbound, rbuf, inside, plain, remaining, trailer, got, dropped>>
writeVars == <<made, wbuf, wire, goodbye>>
taskVars == <<turn, wlock, rlock, pc, then, upto, at>>
tlsVars == <<kindVars, setupVars, tstate, readVars, writeVars, taskVars, shut, mishap>>

Schannel == backend = "schannel"
Client == role = "client"

TlsInit ==
    /\ backend \in {"schannel", "openssl"} /\ role \in {"client", "server"}
    /\ trust \in {"system", "custom"} /\ (role = "server" => trust = "system")
    /\ setup = "new" /\ held = {} /\ state = "Uninitialized"
    /\ tstate = "Normal"
    /\ sent \in Streams /\ inbound = sent /\ turn = "reader"
    /\ rbuf = <<>> /\ inside = <<>> /\ plain = <<>>
    /\ remaining = 0 /\ trailer = 0 /\ got = <<>> /\ dropped = {}
    /\ made = 0 /\ wbuf = <<>> /\ wire = <<>> /\ goodbye = 0
    /\ wlock = Nobody /\ rlock = Nobody
    /\ pc = [t \in Tasks |-> "start"] /\ then = [t \in Tasks |-> "none"]
    /\ upto = [t \in Tasks |-> 0] /\ at = [t \in Tasks |-> 0]
    /\ shut = FALSE /\ mishap = {}

-----------------------------------------------------------------------------
(* Setting the connection up: calls that do not wait.                      *)
SetUp(from, to) == setup = from /\ setup' = to
NoTraffic == UNCHANGED <<kindVars, tstate, readVars, writeVars, taskVars, shut, mishap>>

(* Mutant of schannel_free: the chain engine is forgotten.                 *)
free_without_engine(h) ==
    h \ ({"context", "root_store"}
         \cup (IF state = "ContextInitialized" THEN {"security", "credential"}
               ELSE IF state = "HandleInitialized" THEN {"credential"} ELSE {}))

(* moonbitlang_async_schannel_free, by what the fields and state tell.     *)
schannel_free(h) ==
    h \ ({"context", "engine", "root_store"}
         \cup (IF state = "ContextInitialized" THEN {"security", "credential"}
               ELSE IF state = "HandleInitialized" THEN {"credential"} ELSE {}))

(* SSL::free releases the two BIOs with the references they have to the    *)
(* transport; SSL_CTX::free leaves the shared contexts alone.              *)
openssl_free(h) == h \ {"ssl", "bios", "ssl_ctx"}

Release == held' = IF Schannel THEN schannel_free(held) ELSE openssl_free(held)

schannel_new ==
    /\ Schannel /\ SetUp("new", IF Client THEN "init" ELSE "pfx")
    /\ held' = held \cup {"context"}
    /\ UNCHANGED state /\ NoTraffic

(* server_from_pair reads the file after it made the context: when that    *)
(* fails nobody frees it.                                                  *)
read_pfx ==
    /\ NoTraffic /\ UNCHANGED <<held, state>>
    /\ SetUp("pfx", "import") \/ SetUp("pfx", "unread")

(* init_client, and the end of init_server: AcquireCredentialsHandle; the  *)
(* server's certificate and its store are released either way.             *)
acquire_credentials ==
    /\ NoTraffic
    /\ \/ /\ SetUp("init", IF trust = "custom" THEN "roots" ELSE "handshake")
          /\ held' = (held \ {"cert", "cert_store"}) \cup {"credential"}
          /\ state' = "HandleInitialized"
       \/ /\ SetUp("init", "failed")
          /\ held' = schannel_free(held \ {"cert", "cert_store"}) /\ UNCHANGED state

(* init_server: the store, then a certificate with its key in it. *)
init_server ==
    /\ NoTraffic /\ UNCHANGED state
    /\ \/ SetUp("import", "find") /\ held' = held \cup {"cert_store"}
       \/ SetUp("import", "failed") /\ held' = schannel_free(held)
       \/ SetUp("find", "init") /\ held' = held \cup {"cert"}
       \/ SetUp("find", "failed") /\ held' = schannel_free(held \ {"cert_store"})

(* add_root_certificate, once per certificate of the file, which may not   *)
(* be readable.                                                            *)
add_root_certificate ==
    /\ NoTraffic /\ UNCHANGED state /\ Schannel
    /\ \/ SetUp("roots", "failed") /\ held' = schannel_free(held)
       \/ SetUp("roots", "root_store") /\ held' = held \cup {"cert"}
       \/ SetUp("root_store", "failed") /\ held' = schannel_free(held \ {"cert"})
       \/ SetUp("root_store", "root_add") /\ held' = (held \cup {"root_store"}) \ {"engine"}
       \/ SetUp("root_add", "failed") /\ held' = schannel_free(held \ {"cert"})
       \/ SetUp("root_add", "roots") /\ held' = held \ {"cert"}
       \/ SetUp("roots", "handshake") /\ "root_store" \in held /\ UNCHANGED held

(* client_ctx and server_ctx are made once; a context with its own roots   *)
(* is the connection's.                                                    *)
openssl_ctx ==
    /\ ~Schannel /\ NoTraffic /\ UNCHANGED state
    /\ \/ trust = "system" /\ SetUp("new", "ssl") /\ UNCHANGED held
       \/ trust = "custom" /\ SetUp("new", "failed") /\ UNCHANGED held
       \/ trust = "custom" /\ SetUp("new", "ssl_roots") /\ held' = held \cup {"ssl_ctx"}
       \/ SetUp("ssl_roots", "failed") /\ held' = openssl_free(held)
       \/ SetUp("ssl_roots", "ssl_add") /\ held' = held \cup {"cert"}
       \/ SetUp("ssl_add", "failed") /\ held' = openssl_free(held \ {"cert"})
       \/ SetUp("ssl_add", "ssl_roots") /\ held' = held \ {"cert"}
       \/ SetUp("ssl_roots", "ssl") /\ UNCHANGED held

(* from_pair makes two BIOs and the SSL that owns them; a null SSL is not  *)
(* looked for.  Then the options, host name or certificate of the side.    *)
openssl_ssl ==
    /\ ~Schannel /\ NoTraffic /\ UNCHANGED state
    /\ \/ SetUp("ssl", "options") /\ held' = held \cup {"bios", "ssl"}
       \/ SetUp("options", "failed") /\ held' = openssl_free(held)
       \/ SetUp("options", "handshake") /\ UNCHANGED held

(* A handshake that failed closes the connection. *)
HandshakeFailed ==
    /\ setup = "handshake" /\ pc["reader"] = "raised"
    /\ setup' = "failed" /\ Release
    /\ tstate' = IF tstate = "Normal" THEN "Closed" ELSE tstate
    /\ UNCHANGED <<kindVars, state, readVars, writeVars, taskVars, shut, mishap>>

(* verify_peer_certificate, for roots of one's own on Windows: the peer's  *)
(* certificate, the chain engine (kept), the chain, the policy.            *)
verify_peer_certificate ==
    /\ UNCHANGED <<kindVars, state, readVars, writeVars, taskVars, shut, mishap>>
    /\ LET Fail(temporary) ==
               /\ held' = schannel_free(held \ temporary)
               /\ tstate' = IF tstate = "Normal" THEN "Closed" ELSE tstate
       IN \/ SetUp("verify", "failed") /\ Fail({})
          \/ SetUp("verify", "engine") /\ held' = held \cup {"cert"} /\ UNCHANGED tstate
          \/ SetUp("engine", "failed") /\ Fail({"cert"})
          \/ SetUp("engine", "chain") /\ held' = held \cup {"engine"} /\ UNCHANGED tstate
          \/ SetUp("chain", "failed") /\ Fail({"cert"})
          \/ SetUp("chain", "policy") /\ held' = held \cup {"chain"} /\ UNCHANGED tstate
          \/ SetUp("policy", "failed") /\ Fail({"chain", "cert"})
          \/ SetUp("policy", "open") /\ held' = held \ {"chain", "cert"} /\ UNCHANGED tstate

(* get_peer_certificate and the channel bindings: a certificate or buffer  *)
(* is taken and released.                                                  *)
peer_certificate ==
    /\ NoTraffic /\ UNCHANGED state
    /\ \/ setup = "open" /\ pc["reader"] = "call_read" /\ got = <<>>
          /\ setup' = "asking" /\ held' = held \cup {"peer"}
       \/ SetUp("asking", "open") /\ held' = held \ {"peer"}

(* Tls::close, after both tasks are done with it. *)
close ==
    /\ setup = "open" /\ \A t \in Tasks : pc[t] \in {"end", "raised"}
    /\ setup' = "closed" /\ Release
    /\ tstate' = IF tstate = "Normal" THEN "Closed" ELSE tstate
    /\ UNCHANGED <<kindVars, state, readVars, writeVars, taskVars, shut, mishap>>

-----------------------------------------------------------------------------
(* Tasks and the transport.                                                *)
Other(t) == IF t = "reader" THEN "writer" ELSE "reader"
Started(t) == setup = "open" \/ (t = "reader" /\ setup = "handshake")
Here(t, step) == turn = t /\ Started(t) /\ pc[t] = step
Goto(t, step) == pc' = [pc EXCEPT ![t] = step]
GotoThen(t, step, next) == Goto(t, step) /\ then' = [then EXCEPT ![t] = next]
NotFlushing == UNCHANGED <<upto, at>>

(* A task lets the other run when it waits or is between two calls. *)
Waits == {"start", "call_read", "call_write", "read_queued", "receiving", "queued", "sending",
          "end", "raised"}
Switch ==
    /\ setup = "open" /\ pc[turn] \in Waits /\ turn' = Other(turn)
    /\ UNCHANGED <<kindVars, setupVars, tstate, readVars, writeVars, wlock, rlock, pc, then, upto,
                   at, shut, mishap>>

(* Semaphore.release hands the lock to the one who waits for it. *)
Released(t, wait) == IF pc[Other(t)] = wait THEN Other(t) ELSE Nobody

(* read_more: with the lock, look whether there is anything to read from.  *)
ReadMore(t) ==
    /\ \/ Here(t, "read_more") /\ rlock = Nobody
       \/ Here(t, "read_queued") /\ rlock = t
    /\ \/ tstate = "Normal" /\ Goto(t, "receiving") /\ rlock' = t
       \/ tstate # "Normal" /\ Goto(t, "raised") /\ rlock' = Released(t, "read_queued")
    /\ NotFlushing
    /\ UNCHANGED <<kindVars, setupVars, tstate, readVars, writeVars, turn, wlock, then,
                   shut, mishap>>

WaitToRead(t) ==
    /\ Here(t, "read_more") /\ rlock \notin {Nobody, t}
    /\ Goto(t, "read_queued") /\ NotFlushing
    /\ UNCHANGED <<kindVars, setupVars, tstate, readVars, writeVars, turn, wlock, rlock, then,
                   shut, mishap>>

(* Any part of what is on its way arrives, or the end of the stream.  The  *)
(* task goes on from where it asked, whatever it finds in the buffer.      *)
Receive(t) ==
    /\ Here(t, "receiving") /\ NotFlushing
    /\ Goto(t, then[t]) /\ rlock' = Released(t, "read_queued")
    /\ \/ \E n \in 1..Len(inbound) :
             /\ rbuf' = rbuf \o SubSeq(inbound, 1, n)
             /\ inbound' = SubSeq(inbound, n + 1, Len(inbound))
             /\ UNCHANGED tstate
       \/ inbound = <<>> /\ tstate' = "Closed" /\ UNCHANGED <<inbound, rbuf>>
    /\ UNCHANGED <<kindVars, setupVars, inside, plain, remaining, trailer, got, dropped,
                   writeVars, turn, wlock, then, shut, mishap>>

Unlock(t) == wlock' = Released(t, "queued")

(* Mutant of FlushWrite: the lock is not taken.                            *)
FlushUnlocked(t) ==
    /\ Here(t, "flush") \/ Here(t, "queued")
    /\ \/ wbuf = <<>> /\ Goto(t, then[t]) /\ NotFlushing
       \/ wbuf # <<>> /\ tstate # "Normal" /\ Goto(t, "raised") /\ NotFlushing
       \/ /\ wbuf # <<>> /\ tstate = "Normal" /\ Goto(t, "sending")
          /\ upto' = [upto EXCEPT ![t] = Len(wbuf)] /\ at' = [at EXCEPT ![t] = 0]
    /\ UNCHANGED <<kindVars, setupVars, tstate, readVars, writeVars, turn, wlock, rlock,
                   then, shut, mishap>>

(* flush_write: with the lock, look whether there is anything to send and  *)
(* note how far the buffer reaches.                                        *)
FlushWrite(t) ==
    /\ \/ Here(t, "flush") /\ wlock = Nobody
       \/ Here(t, "queued") /\ wlock = t
    /\ \/ wbuf = <<>> /\ Goto(t, then[t]) /\ Unlock(t) /\ NotFlushing
       \/ wbuf # <<>> /\ tstate # "Normal" /\ Goto(t, "raised") /\ Unlock(t) /\ NotFlushing
       \/ /\ wbuf # <<>> /\ tstate = "Normal" /\ Goto(t, "sending") /\ wlock' = t
          /\ upto' = [upto EXCEPT ![t] = Len(wbuf)] /\ at' = [at EXCEPT ![t] = 0]
    /\ UNCHANGED <<kindVars, setupVars, tstate, readVars, writeVars, turn, rlock, then,
                   shut, mishap>>

WaitForLock(t) ==
    /\ Here(t, "flush") /\ wlock # Nobody
    /\ Goto(t, "queued") /\ NotFlushing
    /\ UNCHANGED <<kindVars, setupVars, tstate, readVars, writeVars, turn, wlock, rlock,
                   then, shut, mishap>>

(* The writer is given a view of the buffer: it sends what is there when   *)
(* it comes to it.                                                         *)
Send(t) ==
    /\ Here(t, "sending") /\ at[t] < upto[t]
    /\ wire' = Append(wire, wbuf[at[t] + 1])
    /\ at' = [at EXCEPT ![t] = @ + 1]
    /\ UNCHANGED <<kindVars, setupVars, tstate, readVars, made, wbuf, goodbye, turn, wlock,
                   rlock, pc, then, upto, shut, mishap>>

(* Mutant of Flushed: what was sent stays in the buffer.                   *)
FlushedKeeps(t) ==
    /\ Here(t, "sending") /\ at[t] = upto[t]
    /\ Unlock(t) /\ Goto(t, then[t])
    /\ UNCHANGED <<kindVars, setupVars, tstate, readVars, writeVars, turn, rlock, then, upto, at,
                   shut, mishap>>

Flushed(t) ==
    /\ Here(t, "sending") /\ at[t] = upto[t]
    /\ wbuf' = <<>> /\ Unlock(t) /\ Goto(t, then[t])
    /\ UNCHANGED <<kindVars, setupVars, tstate, readVars, made, wire, goodbye, turn, rlock,
                   then, upto, at, shut, mishap>>

(* The task is cancelled while it waits, or the network fails; who was     *)
(* just given the lock does not take the cancellation.  A failed read      *)
(* leaves the transport in an error state, a failed write does not.        *)
GiveUp(t) ==
    /\ turn = t /\ Started(t)
    /\ \/ pc[t] \in {"receiving", "sending"}
       \/ pc[t] = "queued" /\ wlock # t
       \/ pc[t] = "read_queued" /\ rlock # t
    /\ Goto(t, "raised") /\ NotFlushing
    /\ IF pc[t] = "sending" THEN Unlock(t) ELSE UNCHANGED wlock
    /\ rlock' = IF pc[t] = "receiving" THEN Released(t, "read_queued") ELSE rlock
    /\ tstate' = IF pc[t] = "receiving" THEN "Error" ELSE tstate
    /\ mishap' = IF pc[t] \in {"queued", "sending"} THEN mishap \cup {"given_up"} ELSE mishap
    /\ UNCHANGED <<kindVars, setupVars, readVars, writeVars, turn, then, shut>>

-----------------------------------------------------------------------------
(* The security library.                                                   *)

(* A new record goes behind what is in the buffer; connect on Windows      *)
(* passes the start of the buffer instead, and counts the length on.       *)
Make(into) ==
    /\ made' = made + 1
    /\ wbuf' = CASE into = "end" -> Append(wbuf, made + 1)
                 [] into = "start" -> IF wbuf = <<>> THEN <<made + 1>>
                                      ELSE <<made + 1>> \o Tail(wbuf) \o <<0>>
    /\ mishap' = IF \E u \in Tasks : pc[u] = "sending" THEN mishap \cup {"overtaken"} ELSE mishap
MakeNothing == UNCHANGED <<made, wbuf, mishap>>

\* There is room for the next record; that may be too long for it, unless
\* the buffer is empty.
HasRoom == Len(wbuf) < BufferSize
Cramped == wbuf # <<>>
OutputPlace == IF Schannel /\ Client THEN "start" ELSE "end"
FirstCall == Client /\ made = 0

AtHead(s, unit) == s # <<>> /\ Head(s) = unit
\* The length of the record of data at the head, 0 when it is not complete.
EndsAt(s, i) == s[i] = "t" /\ \A j \in 1..(i - 1) : s[j] # "t"
RecordLength(s) ==
    IF AtHead(s, "h") /\ \E i \in 1..Len(s) : EndsAt(s, i)
    THEN CHOOSE i \in 1..Len(s) : EndsAt(s, i) ELSE 0
\* So for a message of a handshake.
MessageLength(s) ==
    IF AtHead(s, "hs") \/ AtHead(s, "reneg") THEN 1
    ELSE IF Len(s) > 1 /\ s[1] = "part" /\ s[2] = "hs" THEN 2 ELSE 0
\* What is there does not tell what it is yet.
Incomplete(s) == RecordLength(s) = 0 /\ MessageLength(s) = 0 /\ ~AtHead(s, "bye")

\* BIO::read and BIO::write serve a transport that is normal, no other.
Reachable == Schannel \/ tstate = "Normal"

(* Taking a message off the input, as each library does it. *)
Input == inside \o rbuf
Take(n) ==
    /\ inside' = <<>>
    /\ rbuf' = SubSeq(Input, n + 1, Len(Input))
TakeIn ==
    IF Schannel \/ tstate # "Normal" THEN UNCHANGED <<inside, rbuf>>
    ELSE inside' = Input /\ rbuf' = <<>>

(* Buffer.drop by connect and accept, of input that was no message to them *)
(* and, for the task that read the close_notify, of what comes behind it.  *)
Drop(t, n) ==
    /\ rbuf' = SubSeq(rbuf, n + 1, Len(rbuf))
    /\ dropped' = IF n = 0 \/ (t = "reader" /\ pc[t] = "goodbye") THEN dropped
                  ELSE dropped \cup {pc[t]}
    /\ UNCHANGED inside

Fill == [handshake |-> "fill_handshake", call_read |-> "fill_read",
         call_write |-> "fill_write", goodbye |-> "fill_goodbye"]

(* SSL_ERROR_WANT_READ: flush_write, then read_more, then the call again;  *)
(* Schannel's callers only read more.                                      *)
Refill(t, call) ==
    IF Schannel THEN GotoThen(t, "read_more", call) ELSE GotoThen(t, "flush", Fill[call])

(* Tls::connect, Tls::accept and SSL_connect, SSL_accept: one call of the  *)
(* library in their loops.  The client speaks first; each message of the   *)
(* peer may be answered, and the handshake ends with one of them.  OpenSSL *)
(* takes a part of a message in, Schannel leaves it.  The client's first   *)
(* call on Windows takes the count of bytes read from a descriptor nobody  *)
(* set: when that happens to say EXTRA the read buffer is moved back, and  *)
(* what stood in front of it is read.                                      *)
handshake(t) ==
    /\ Here(t, "handshake") /\ NotFlushing
    /\ UNCHANGED <<kindVars, setup, tstate, inbound, plain, remaining, trailer, got, wire, goodbye,
                   turn, wlock, rlock, shut>>
    /\ LET Initialized ==
               /\ held' = held \cup (IF Schannel THEN {"security"} ELSE {})
               /\ state' = IF state = "HandleInitialized" THEN "ContextInitialized" ELSE state
       IN \/ /\ FirstCall /\ HasRoom /\ Reachable                     \* WantWrite
             /\ Make(OutputPlace) /\ GotoThen(t, "flush", "handshake") /\ Initialized
             /\ UNCHANGED inside
             /\ \/ UNCHANGED <<rbuf, dropped>>
                \/ Schannel /\ rbuf' = <<"junk">> \o rbuf /\ dropped' = dropped \cup {"junk"}
          \/ /\ ~FirstCall /\ Incomplete(Input) /\ TakeIn             \* WantRead
             /\ MakeNothing /\ Refill(t, "handshake")
             /\ UNCHANGED <<held, state, dropped>>
          \/ /\ ~FirstCall /\ MessageLength(Input) > 0 /\ Reachable   \* WantWrite, Completed
             /\ Take(MessageLength(Input)) /\ Initialized /\ UNCHANGED dropped
             /\ (HasRoom /\ Make(OutputPlace)) \/ MakeNothing
             /\ \E next \in {"handshake", "connected"} : GotoThen(t, "flush", next)
          \/ /\ ~Schannel /\ Cramped /\ Reachable                    \* SSL_ERROR_WANT_WRITE
             /\ MakeNothing /\ GotoThen(t, "flush", "handshake")
             /\ UNCHANGED <<inside, rbuf, dropped, held, state>>
          \/ /\ Goto(t, "raised") /\ MakeNothing                      \* Error
             /\ \E n \in 0..(IF Schannel THEN Len(rbuf) ELSE 0) : Drop(t, n)
             /\ UNCHANGED <<held, state, then>>

FillAfterFlush(t) ==
    /\ Started(t) /\ turn = t /\ NotFlushing
    /\ \E call \in DOMAIN Fill : pc[t] = Fill[call] /\ GotoThen(t, "read_more", call)
    /\ UNCHANGED <<kindVars, setupVars, tstate, readVars, writeVars, turn, wlock, rlock,
                   shut, mishap>>

connected(t) ==
    /\ Here(t, "connected") /\ NotFlushing
    /\ Goto(t, "call_read")
    /\ setup' = IF setup = "open" THEN setup
                ELSE IF Schannel /\ trust = "custom" THEN "verify" ELSE "open"
    /\ UNCHANGED <<kindVars, held, state, tstate, readVars, writeVars, turn, wlock, rlock, then,
                   shut, mishap>>

(* The writer task begins when the connection is open. *)
Begin ==
    /\ Here("writer", "start") /\ setup = "open"
    /\ Goto("writer", "call_write")
    /\ UNCHANGED <<kindVars, setupVars, tstate, readVars, writeVars, turn, wlock, rlock, then,
                   upto, at, shut, mishap>>

-----------------------------------------------------------------------------
(* Reading.                                                                *)
ReadStays == UNCHANGED <<kindVars, setupVars, tstate, dropped, turn, wlock, rlock, upto, at>>

(* Schannel::read decrypts a record where it is; _direct_read drops its    *)
(* header, hands out its bytes, and drops its trailer after the last.      *)
schannel_decrypt ==
    /\ Here("reader", "call_read") /\ Schannel /\ remaining = 0 /\ RecordLength(rbuf) > 0
    /\ rbuf' = Tail(rbuf) /\ trailer' = 1
    /\ remaining' = RecordLength(rbuf) - 1 - 1
    /\ ReadStays /\ UNCHANGED <<inbound, inside, plain, got, writeVars, pc, then, shut, mishap>>

(* Mutant of schannel_hand_out: the trailer's length is skipped after each *)
(* part of the record.                                                     *)
hand_out_and_skip(max_len) ==
    /\ Here("reader", "call_read") /\ Schannel /\ remaining > 0
    /\ LET n == IF remaining <= max_len THEN remaining ELSE max_len
       IN /\ n + trailer <= Len(rbuf)
          /\ got' = got \o SubSeq(rbuf, 1, n)
          /\ rbuf' = SubSeq(rbuf, n + trailer + 1, Len(rbuf))
          /\ remaining' = remaining - n
    /\ ReadStays /\ UNCHANGED <<inbound, inside, plain, trailer, writeVars, pc, then, shut, mishap>>

\* What a read that has room for max_len hands out and drops.
Handed(max_len) == IF remaining <= max_len THEN remaining ELSE max_len
HandedOver(max_len) == Handed(max_len) + (IF remaining <= max_len THEN trailer ELSE 0)

schannel_hand_out(max_len) ==
    /\ Here("reader", "call_read") /\ Schannel /\ remaining > 0
    /\ HandedOver(max_len) <= Len(rbuf)
    /\ got' = got \o SubSeq(rbuf, 1, Handed(max_len))
    /\ rbuf' = SubSeq(rbuf, HandedOver(max_len) + 1, Len(rbuf))
    /\ remaining' = remaining - Handed(max_len)
    /\ ReadStays /\ UNCHANGED <<inbound, inside, plain, trailer, writeVars, pc, then, shut, mishap>>

(* SSL_read hands out what it has, or decrypts a record; the rest of the   *)
(* record stays with it.  What it wrote on the way is flushed.             *)
openssl_read(max_len) ==
    /\ Here("reader", "call_read") /\ ~Schannel
    /\ LET decrypted == IF plain # <<>> THEN plain
                        ELSE SubSeq(Input, 2, RecordLength(Input) - 1)
           n == IF Len(decrypted) <= max_len THEN Len(decrypted) ELSE max_len
       IN /\ n > 0
          /\ got' = got \o SubSeq(decrypted, 1, n)
          /\ plain' = SubSeq(decrypted, n + 1, Len(decrypted))
          /\ IF plain # <<>> THEN UNCHANGED <<inside, rbuf>>
             ELSE Reachable /\ Take(RecordLength(Input))
    /\ \E answers \in BOOLEAN :
          IF answers /\ HasRoom /\ Reachable /\ made < MaxWrites THEN Make("end")
          ELSE MakeNothing
    /\ GotoThen("reader", "flush", "call_read")
    /\ ReadStays /\ UNCHANGED <<inbound, remaining, trailer, wire, goodbye, shut>>

NoBytes == IF Schannel THEN remaining = 0 ELSE plain = <<>>

(* Too little for a record: read more, or the end of the stream.  With     *)
(* Schannel a record that was cut off is still in the read buffer then;    *)
(* OpenSSL has it inside, and the end looks like any other.                *)
read_wants_more ==
    /\ Here("reader", "call_read") /\ NoBytes /\ Incomplete(Input)
    /\ TakeIn
    /\ \/ tstate = "Closed" /\ rbuf = <<>> /\ Goto("reader", "end") /\ UNCHANGED then
       \/ ~(tstate = "Closed" /\ rbuf = <<>>) /\ Refill("reader", "call_read")
    /\ ReadStays /\ UNCHANGED <<inbound, plain, remaining, trailer, got, writeVars, shut, mishap>>

(* SSL_read has an answer to give first and no room for it. *)
read_wants_write ==
    /\ Here("reader", "call_read") /\ ~Schannel /\ NoBytes /\ Cramped /\ Reachable
    /\ GotoThen("reader", "flush", "call_read")
    /\ ReadStays /\ UNCHANGED <<inbound, inside, rbuf, plain, remaining, trailer, got, writeVars,
                                shut, mishap>>

read_fails ==
    /\ Here("reader", "call_read") /\ NoBytes
    /\ Goto("reader", "raised")
    /\ ReadStays /\ UNCHANGED <<inbound, inside, rbuf, plain, remaining, trailer, got, writeVars,
                                then, shut, mishap>>

(* The peer's close_notify is answered with the connection's own. *)
read_eof ==
    /\ Here("reader", "call_read") /\ NoBytes /\ AtHead(Input, "bye") /\ Reachable
    /\ GotoThen("reader", "call_shutdown", "end")
    /\ IF Schannel THEN UNCHANGED <<inside, rbuf>> ELSE Take(1)
    /\ ReadStays /\ UNCHANGED <<inbound, plain, remaining, trailer, got, writeVars, shut, mishap>>

(* A handshake message within the stream.  With Schannel the handshake is  *)
(* done again, within the read, and finds the message in the buffer;       *)
(* SSL_read answers it itself and asks for more.                           *)
read_renegotiate ==
    /\ Here("reader", "call_read") /\ Schannel /\ remaining = 0 /\ MessageLength(rbuf) > 0
    /\ Goto("reader", "handshake")
    /\ ReadStays /\ UNCHANGED <<inbound, inside, rbuf, plain, remaining, trailer, got, writeVars,
                                then, shut, mishap>>

openssl_renegotiate ==
    /\ Here("reader", "call_read") /\ ~Schannel /\ plain = <<>>
    /\ MessageLength(Input) > 0 /\ HasRoom /\ Reachable
    /\ Take(MessageLength(Input)) /\ Make("end") /\ GotoThen("reader", "flush", "call_read")
    /\ ReadStays /\ UNCHANGED <<inbound, plain, remaining, trailer, got, wire, goodbye, shut>>

-----------------------------------------------------------------------------
(* Writing and shutting down.                                              *)
WriteStays ==
    UNCHANGED <<kindVars, setupVars, tstate, inbound, plain, remaining, trailer, got, wire,
                turn, wlock, rlock, upto, at>>

(* write_once.  On Windows the record is built at the start of the buffer, *)
(* which has to be empty (Panic); OpenSSL appends, and asks for a flush    *)
(* when there is no room, or for more input within a handshake.            *)
write_once ==
    /\ Here("writer", "call_write")
    /\ WriteStays /\ UNCHANGED <<goodbye, dropped, shut>>
    /\ \/ /\ made < MaxWrites
          /\ IF Schannel THEN wbuf = <<>> ELSE HasRoom /\ tstate = "Normal"
          /\ Make("end") /\ GotoThen("writer", "flush", "call_write")
          /\ UNCHANGED <<inside, rbuf>>
       \/ /\ ~Schannel /\ tstate = "Normal" /\ MakeNothing
          /\ \/ Cramped /\ GotoThen("writer", "flush", "call_write") /\ UNCHANGED <<inside, rbuf>>
             \/ Incomplete(Input) /\ TakeIn /\ Refill("writer", "call_write")
       \/ Goto("writer", "raised") /\ MakeNothing /\ UNCHANGED <<inside, rbuf, then>>

DoneWriting ==
    /\ Here("writer", "call_write")
    /\ GotoThen("writer", "call_shutdown", "end")
    /\ WriteStays /\ UNCHANGED <<inside, rbuf, dropped, made, wbuf, goodbye, shut, mishap>>

(* Tls::shutdown: at most once, and not on a transport that is no longer   *)
(* normal.  On Windows the control token goes in, which may be refused.    *)
shutdown(t) ==
    /\ Here(t, "call_shutdown")
    /\ WriteStays /\ UNCHANGED <<inside, rbuf, dropped, made, wbuf, goodbye, then, mishap>>
    /\ shut' = TRUE
    /\ \/ shut /\ Goto(t, "end")
       \/ ~shut /\ tstate = "Normal" /\ Goto(t, "goodbye")
       \/ ~shut /\ tstate = "Closed" /\ Schannel /\ Goto(t, "end")
       \/ ~shut /\ (tstate # "Normal" \/ Schannel) /\ Goto(t, "raised")

(* Connect or accept then makes the close_notify in the same loop as for a *)
(* handshake, with all that is in the reader's buffer as its input: it may *)
(* drop of that what it likes, ask for more of it, and answer.  Accept     *)
(* does not count the close_notify when it answers Eof.                    *)
schannel_goodbye(t) ==
    /\ Here(t, "goodbye") /\ Schannel /\ WriteStays /\ UNCHANGED shut
    /\ \E n \in 0..Len(rbuf) : Drop(t, n)
    /\ \/ /\ HasRoom /\ Make(OutputPlace) /\ goodbye' = made + 1      \* Completed, Eof
          /\ GotoThen(t, "flush", "end")
       \/ /\ ~Client /\ made' = made + 1 /\ goodbye' = made + 1       \* Eof of accept
          /\ mishap' = mishap \cup {"uncounted"} /\ UNCHANGED wbuf
          /\ GotoThen(t, "flush", "end")
       \/ /\ HasRoom /\ made < MaxWrites /\ Make(OutputPlace)         \* WantWrite
          /\ UNCHANGED goodbye /\ GotoThen(t, "flush", "goodbye")
       \/ /\ rbuf' = rbuf /\ MakeNothing /\ UNCHANGED goodbye         \* WantRead
          /\ GotoThen(t, "read_more", "goodbye")
       \/ /\ MakeNothing /\ UNCHANGED <<goodbye, then>>               \* Error
          /\ Goto(t, "raised")

openssl_goodbye(t) ==
    /\ Here(t, "goodbye") /\ ~Schannel /\ WriteStays /\ UNCHANGED <<dropped, shut>>
    /\ \/ /\ HasRoom /\ tstate = "Normal" /\ Make("end") /\ goodbye' = made + 1
          /\ GotoThen(t, "flush", "end") /\ UNCHANGED <<inside, rbuf>>
       \/ /\ Cramped /\ tstate = "Normal" /\ MakeNothing
          /\ GotoThen(t, "flush", "goodbye") /\ UNCHANGED <<goodbye, inside, rbuf>>
       \/ /\ Incomplete(Input) /\ TakeIn /\ MakeNothing
          /\ Refill(t, "goodbye") /\ UNCHANGED goodbye
       \/ /\ Goto(t, "raised") /\ MakeNothing
          /\ UNCHANGED <<goodbye, inside, rbuf, then>>

(* A guard that does not hold ends the program: write_once on a buffer     *)
(* that is not empty; a read that drops more than the buffer has, when     *)
(* another call dropped a part of the record; and the first call of        *)
(* connect, when the garbage it takes for a count is negative.             *)
Panic ==
    /\ Schannel /\ setup' = "aborted"
    /\ \/ Here("writer", "call_write") /\ wbuf # <<>>
       \/ /\ Here("reader", "call_read") /\ remaining > 0
          /\ \E max_len \in 1..2 : HandedOver(max_len) > Len(rbuf)
       \/ Here("reader", "handshake") /\ FirstCall
    /\ UNCHANGED <<kindVars, held, state, tstate, readVars, writeVars, taskVars, shut, mishap>>

StartHandshake ==
    /\ setup = "handshake" /\ pc["reader"] = "start"
    /\ Goto("reader", "handshake")
    /\ UNCHANGED <<kindVars, setupVars, tstate, readVars, writeVars, turn, wlock, rlock, then,
                   upto, at, shut, mishap>>

-----------------------------------------------------------------------------
SetupStep ==
    \/ schannel_new \/ read_pfx \/ acquire_credentials \/ init_server \/ add_root_certificate
    \/ openssl_ctx \/ openssl_ssl \/ HandshakeFailed \/ Switch \/ verify_peer_certificate
    \/ peer_certificate \/ close \/ StartHandshake \/ Begin

TaskStep(t) ==
    \/ ReadMore(t) \/ WaitToRead(t) \/ Receive(t)
    \/ FlushWrite(t) \/ WaitForLock(t) \/ Send(t) \/ Flushed(t) \/ FillAfterFlush(t)
    \/ handshake(t) \/ connected(t)
    \/ shutdown(t) \/ schannel_goodbye(t) \/ openssl_goodbye(t)

ReaderStep ==
    \/ schannel_decrypt \/ read_wants_more \/ read_eof \/ read_renegotiate
    \/ openssl_renegotiate \/ read_wants_write \/ read_fails
    \/ \E n \in 1..2 : schannel_hand_out(n) \/ openssl_read(n)

TlsNext ==
    \/ SetupStep \/ ReaderStep \/ write_once \/ DoneWriting \/ Panic
    \/ \E t \in Tasks : TaskStep(t) \/ GiveUp(t)

TlsSpec == TlsInit /\ [][TlsNext]_tlsVars

-----------------------------------------------------------------------------
(* What is asked of the connection.                                        *)

(* When the connection could not be set up, or was closed, everything that *)
(* was acquired on the way has been released: what free releases by the    *)
(* context's state is what there is.  The one way out that releases        *)
(* nothing is a server whose key file cannot be read.                      *)
NothingHeld ==
    /\ setup \in {"failed", "closed"} => held = {}
    /\ (Schannel /\ "context" \in held) =>
          /\ (state = "ContextInitialized") = ("security" \in held)
          /\ (state # "Uninitialized") = ("credential" \in held)

\* How many bytes stand in the first p units of what the peer sent; what has
\* not been taken yet, and how many units have been.
BytesUpTo(p) == Cardinality({q \in 1..p : sent[q] \in Bytes})
Left == inside \o rbuf \o inbound
Taken == Len(sent) - Len(Left)

(* The bytes of the peer in their order, none of them lost: what has not   *)
(* been taken is the rest of the stream, and of what has been taken each   *)
(* byte is at its place in what was read.  A reader that is told that the  *)
(* stream ended had all of them; OpenSSL says so of a stream that was cut  *)
(* off, too.                                                               *)
ReadsInOrder ==
    /\ Left = SubSeq(sent, Taken + 1, Len(sent))
    /\ Len(got \o plain) = BytesUpTo(Taken)
    /\ \A p \in 1..Taken : sent[p] \in Bytes => (got \o plain)[BytesUpTo(p)] = sent[p]
    /\ (pc["reader"] = "end" /\ Schannel) => Len(got) = BytesUpTo(Len(sent))

(* The reader is given what the peer sent, however the network and its own *)
(* buffer cut the records, and whatever renegotiation, shutdown or other   *)
(* task waits or reads beside it, as long as no connect or accept dropped  *)
(* input that was for the reader.                                          *)
ReadsWhatWasSent == dropped = {} => ReadsInOrder

(* So it is when the connection is shut down while it is read, as          *)
(* openssl.mbt:570 asks its callers to do.  The code does not keep this on *)
(* Windows: the shutdown drops what is in the reader's buffer.             *)
ReadsAfterShutdown == dropped \subseteq {"goodbye"} => ReadsInOrder

(* As long as no flush was overtaken by another task's record or given up, *)
(* the peer gets the records the library made, once and in order, and on   *)
(* an open transport those that it has not got yet are in the buffer.      *)
Numbers(n) == [i \in 1..n |-> i]
WireIsWhole ==
    mishap = {} =>
       LET flushing == {t \in Tasks : pc[t] = "sending"}
           part == IF flushing = {} THEN 0 ELSE at[CHOOSE t \in flushing : TRUE]
       IN /\ wire = Numbers(Len(wire))
          /\ tstate = "Normal" \/ flushing # {} =>
                wire \o SubSeq(wbuf, part + 1, Len(wbuf)) = Numbers(made)

(* Nothing ends the program.  The code does not keep this: see Panic.      *)
NoPanic == setup # "aborted"

(* A record that was overtaken may be lost, but unless a flush was given   *)
(* up no record is sent twice.                                             *)
NoRecordTwice ==
    "given_up" \notin mishap => \A i, j \in DOMAIN wire : wire[i] = wire[j] => i = j \/ wire[i] = 0

(* A shutdown that returned has sent its close_notify.  The code does not  *)
(* keep this: a flush that is on its way when the record is made empties   *)
(* the buffer at its end.                                                  *)
GoodbyeIsSent ==
    \A t \in Tasks :
       /\ pc[t] = "end" /\ setup = "open" /\ goodbye # 0 /\ tstate = "Normal"
       /\ mishap \subseteq {"overtaken"}
       /\ \A u \in Tasks : pc[u] \notin {"flush", "queued", "sending"}
       => goodbye \in ToSet(wire)
=============================================================================
