------------------------------- MODULE Login -------------------------------
(***************************************************************************)
(* The link and the login that switches its modes                          *)
(* (crates/oxide-proto/src/conn.rs, frame.rs; crates/oxide-game/src/       *)
(* session.rs: run_login, login, and the play loop's reads and writes).    *)
(*                                                                         *)
(* A frame is written in the modes its sender has in force: compressed or  *)
(* plain (zip), ciphered or clear (cipher).  The stream hands it over in   *)
(* two halves, in reads of any size.  The connection deciphers what it     *)
(* reads when it reads it, ahead of the frames, and unpacks a frame when   *)
(* it takes it.  The server and the session service are external: they     *)
(* follow the order of the protocol and may end the link at any step.      *)
(***************************************************************************)
EXTENDS Integers, Sequences, SequencesExt

CONSTANTS MaxPlay \* bound: play packets of the server, and of the client

ASSUME PlayAssumption == MaxPlay \in Nat

VARIABLES
  server,    \* the server's state and modes, and whether the link is open
  service,   \* whether the session service holds the player's join
  toServer,  \* the client's frames on their way
  toClient,  \* the server's half frames on their way
  conn,      \* the connection: modes, what is read ahead, the deadline
  client,    \* where the session's thread stands
  sent,      \* every packet the server has sent
  delivered  \* every packet the client has decoded

vars == <<server, service, toServer, toClient, conn, client, sent, delivered>>
-----------------------------------------------------------------------------
Modes == [zip |-> FALSE, cipher |-> FALSE]
Frame(packet, modes) == [packet |-> packet, zip |-> modes.zip, cipher |-> modes.cipher]

NewServer == [state |-> "hello", zip |-> FALSE, cipher |-> FALSE, open |-> TRUE,
              garbled |-> FALSE, plays |-> 0]
NewConn == [zip |-> FALSE, cipher |-> FALSE, got |-> <<>>, deadline |-> FALSE]

Init ==
  /\ server = NewServer /\ service = "no join"
  /\ toServer = <<>> /\ toClient = <<>>
  /\ conn = NewConn
  /\ \E account \in BOOLEAN :
        client = [state |-> "new", why |-> "", account |-> account, plays |-> 0]
  /\ sent = <<>> /\ delivered = <<>>
-----------------------------------------------------------------------------
(* The server and the session service (external).                          *)

ServerSends(packet, s) ==
  /\ sent' = Append(sent, packet)
  /\ toClient' = toClient \o <<[frame |-> Frame(packet, server), half |-> 1],
                               [frame |-> Frame(packet, server), half |-> 2]>>
  /\ server' = s

ServerReads(packet) ==
  /\ server.open /\ toServer # <<>> /\ Head(toServer).packet = packet
  /\ toServer' = Tail(toServer)
  /\ UNCHANGED <<service, conn, client, delivered>>

HeadGarbled == Head(toServer).zip # server.zip \/ Head(toServer).cipher # server.cipher

\* An online server asks for the encryption, an offline one accepts.
ServerHello ==
  /\ ServerReads("Login Start")
  /\ \/ ServerSends("Encryption Request", [server EXCEPT !.state = "key"])
     \/ /\ server' = [server EXCEPT !.state = "accept"] /\ UNCHANGED <<toClient, sent>>

ServerKey ==
  /\ ServerReads("Encryption Response")
  /\ server' = [server EXCEPT !.state = "verify", !.garbled = @ \/ HeadGarbled,
                              !.cipher = TRUE]
  /\ UNCHANGED <<toClient, sent>>

ServerHears ==
  /\ ServerReads("Play")
  /\ server' = [server EXCEPT !.garbled = @ \/ HeadGarbled]
  /\ UNCHANGED <<toClient, sent>>

Unheard == UNCHANGED <<service, toServer, conn, client, delivered>>

\* The server asks the session service for the join.
ServerVerifies ==
  /\ server.open /\ server.state = "verify"
  /\ \/ /\ service = "joined" /\ server' = [server EXCEPT !.state = "accept"]
        /\ UNCHANGED <<toClient, sent>>
     \/ /\ service # "joined"
        /\ ServerSends("Disconnect", [server EXCEPT !.state = "refused", !.open = FALSE])
  /\ Unheard

ServerCompresses ==
  /\ server.open /\ server.state = "accept" /\ ~server.zip
  /\ ServerSends("Set Compression", [server EXCEPT !.zip = TRUE])
  /\ Unheard

ServerAccepts ==
  /\ server.open /\ server.state = "accept"
  /\ ServerSends("Login Success", [server EXCEPT !.state = "play"])
  /\ Unheard

ServerPlays ==
  /\ server.open /\ server.state = "play" /\ server.plays < MaxPlay
  /\ ServerSends("Play", [server EXCEPT !.plays = @ + 1])
  /\ Unheard

\* A kick, with its reason, in the modes of the moment; and an end without one,
\* which may cut the last frame in half.
ServerKicks ==
  /\ server.open /\ server.state # "hello"
  /\ ServerSends("Disconnect", [server EXCEPT !.open = FALSE])
  /\ Unheard

ServerCloses ==
  /\ server.open /\ server' = [server EXCEPT !.open = FALSE]
  /\ \/ UNCHANGED toClient
     \/ /\ toClient # <<>> /\ Last(toClient).half = 2 /\ toClient' = Front(toClient)
  /\ UNCHANGED sent
  /\ Unheard

Server ==
  \/ ServerHello \/ ServerKey \/ ServerHears \/ ServerVerifies
  \/ ServerCompresses \/ ServerAccepts \/ ServerPlays

Serviced ==
  /\ client.state = "joining" /\ service = "asked" /\ service' = "joined"
  /\ UNCHANGED <<server, toServer, toClient, conn, client, sent, delivered>>
-----------------------------------------------------------------------------
(* The client's ends of the link.                                          *)

Fails(why) == client' = [client EXCEPT !.state = "failed", !.why = why]
Ends == client' = [client EXCEPT !.state = "ended"]

\* Conn::send: one frame in the modes of c, one write.  On a link the server
\* has closed the write is taken and lost, or taken and answered with a reset
\* that drops what was not yet read, or refused.
Sends(packets, c, next) ==
  \/ /\ server.open
     /\ toServer' = toServer \o [i \in DOMAIN packets |-> Frame(packets[i], c)]
     /\ client' = next /\ UNCHANGED toClient
  \/ /\ ~server.open /\ client' = next /\ toClient' \in {toClient, <<>>}
     /\ UNCHANGED toServer
  \/ /\ ~server.open /\ Fails("write") /\ UNCHANGED <<toServer, toClient>>

\* run_login: the handshake and the start go out plain.
Start ==
  /\ client.state = "new"
  /\ Sends(<<"Login Start">>, conn, [client EXCEPT !.state = "login"])
  /\ UNCHANGED <<server, service, conn, sent, delivered>>

Reading == client.state \in {"login", "reading"}
Whole == Len(conn.got) >= 2

\* MUTANT of Opened: what was read ahead is left for the frames to decipher.
OpenedLater(units) == [i \in DOMAIN units |-> [unit |-> units[i], cipher |-> FALSE]]

\* What a read takes is deciphered in the cipher of the moment.
Opened(units) == [i \in DOMAIN units |-> [unit |-> units[i], cipher |-> conn.cipher]]

\* Conn::fill: one read, of any size, when what was read before is used up.
Fill ==
  /\ Reading /\ ~Whole
  /\ \E n \in 1 .. Len(toClient) :
       /\ conn' = [conn EXCEPT !.got = @ \o Opened(SubSeq(toClient, 1, n))]
       /\ toClient' = SubSeq(toClient, n + 1, Len(toClient))
  /\ UNCHANGED <<server, service, toServer, client, sent, delivered>>

\* MUTANT of StreamEnds: a frame cut short is waited for.
StreamEndsBetween ==
  /\ Reading /\ conn.got = <<>> /\ toClient = <<>> /\ ~server.open
  /\ Ends
  /\ UNCHANGED <<server, service, toServer, toClient, conn, sent, delivered>>

\* The stream ends, in the middle of a frame or not (is_stream_end).
StreamEnds ==
  /\ Reading /\ ~Whole /\ toClient = <<>> /\ ~server.open
  /\ Ends
  /\ UNCHANGED <<server, service, toServer, toClient, conn, sent, delivered>>

NextFrame == conn.got[1].unit.frame

Readable ==
  /\ conn.got[1].cipher = NextFrame.cipher /\ conn.got[2].cipher = NextFrame.cipher
  /\ conn.zip = NextFrame.zip

Taken == [conn EXCEPT !.got = SubSeq(@, 3, Len(@))]

Takes(packets) ==
  /\ Reading /\ Whole /\ Readable /\ NextFrame.packet \in packets
  /\ delivered' = Append(delivered, NextFrame.packet)
  /\ UNCHANGED <<server, toServer, toClient, sent>>

\* A frame read in another mode than it was written in: its length or its
\* packing is refused, or the reader waits for bytes that never come.
Misread ==
  /\ Reading /\ Whole /\ ~Readable
  /\ \/ Fails("frame")
     \/ client' = [client EXCEPT !.state = "lost"]
  /\ UNCHANGED <<server, service, toServer, toClient, conn, sent, delivered>>

LostEnds ==
  /\ client.state = "lost" /\ ~server.open
  /\ Ends
  /\ UNCHANGED <<server, service, toServer, toClient, conn, sent, delivered>>
-----------------------------------------------------------------------------
(* The login.                                                              *)

SetCompression ==
  /\ client.state = "login" /\ Takes({"Set Compression"})
  /\ conn' = [Taken EXCEPT !.zip = TRUE]
  /\ UNCHANGED <<service, client>>

LoginSuccess ==
  /\ client.state = "login" /\ Takes({"Login Success"})
  /\ conn' = Taken
  /\ client' = [client EXCEPT !.state = "play"]
  /\ UNCHANGED service

\* Login Disconnect, and in play Play Disconnect: the reason is reported.
Disconnect ==
  /\ Takes({"Disconnect"})
  /\ conn' = Taken
  /\ Ends
  /\ UNCHANGED service

\* The key is parsed first; without an account there is nothing to join with.
EncryptionRequest ==
  /\ client.state = "login" /\ Takes({"Encryption Request"})
  /\ conn' = Taken
  /\ IF client.account
     THEN client' = [client EXCEPT !.state = "joining"] /\ service' = "asked"
     ELSE Fails("no account") /\ UNCHANGED service

\* MUTANT of JoinAnswered: the answer does not wait for the join.
JoinUnanswered ==
  /\ client.state = "joining"
  /\ Sends(<<"Encryption Response">>, conn, [client EXCEPT !.state = "login"])
  /\ conn' = [conn EXCEPT !.cipher = TRUE]
  /\ UNCHANGED <<server, service, sent, delivered>>

\* The join has answered: the response goes out, and the ciphers are on.
JoinAnswered ==
  /\ client.state = "joining" /\ service = "joined"
  /\ Sends(<<"Encryption Response">>, conn, [client EXCEPT !.state = "login"])
  /\ conn' = [conn EXCEPT !.cipher = TRUE]
  /\ UNCHANGED <<server, service, sent, delivered>>

\* The join fails, before the service or after it: nothing is sent.
JoinFails ==
  /\ client.state = "joining"
  /\ Fails("join")
  /\ UNCHANGED <<server, service, toServer, toClient, conn, sent, delivered>>
-----------------------------------------------------------------------------
(* The play loop.                                                          *)

\* recv_or_idle: bytes read ahead are read on without a wait; a stream that is
\* readable, or over, is read without a deadline.
Wait ==
  /\ client.state = "play" /\ conn.got = <<>> /\ (toClient # <<>> \/ ~server.open)
  /\ conn' = [conn EXCEPT !.deadline = FALSE]
  /\ client' = [client EXCEPT !.state = "reading"]
  /\ UNCHANGED <<server, service, toServer, toClient, sent, delivered>>

\* MUTANT of ReadOn: the stream is waited for, whatever was read ahead.
ReadOnWaits ==
  /\ client.state = "play" /\ conn.got # <<>> /\ (toClient # <<>> \/ ~server.open)
  /\ client' = [client EXCEPT !.state = "reading"]
  /\ UNCHANGED <<server, service, toServer, toClient, conn, sent, delivered>>

ReadOn ==
  /\ client.state = "play" /\ conn.got # <<>>
  /\ client' = [client EXCEPT !.state = "reading"]
  /\ UNCHANGED <<server, service, toServer, toClient, conn, sent, delivered>>

\* The deadline of the wait passes, and stays set on the socket.
Idle ==
  /\ client.state = "play" /\ conn.got = <<>> /\ toClient = <<>> /\ server.open
  /\ ~conn.deadline
  /\ conn' = [conn EXCEPT !.deadline = TRUE]
  /\ UNCHANGED <<server, service, toServer, toClient, client, sent, delivered>>

Play ==
  /\ client.state = "reading" /\ Takes({"Play"})
  /\ conn' = Taken
  /\ client' = [client EXCEPT !.state = "play"]
  /\ UNCHANGED service

\* A tick, or an answer, writes between two frames.
Tick ==
  /\ client.state = "play" /\ client.plays < MaxPlay
  /\ Sends(<<"Play">>, conn, [client EXCEPT !.plays = @ + 1])
  /\ UNCHANGED <<server, service, conn, sent, delivered>>

Client ==
  \/ Start \/ Fill \/ StreamEnds \/ Misread \/ LostEnds
  \/ SetCompression \/ LoginSuccess \/ Disconnect \/ EncryptionRequest
  \/ JoinAnswered \/ JoinFails
  \/ Wait \/ ReadOn \/ Idle \/ Play

Next == Client \/ Tick \/ Server \/ Serviced \/ ServerKicks \/ ServerCloses

Spec == Init /\ [][Next]_vars

\* The thread keeps reading, the network delivers, and the join's request
\* either answers or fails; the server goes on with a login it was sent.
FairSpec ==
  /\ Spec /\ WF_vars(Client) /\ WF_vars(Server) /\ WF_vars(Serviced)
-----------------------------------------------------------------------------
Done == client.state \in {"ended", "failed"}

\* The type of the state.
TypeOK ==
  /\ server.state \in {"hello", "key", "verify", "accept", "play", "refused"}
  /\ service \in {"no join", "asked", "joined"}
  /\ client.state \in {"new", "login", "joining", "play", "reading", "lost", "ended", "failed"}
  /\ client.why \in {"", "write", "frame", "join", "no account"}
  /\ \A i \in DOMAIN conn.got : conn.got[i].unit.half = (IF i % 2 = 1 THEN 1 ELSE 2)
  /\ conn.zip \in BOOLEAN /\ conn.cipher \in BOOLEAN

\* A frame is unpacked and deciphered as it was packed and ciphered, however far
\* the connection has read ahead of a switch; the one frame that may not be is a
\* reason the server gave before it had the response.
FramesReadable ==
  Reading /\ Whole => Readable \/ (NextFrame.packet = "Disconnect" /\ ~NextFrame.cipher)

\* The server reads every frame of the client in the modes it was written in.
ServerReadsAll == ~server.garbled

\* A server that has the response finds the player's join at the service.
JoinedBeforeResponse == server.state # "refused"

\* What is decoded is what was sent, in that order, with no frame left out.
DeliveredInOrder == IsPrefix(delivered, sent)

\* No read runs into the deadline of a wait: a frame is never cut.
ReadsHaveNoDeadline == Reading => ~conn.deadline

\* Every packet arrives, or the session ends.
PacketsArrive ==
  \A n \in 1 .. MaxPlay + 4 : Len(sent) >= n ~> Len(delivered) >= n \/ Done

\* A login comes to play or ends.
LoginSettles == client.state = "login" ~> client.state = "play" \/ Done
-----------------------------------------------------------------------------
(* What the code says of itself and does not keep.                         *)

\* A session whose server closes the connection ends without an error
\* (session.rs:1366: "Returns Ok(()) when the server closed the connection or
\* the stream ended").
ClosedEndsQuietly == client.state = "failed" /\ ~server.open => client.why # "write"

\* What is read off the stream once the ciphers are on is ciphered
\* (conn.rs:138: "from then on every byte on the stream is encrypted, length
\* fields included").
CipheredFromThen == Reading /\ Whole /\ conn.got[1].cipher => NextFrame.cipher
=============================================================================
