------------------------------ MODULE DigProofs ------------------------------
(***************************************************************************)
(* The digs end, the crack is of the dig, and the worlds agree once all is *)
(* read: for any line, hand, hardness and number of inputs and packets.    *)
(***************************************************************************)
EXTENDS Dig, TLAPS, SequenceTheorems, WellFoundedInduction

-----------------------------------------------------------------------------
(* The invariant.                                                          *)

\* What stands in a cell of the session, loaded or not.
Stands == Kinds \cup {"void"}

PacketKinds == {"start", "finish", "abort", "place"}
Hows == {"slow", "instant", "creative", "unopened"}

ServerPackets == [kind : PacketKinds, cell : Cells, how : Hows]

Digs == [hitting : BOOLEAN, target : SUBSET Cells, progress : Nat, delay : Nat]

Cracks == [by : Nat, cell : Cells]

Hands ==
  [cells : [Cells -> Stands], mode : Modes, dead : BOOLEAN, looks : BOOLEAN,
   held : BOOLEAN, left : Nat, right : Nat, dig : Digs, crack : SUBSET Cracks,
   open : SUBSET Cells, sent : Seq(ServerPackets), id : Nat]

ClientPackets ==
  [kind : {"change"}, cell : Cells, block : Kinds]
    \cup [kind : {"chunk"}, cells : [Cells -> Kinds]]
    \cup [kind : {"mode"}, mode : Modes] \cup [kind : {"health"}]
    \cup [kind : {"respawn"}, rebuilds : BOOLEAN, mode : Modes]
    \cup [kind : {"join"}, mode : Modes]

TypeOK ==
  /\ client \in Hands /\ client.sent = <<>>
  /\ server \in [cells : [Cells -> Kinds], mode : Modes, alive : BOOLEAN]
  /\ toServer \in Seq(ServerPackets) /\ toClient \in Seq(ClientPackets)
  /\ ghosts \subseteq Cells

\* A running dig is of one cell, the only one the server may have open and the
\* only one that shows the player's crack; no crack is of a name to come.
DigOK(p) ==
  /\ p.dig.hitting => \E t \in Cells : p.dig.target = {t}
  /\ p.open \subseteq IF p.dig.hitting THEN p.dig.target ELSE {}
  /\ \A e \in p.crack : e.by = p.id => p.dig.hitting /\ p.dig.target = {e.cell}
  /\ \A e \in p.crack : e.by <= p.id

\* A packet the server answers with what stands in c, or makes c a ghost; k is
\* what the server has there.
Sure(packet, c, k) ==
  \/ packet.kind = "place" /\ c \in {packet.cell - 1, packet.cell}
  \/ packet.kind = "finish" /\ packet.cell = c
  \/ packet.kind = "start" /\ packet.cell = c
     /\ (packet.how = "creative" \/ (packet.how = "instant" /\ k = "plant"))

Assured(packets, c, k) == \E i \in DOMAIN packets : Sure(packets[i], c, k)

\* A packet that tells what stands in c, and what it tells.
Tells(packet, c) ==
  packet.kind = "chunk" \/ (packet.kind = "change" /\ packet.cell = c)

Told(packet, c) == IF packet.kind = "chunk" THEN packet.cells[c] ELSE packet.block

Silent(packets, c) == \A j \in DOMAIN packets : ~Tells(packets[j], c)

\* The last of the packets that tells of c tells v.
LastTells(packets, c, v) ==
  \E i \in DOMAIN packets :
    /\ Tells(packets[i], c) /\ Told(packets[i], c) = v
    /\ \A j \in DOMAIN packets : j > i => ~Tells(packets[j], c)

\* A cell that holds k now holds v once the packets are read.
Shows(k, packets, c, v) == (k = v /\ Silent(packets, c)) \/ LastTells(packets, c, v)

\* A world that goes has its chunk right behind.
Unloads(packet) == packet.kind = "join" \/ (packet.kind = "respawn" /\ packet.rebuilds)

Reloads ==
  /\ \A i \in DOMAIN toClient :
       Unloads(toClient[i]) => i + 1 \in DOMAIN toClient /\ toClient[i + 1].kind = "chunk"
  /\ (\E c \in Cells : client.cells[c] = "void")
       => 1 \in DOMAIN toClient /\ toClient[1].kind = "chunk"

Agrees(c) ==
  \/ Shows(client.cells[c], toClient, c, server.cells[c])
  \/ Assured(toServer, c, server.cells[c])

IInv ==
  /\ TypeOK /\ DigOK(client) /\ Reloads
  /\ \A c \in Cells \ ghosts : Agrees(c)

-----------------------------------------------------------------------------
(* Folds.                                                                  *)

\* Induction over the numbers, for a set.
LEMMA Induct ==
  ASSUME NEW S, 0 \in S, \A n \in Nat : n \in S => n + 1 \in S
  PROVE  Nat \subseteq S
<1> DEFINE U == Nat \ S
           R == OpToRel(<, Nat)
<1>1. SUFFICES ASSUME NEW n \in U PROVE FALSE
  OBVIOUS
<1>2. \A x, y \in Nat : <<y, x>> \in R <=> y < x
  BY DEF OpToRel
<1>3. IsWellFoundedOn(R, Nat)
  BY NatLessThanWellFounded
<1> HIDE DEF R
<1>4. PICK m \in U : \A k \in U : ~ (<<k, m>> \in R)
  BY <1>3, WFMin
<1>5. \A k \in Nat : k < m => k \in S
  BY <1>2, <1>4
<1>6. m # 0 => m - 1 \in Nat /\ m - 1 < m /\ m = (m - 1) + 1
  OBVIOUS
<1> QED
  BY <1>5, <1>6

\* A step of D for each of the first N numbers, and a run of them from w on.
Steps(G, D, N) == G \in [1 .. N -> [D -> D]]

IsRun(f, G, D, N, w) ==
  f \in [0 .. N -> D] /\ f[0] = w /\ \A n \in 1 .. N : f[n] = G[n][f[n - 1]]

LEMMA RunExists ==
  ASSUME NEW D, NEW N \in Nat, NEW G, Steps(G, D, N), NEW w \in D
  PROVE  \E f : IsRun(f, G, D, N, w)
<1> USE DEF Steps
<1> DEFINE Upto(f, k) ==
             /\ f \in [0 .. k -> D] /\ f[0] = w
             /\ \A n \in 1 .. k : f[n] = G[n][f[n - 1]]
           S == {k \in Nat : k <= N => \E f : Upto(f, k)}
<1>1. 0 \in S
  <2> DEFINE f == [n \in 0 .. 0 |-> w]
  <2>1. f \in [0 .. 0 -> D] /\ f[0] = w /\ 1 .. 0 = {}
    OBVIOUS
  <2> QED
    BY <2>1
<1>2. ASSUME NEW k \in Nat, k \in S PROVE k + 1 \in S
  <2>1. SUFFICES ASSUME k + 1 <= N PROVE \E f : Upto(f, k + 1)
    OBVIOUS
  <2>2. PICK f : Upto(f, k)
    BY <1>2, <2>1
  <2>3. PICK last : last = G[k + 1][f[k]]
    OBVIOUS
  <2>4. last \in D
    <3>1. f[k] \in D /\ k + 1 \in 1 .. N
      BY <2>1, <2>2
    <3> QED
      BY <2>3, <3>1
  <2>5. PICK g : g = [n \in 0 .. k + 1 |-> IF n = k + 1 THEN last ELSE f[n]]
    OBVIOUS
  <2>6. g \in [0 .. k + 1 -> D]
    <3>1. ASSUME NEW n \in 0 .. k + 1
          PROVE  (IF n = k + 1 THEN last ELSE f[n]) \in D
      <4>1. n # k + 1 => n \in 0 .. k
        OBVIOUS
      <4> QED
        BY <2>2, <2>4, <4>1
    <3> QED
      BY <2>5, <3>1
  <2>7. g[0] = w
    <3>1. 0 \in 0 .. k + 1 /\ 0 # k + 1
      OBVIOUS
    <3> QED
      BY <2>2, <2>5, <3>1
  <2>8. ASSUME NEW n \in 1 .. k + 1 PROVE g[n] = G[n][g[n - 1]]
    <3>1. n \in 0 .. k + 1 /\ n - 1 \in 0 .. k + 1 /\ n - 1 # k + 1
      OBVIOUS
    <3>2. g[n - 1] = f[n - 1]
      BY <2>5, <3>1
    <3>3. CASE n = k + 1
      BY <2>3, <2>5, <3>1, <3>2, <3>3
    <3>4. CASE n # k + 1
      <4>1. n \in 1 .. k
        BY <3>4
      <4> QED
        BY <2>2, <2>5, <3>1, <3>2, <3>4, <4>1
    <3> QED
      BY <3>3, <3>4
  <2> QED
    BY <2>6, <2>7, <2>8
<1>3. N \in S
  <2>1. Nat \subseteq S
    <3> HIDE DEF S
    <3> QED
      BY <1>1, <1>2, Induct
  <2> QED
    BY <2>1
<1> QED
  BY <1>3 DEF IsRun

-----------------------------------------------------------------------------
(* What the dig machine does to the session.                               *)

Packet(kind, how, c) == [kind |-> kind, cell |-> c, how |-> how]

LEMMA PacketIs ==
  ASSUME NEW kind \in PacketKinds, NEW how \in Hows, NEW c \in Cells
  PROVE  /\ Packet(kind, how, c) \in ServerPackets
         /\ Packet(kind, how, c).kind = kind /\ Packet(kind, how, c).how = how
         /\ Packet(kind, how, c).cell = c
BY DEF Packet, ServerPackets

LEMMA SentIs ==
  ASSUME NEW p \in Hands, NEW kind \in PacketKinds, NEW how \in Hows, NEW c \in Cells
  PROVE  LET r == Sent(p, kind, how, c)
         IN  /\ r \in Hands /\ r.cells = p.cells /\ r.dig = p.dig /\ r.crack = p.crack
             /\ r.open = p.open /\ r.id = p.id /\ r.right = p.right
             /\ r.sent = Append(p.sent, Packet(kind, how, c))
<1>1. PICK sent \in Seq(ServerPackets) : sent = Append(p.sent, Packet(kind, how, c))
  <2>1. Packet(kind, how, c) \in ServerPackets
    BY PacketIs
  <2>2. p.sent \in Seq(ServerPackets)
    BY DEF Hands
  <2>3. Append(p.sent, Packet(kind, how, c)) \in Seq(ServerPackets)
    BY <2>1, <2>2
  <2> QED
    BY <2>3, Zenon
<1>2. Sent(p, kind, how, c) = [p EXCEPT !.sent = sent]
  BY <1>1 DEF Sent, Packet
<1>3. PICK r : r = [p EXCEPT !.sent = sent]
  OBVIOUS
<1>4. /\ r \in Hands /\ r.cells = p.cells /\ r.dig = p.dig /\ r.crack = p.crack
      /\ r.open = p.open /\ r.id = p.id /\ r.sent = sent /\ r.right = p.right
  BY <1>3 DEF Hands
<1> QED
  BY <1>1, <1>2, <1>3, <1>4

LEMMA WrittenIs ==
  ASSUME NEW p \in Hands, NEW c \in Cells, NEW k \in Kinds
  PROVE  LET r == Written(p, c, k)
         IN  /\ r \in Hands /\ r.dig = p.dig /\ r.crack = p.crack
             /\ r.open = p.open /\ r.id = p.id /\ r.sent = p.sent /\ r.right = p.right
             /\ r.cells[c] = IF p.cells[c] = "void" THEN "void" ELSE k
             /\ \A d \in Cells : d # c => r.cells[d] = p.cells[d]
<1>1. PICK cells : cells = [p.cells EXCEPT ![c] = IF @ = "void" THEN @ ELSE k]
  OBVIOUS
<1>2. p.cells \in [Cells -> Stands]
  BY DEF Hands
<1>3. /\ cells \in [Cells -> Stands] /\ \A d \in Cells : d # c => cells[d] = p.cells[d]
      /\ cells[c] = IF p.cells[c] = "void" THEN "void" ELSE k
  BY <1>1, <1>2 DEF Stands
<1>4. PICK r : r = [p EXCEPT !.cells = cells]
  OBVIOUS
<1>5. Written(p, c, k) = r
  BY <1>1, <1>4 DEF Written, Hands
<1>6. /\ r \in Hands /\ r.dig = p.dig /\ r.crack = p.crack /\ r.cells = cells
      /\ r.open = p.open /\ r.id = p.id /\ r.sent = p.sent /\ r.right = p.right
  BY <1>3, <1>4 DEF Hands
<1> QED
  BY <1>3, <1>5, <1>6

LEMMA StageIs ==
  ASSUME NEW p \in Hands, NEW c \in Cells, NEW index, client.id \in Nat
  PROVE  LET r == Stage(p, c, index)
         IN  /\ r \in Hands /\ r.cells = p.cells /\ r.dig = p.dig
             /\ r.open = p.open /\ r.id = p.id /\ r.sent = p.sent /\ r.right = p.right
             /\ \A e \in r.crack : e.by = client.id => ~(index < 0) /\ e.cell = c
             /\ \A e \in r.crack : e.by # client.id => e \in p.crack
<1>1. PICK crack : crack = {e \in p.crack : e.by # client.id}
                             \cup IF index < 0 THEN {} ELSE {[by |-> client.id, cell |-> c]}
  OBVIOUS
<1>2. crack \in SUBSET Cracks
  <2>1. [by |-> client.id, cell |-> c] \in Cracks
    BY DEF Cracks
  <2> QED
    BY <1>1, <2>1 DEF Hands
<1>3. PICK r : r = [p EXCEPT !.crack = crack]
  OBVIOUS
<1>4. Stage(p, c, index) = r
  BY <1>1, <1>3 DEF Stage, Hands
<1>5. /\ r \in Hands /\ r.cells = p.cells /\ r.dig = p.dig /\ r.right = p.right
      /\ r.open = p.open /\ r.id = p.id /\ r.sent = p.sent /\ r.crack = crack
  BY <1>2, <1>3 DEF Hands
<1>6. ASSUME NEW e \in crack, e.by = client.id PROVE ~(index < 0) /\ e.cell = c
  BY <1>1, <1>6
<1>7. ASSUME NEW e \in crack, e.by # client.id PROVE e \in p.crack
  BY <1>1, <1>7
<1> QED
  BY <1>4, <1>5, <1>6, <1>7

LEMMA StartIs ==
  ASSUME NEW p \in Hands, NEW how \in {"slow", "instant", "creative"}, NEW c \in Cells
  PROVE  LET r == Start(p, c, how)
         IN  /\ r \in Hands /\ r.cells = p.cells /\ r.dig = p.dig /\ r.crack = p.crack
             /\ r.id = p.id /\ r.right = p.right
             /\ r.sent = Append(p.sent, Packet("start", how, c))
             /\ r.open = IF how = "slow" THEN {c} ELSE p.open
<1>1. PICK s \in Hands : /\ s = Sent(p, "start", how, c) /\ s.cells = p.cells
                         /\ s.dig = p.dig /\ s.crack = p.crack /\ s.open = p.open
                         /\ s.id = p.id /\ s.sent = Append(p.sent, Packet("start", how, c))
                         /\ s.right = p.right
  <2>1. how \in Hows /\ "start" \in PacketKinds
    BY DEF Hows, PacketKinds
  <2>2. PICK s : s = Sent(p, "start", how, c)
    OBVIOUS
  <2>3. /\ s \in Hands /\ s.cells = p.cells
        /\ s.dig = p.dig /\ s.crack = p.crack /\ s.open = p.open
        /\ s.id = p.id /\ s.sent = Append(p.sent, Packet("start", how, c))
        /\ s.right = p.right
    BY <2>1, <2>2, SentIs
  <2> QED
    BY <2>2, <2>3
<1>2. PICK open \in SUBSET Cells : open = IF how = "slow" THEN {c} ELSE p.open
  BY DEF Hands
<1>3. PICK r : r = [s EXCEPT !.open = open]
  OBVIOUS
<1>4. Start(p, c, how) = r
  BY <1>1, <1>2, <1>3 DEF Start, Hands
<1>5. /\ r \in Hands /\ r.cells = s.cells /\ r.dig = s.dig /\ r.crack = s.crack
      /\ r.id = s.id /\ r.sent = s.sent /\ r.open = open /\ r.right = s.right
  BY <1>3 DEF Hands
<1> QED
  BY <1>1, <1>2, <1>4, <1>5

LEMMA FinishIs ==
  ASSUME NEW p \in Hands, NEW c \in Cells
  PROVE  LET r == Finish(p, c)
         IN  /\ r \in Hands /\ r.cells = p.cells /\ r.dig = p.dig /\ r.crack = p.crack
             /\ r.id = p.id /\ r.open = p.open \ {c} /\ r.right = p.right
             /\ \E how \in {"slow", "unopened"} :
                  r.sent = Append(p.sent, Packet("finish", how, c))
<1>1. PICK how \in {"slow", "unopened"} : how = IF c \in p.open THEN "slow" ELSE "unopened"
  OBVIOUS
<1>2. PICK s \in Hands : /\ s = Sent(p, "finish", how, c) /\ s.cells = p.cells
                         /\ s.dig = p.dig /\ s.crack = p.crack /\ s.open = p.open
                         /\ s.id = p.id /\ s.sent = Append(p.sent, Packet("finish", how, c))
                         /\ s.right = p.right
  BY <1>1, SentIs DEF Hows, PacketKinds
<1>3. PICK open \in SUBSET Cells : open = s.open \ {c}
  BY DEF Hands
<1>4. PICK r : r = [s EXCEPT !.open = open]
  OBVIOUS
<1>5. Finish(p, c) = r
  BY <1>1, <1>2, <1>3, <1>4 DEF Finish, Hands
<1>6. /\ r \in Hands /\ r.cells = s.cells /\ r.dig = s.dig /\ r.crack = s.crack
      /\ r.id = s.id /\ r.sent = s.sent /\ r.open = open /\ r.right = s.right
  BY <1>4 DEF Hands
<1> QED
  BY <1>1, <1>2, <1>3, <1>5, <1>6

LEMMA AbortIs ==
  ASSUME NEW p \in Hands, NEW c \in Cells, client.id \in Nat
  PROVE  LET r == Abort(p, c)
         IN  /\ r \in Hands /\ r.cells = p.cells /\ r.dig = p.dig /\ r.id = p.id
             /\ r.open = p.open \ {c} /\ r.right = p.right
             /\ r.sent = Append(p.sent, Packet("abort", "slow", c))
             /\ \A e \in r.crack : e.by # client.id /\ e \in p.crack
<1>1. PICK s \in Hands : /\ s = Sent(p, "abort", "slow", c) /\ s.cells = p.cells
                         /\ s.dig = p.dig /\ s.crack = p.crack /\ s.open = p.open
                         /\ s.id = p.id /\ s.sent = Append(p.sent, Packet("abort", "slow", c))
                         /\ s.right = p.right
  BY SentIs DEF Hows, PacketKinds
<1>2. PICK open \in SUBSET Cells : open = s.open \ {c}
  BY DEF Hands
<1>3. PICK t : t = [s EXCEPT !.open = open]
  OBVIOUS
<1>4. /\ t \in Hands /\ t.cells = s.cells /\ t.dig = s.dig /\ t.crack = s.crack
      /\ t.id = s.id /\ t.sent = s.sent /\ t.open = open /\ t.right = s.right
  BY <1>3 DEF Hands
<1>5. Abort(p, c) = Stage(t, c, -1)
  BY <1>1, <1>2, <1>3 DEF Abort, Hands
<1>6. -1 < 0
  OBVIOUS
<1> QED
  BY <1>1, <1>2, <1>4, <1>5, <1>6, StageIs

-----------------------------------------------------------------------------
(* What a tick may leave.                                                  *)

\* The session has moved on to p within a tick: a cell it changed is one the
\* server will answer for, and no cell is loaded or unloaded.
Moved(p) ==
  /\ p \in Hands /\ p.id = client.id
  /\ \A c \in Cells :
       /\ p.cells[c] = client.cells[c] \/ Assured(p.sent, c, client.cells[c])
       /\ p.cells[c] = "void" => client.cells[c] = "void"

Good(p) == Moved(p) /\ DigOK(p)

LEMMA AssuredAppend ==
  ASSUME NEW S, NEW sent \in Seq(S), NEW x \in S, NEW c, NEW k
  PROVE  /\ Assured(sent, c, k) => Assured(Append(sent, x), c, k)
         /\ Sure(x, c, k) => Assured(Append(sent, x), c, k)
<1>1. PICK more : more = Append(sent, x)
  OBVIOUS
<1>2. PICK N \in Nat : N = Len(sent)
  OBVIOUS
<1>3. /\ DOMAIN more = 1 .. N + 1 /\ more[N + 1] = x /\ DOMAIN sent = 1 .. N
      /\ \A n \in 1 .. N : more[n] = sent[n]
  BY <1>1, <1>2
<1>4. \A n \in 1 .. N : n \in 1 .. N + 1
  OBVIOUS
<1>5. Assured(sent, c, k) => Assured(more, c, k)
  BY <1>3, <1>4 DEF Assured
<1>6. Sure(x, c, k) => Assured(more, c, k)
  <2>1. N + 1 \in 1 .. N + 1
    OBVIOUS
  <2> QED
    BY <1>3, <2>1 DEF Assured
<1> QED
  BY <1>1, <1>5, <1>6

\* A packet more.
LEMMA MovedSends ==
  ASSUME NEW p, Moved(p), NEW r \in Hands, r.cells = p.cells, r.id = p.id,
         NEW x \in ServerPackets, r.sent = Append(p.sent, x)
  PROVE  Moved(r)
<1>1. p.sent \in Seq(ServerPackets)
  BY DEF Moved, Hands
<1>2. \A c \in Cells : Assured(p.sent, c, client.cells[c]) => Assured(r.sent, c, client.cells[c])
  BY <1>1, AssuredAppend
<1> QED
  BY <1>2 DEF Moved

\* A cell more.
LEMMA MovedWrites ==
  ASSUME NEW p, Moved(p), NEW c \in Cells, NEW k \in {"air", "stone"},
         p.cells[c] = k \/ Assured(p.sent, c, client.cells[c])
  PROVE  Moved(Written(p, c, k))
<1>1. PICK r : r = Written(p, c, k)
  OBVIOUS
<1>2. k \in Kinds /\ k # "void" /\ p \in Hands
  BY DEF Kinds, Moved
<1>3. /\ r \in Hands /\ r.id = p.id /\ r.sent = p.sent
      /\ r.cells[c] = IF p.cells[c] = "void" THEN "void" ELSE k
      /\ \A d \in Cells : d # c => r.cells[d] = p.cells[d]
  BY <1>1, <1>2, WrittenIs
<1>4. ASSUME NEW d \in Cells
      PROVE  /\ r.cells[d] = client.cells[d] \/ Assured(r.sent, d, client.cells[d])
             /\ r.cells[d] = "void" => client.cells[d] = "void"
  <2>1. /\ p.cells[d] = client.cells[d] \/ Assured(p.sent, d, client.cells[d])
        /\ p.cells[d] = "void" => client.cells[d] = "void"
    BY DEF Moved
  <2>2. CASE d # c
    BY <1>3, <2>1, <2>2
  <2>3. CASE d = c
    BY <1>2, <1>3, <2>1, <2>3
  <2> QED
    BY <2>2, <2>3
<1> QED
  BY <1>1, <1>3, <1>4 DEF Moved

LEMMA MovedStays ==
  ASSUME NEW p, Moved(p), NEW r \in Hands, r.cells = p.cells, r.id = p.id, r.sent = p.sent
  PROVE  Moved(r)
BY DEF Moved

\* The block at the aim, read before the clicks, is the server's as far as the
\* session knows, or one it will hear of.
Fits(p, a) ==
  /\ a.cell \in Cells /\ a.block \in Stands /\ client.cells[a.cell] # "air"
  /\ \/ a.block = client.cells[a.cell]
     \/ Assured(p.sent, a.cell, client.cells[a.cell])

\* A start that breaks at once, or a finish, and the removal.
LEMMA StartDestroys ==
  ASSUME NEW p, Moved(p), NEW a, Fits(p, a), NEW how \in {"instant", "creative"},
         how = "instant" => Instant(a)
  PROVE  LET r == Destroy(Start(p, a.cell, how), a.cell)
         IN  /\ Moved(r) /\ r.dig = p.dig /\ r.crack = p.crack /\ r.open = p.open
             /\ r.id = p.id /\ r.right = p.right /\ Fits(r, a)
<1>1. PICK c \in Cells : c = a.cell
  BY DEF Fits
<1>2. PICK s : s = Start(p, c, how)
  OBVIOUS
<1>3. PICK x \in ServerPackets : /\ x = Packet("start", how, c)
                                 /\ x.kind = "start" /\ x.how = how /\ x.cell = c
  <2>1. how \in Hows /\ "start" \in PacketKinds
    BY DEF Hows, PacketKinds
  <2> QED
    BY <2>1, PacketIs
<1>4. /\ s \in Hands /\ s.cells = p.cells /\ s.dig = p.dig /\ s.crack = p.crack
      /\ s.id = p.id /\ s.sent = Append(p.sent, x) /\ s.open = p.open /\ s.right = p.right
  <2>1. p \in Hands /\ how \in {"slow", "instant", "creative"} /\ how # "slow"
    BY DEF Moved
  <2> QED
    BY <1>2, <1>3, <2>1, StartIs
<1>5. Moved(s)
  BY <1>4, MovedSends
<1>6. p.sent \in Seq(ServerPackets)
  BY DEF Moved, Hands
<1>7. Assured(s.sent, c, client.cells[c])
  <2>1. CASE how = "creative"
    <3>1. Sure(x, c, client.cells[c])
      BY <1>3, <2>1 DEF Sure
    <3> QED
      BY <1>4, <1>6, <3>1, AssuredAppend
  <2>2. CASE how = "instant" /\ a.block = client.cells[c]
    <3>1. client.cells[c] = "plant"
      BY <1>1, <2>2 DEF Instant, Fits
    <3>2. Sure(x, c, client.cells[c])
      BY <1>3, <2>2, <3>1 DEF Sure
    <3> QED
      BY <1>4, <1>6, <3>2, AssuredAppend
  <2>3. CASE Assured(p.sent, c, client.cells[c])
    BY <1>4, <1>6, <2>3, AssuredAppend
  <2> QED
    BY <1>1, <2>1, <2>2, <2>3 DEF Fits
<1>8. PICK r : r = Written(s, c, "air")
  OBVIOUS
<1>9. Moved(r)
  BY <1>5, <1>7, <1>8, MovedWrites
<1>10. /\ r.dig = s.dig /\ r.crack = s.crack /\ r.open = s.open /\ r.id = s.id
       /\ r.sent = s.sent /\ r.right = s.right
  <2>1. "air" \in Kinds
    BY DEF Kinds
  <2> QED
    BY <1>4, <1>8, <2>1, WrittenIs
<1>11. Fits(r, a)
  BY <1>1, <1>7, <1>10 DEF Fits
<1> QED
  BY <1>1, <1>2, <1>4, <1>8, <1>9, <1>10, <1>11 DEF Destroy

\* A dig given up.
LEMMA AbortMoves ==
  ASSUME NEW p, Good(p), p.dig.hitting, NEW c, c = CHOOSE t \in p.dig.target : TRUE,
         client.id \in Nat
  PROVE  LET r == Abort(p, c)
         IN  /\ Moved(r) /\ r.dig = p.dig /\ r.open = {} /\ r.id = p.id /\ r.right = p.right
             /\ \A e \in r.crack : e.by # client.id /\ e \in p.crack
             /\ \A a : Fits(p, a) => Fits(r, a)
             /\ c \in Cells
<1>1. PICK t \in Cells : p.dig.target = {t}
  BY DEF Good, DigOK
<1>2. c = t /\ p.open \subseteq {t} /\ p \in Hands
  BY <1>1 DEF Good, DigOK, Moved
<1>3. PICK r : r = Abort(p, c)
  OBVIOUS
<1>4. PICK x \in ServerPackets : x = Packet("abort", "slow", c)
  <2>1. "slow" \in Hows /\ "abort" \in PacketKinds
    BY DEF Hows, PacketKinds
  <2>2. Packet("abort", "slow", c) \in ServerPackets
    BY <1>2, <2>1, PacketIs
  <2> QED
    BY <2>2, Zenon
<1>5. /\ r \in Hands /\ r.cells = p.cells /\ r.dig = p.dig /\ r.id = p.id
      /\ r.open = p.open \ {c} /\ r.right = p.right /\ r.sent = Append(p.sent, x)
      /\ \A e \in r.crack : e.by # client.id /\ e \in p.crack
  BY <1>2, <1>3, <1>4, AbortIs
<1>6. Moved(r)
  BY <1>5, MovedSends DEF Good
<1>7. p.sent \in Seq(ServerPackets)
  BY <1>2 DEF Hands
<1>8. \A a : Fits(p, a) => Fits(r, a)
  BY <1>5, <1>7, AssuredAppend DEF Fits
<1> QED
  BY <1>2, <1>3, <1>5, <1>6, <1>8

\* A change of the machine's own record.
LEMMA DigIs ==
  ASSUME NEW p \in Hands, NEW dig \in Digs
  PROVE  LET r == [p EXCEPT !.dig = dig]
         IN  /\ r \in Hands /\ r.dig = dig /\ r.cells = p.cells /\ r.crack = p.crack
             /\ r.open = p.open /\ r.id = p.id /\ r.sent = p.sent /\ r.right = p.right
BY DEF Hands

\* A session whose own crack and open dig are gone is good whatever it digs, if
\* it digs one cell.
LEMMA ClearIsGood ==
  ASSUME NEW p, Moved(p), p.open = {}, \A e \in p.crack : e.by # p.id /\ e.by <= p.id,
         p.dig.hitting => \E t \in Cells : p.dig.target = {t}
  PROVE  Good(p)
BY DEF Good, DigOK

LEMMA ResetIs ==
  ASSUME NEW p \in Hands, DigOK(p), p.id = client.id
  PROVE  LET r == Reset(p)
         IN  /\ r \in Hands /\ DigOK(r) /\ r.cells = p.cells /\ r.id = p.id
             /\ \/ r.sent = p.sent
                \/ \E x \in ServerPackets : r.sent = Append(p.sent, x)
<1>1. CASE ~p.dig.hitting
  BY <1>1 DEF Reset
<1>2. CASE p.dig.hitting
  <2>1. PICK c : c = CHOOSE t \in p.dig.target : TRUE
    OBVIOUS
  <2>2. c \in Cells /\ p.dig.target = {c} /\ p.open \subseteq {c}
    BY <1>2, <2>1 DEF DigOK
  <2>3. client.id \in Nat
    BY DEF Hands
  <2>4. PICK s : s = Abort(p, c)
    OBVIOUS
  <2>5. PICK x \in ServerPackets : x = Packet("abort", "slow", c)
    <3>1. "slow" \in Hows /\ "abort" \in PacketKinds
      BY DEF Hows, PacketKinds
    <3>2. Packet("abort", "slow", c) \in ServerPackets
      BY <2>2, <3>1, PacketIs
    <3> QED
      BY <3>2, Zenon
  <2>6. /\ s \in Hands /\ s.cells = p.cells /\ s.dig = p.dig /\ s.id = p.id
        /\ s.open = p.open \ {c} /\ s.sent = Append(p.sent, x)
        /\ \A e \in s.crack : e.by # client.id /\ e \in p.crack
    BY <2>2, <2>3, <2>4, <2>5, AbortIs
  <2>7. s.dig \in Digs
    BY <2>6 DEF Hands
  <2>8. PICK dig : dig = [s.dig EXCEPT !.hitting = FALSE, !.target = {}, !.progress = 0]
    OBVIOUS
  <2>9. dig \in Digs /\ dig.hitting = FALSE
    BY <2>7, <2>8 DEF Digs
  <2>10. PICK u : u = [s EXCEPT !.dig = dig]
    OBVIOUS
  <2>11. /\ u \in Hands /\ u.dig = dig /\ u.cells = s.cells /\ u.crack = s.crack
         /\ u.open = s.open /\ u.id = s.id /\ u.sent = s.sent
    BY <2>6, <2>9, <2>10, DigIs
  <2>12. Reset(p) = Stage(u, c, -1)
    <3>1. u = [s EXCEPT !.dig.hitting = FALSE, !.dig.target = {}, !.dig.progress = 0]
      BY <2>6, <2>7, <2>8, <2>10 DEF Hands, Digs
    <3> QED
      BY <1>2, <2>1, <2>4, <3>1 DEF Reset
  <2>13. PICK r : r = Stage(u, c, -1)
    OBVIOUS
  <2>14. /\ r \in Hands /\ r.cells = u.cells /\ r.dig = u.dig /\ r.open = u.open
         /\ r.id = u.id /\ r.sent = u.sent
         /\ \A e \in r.crack : e.by # client.id /\ e \in u.crack
    <3>1. -1 < 0
      OBVIOUS
    <3> QED
      BY <2>2, <2>3, <2>11, <2>13, <3>1, StageIs
  <2>15. r.open = {} /\ r.dig.hitting = FALSE
    BY <2>2, <2>6, <2>9, <2>11, <2>14
  <2>16. \A e \in r.crack : e.by # r.id /\ e.by <= r.id
    BY <2>6, <2>11, <2>14 DEF DigOK
  <2>17. DigOK(r)
    BY <2>15, <2>16 DEF DigOK
  <2> QED
    BY <2>6, <2>11, <2>12, <2>13, <2>14, <2>17
<1>3. p.dig.hitting \in BOOLEAN
  BY DEF Hands, Digs
<1> QED
  BY <1>1, <1>2, <1>3

LEMMA ResetKeeps ==
  ASSUME NEW p, Good(p)
  PROVE  Good(Reset(p))
<1>1. p \in Hands /\ DigOK(p) /\ p.id = client.id
  BY DEF Good, Moved
<1>2. PICK r : r = Reset(p)
  OBVIOUS
<1>3. /\ r \in Hands /\ DigOK(r) /\ r.cells = p.cells /\ r.id = p.id
      /\ \/ r.sent = p.sent
         \/ \E x \in ServerPackets : r.sent = Append(p.sent, x)
  BY <1>1, <1>2, ResetIs
<1>4. Moved(r)
  BY <1>3, MovedSends, MovedStays DEF Good
<1> QED
  BY <1>2, <1>3, <1>4 DEF Good

\* A dig machine and a session, apart.
LEMMA StageGood ==
  ASSUME NEW p, Moved(p), NEW c \in Cells, NEW index, client.id \in Nat,
         p.open \subseteq {c}, \A e \in p.crack : e.by <= p.id,
         \/ p.dig.hitting /\ p.dig.target = {c}
         \/ ~p.dig.hitting /\ index < 0 /\ p.open = {}
  PROVE  Good(Stage(p, c, index)) /\ Stage(p, c, index).sent = p.sent
<1>1. p \in Hands /\ p.id = client.id
  BY DEF Moved
<1>2. PICK r : r = Stage(p, c, index)
  OBVIOUS
<1>3. /\ r \in Hands /\ r.cells = p.cells /\ r.dig = p.dig
      /\ r.open = p.open /\ r.id = p.id /\ r.sent = p.sent
      /\ \A e \in r.crack : e.by = client.id => ~(index < 0) /\ e.cell = c
      /\ \A e \in r.crack : e.by # client.id => e \in p.crack
  BY <1>1, <1>2, StageIs
<1>4. Moved(r)
  BY <1>3, MovedStays
<1>5. DigOK(r)
  <2>1. \A e \in r.crack : e.by <= r.id
    BY <1>1, <1>3
  <2> QED
    BY <1>1, <1>3, <2>1 DEF DigOK
<1> QED
  BY <1>2, <1>3, <1>4, <1>5 DEF Good

LEMMA ClickKeeps ==
  ASSUME NEW p, Good(p), NEW a, Fits(p, a), client.id \in Nat, HitDelay \in Nat
  PROVE  Good(ClickBlock(p, a)) /\ Fits(ClickBlock(p, a), a)
<1>1. PICK c \in Cells : c = a.cell
  BY DEF Fits
<1>2. p \in Hands /\ p.id = client.id /\ p.dig \in Digs /\ p.dig.hitting \in BOOLEAN
  BY DEF Good, Moved, Hands, Digs
<1>3. CASE p.mode = "creative"
  <2>1. PICK s : s = Destroy(Start(p, c, "creative"), c)
    OBVIOUS
  <2>2. /\ Moved(s) /\ s.dig = p.dig /\ s.crack = p.crack /\ s.open = p.open
        /\ s.id = p.id /\ Fits(s, a)
    BY <1>1, <2>1, StartDestroys DEF Good
  <2>3. PICK dig \in Digs : dig = [s.dig EXCEPT !.delay = HitDelay]
    BY <1>2, <2>2 DEF Digs
  <2>4. PICK r : r = [s EXCEPT !.dig = dig]
    OBVIOUS
  <2>5. /\ r \in Hands /\ r.dig = dig /\ r.cells = s.cells /\ r.crack = s.crack
        /\ r.open = s.open /\ r.id = s.id /\ r.sent = s.sent
    BY <2>2, <2>4, DigIs DEF Moved
  <2>6. Moved(r)
    BY <2>2, <2>5, MovedStays
  <2>7. dig.hitting = p.dig.hitting /\ dig.target = p.dig.target
    BY <1>2, <2>2, <2>3 DEF Digs
  <2>8. DigOK(r)
    BY <2>2, <2>5, <2>7 DEF Good, DigOK
  <2>9. Fits(r, a)
    BY <2>2, <2>5 DEF Fits
  <2>10. ClickBlock(p, a) = r
    <3>1. r = [s EXCEPT !.dig.delay = HitDelay]
      BY <2>2, <2>3, <2>4 DEF Moved, Hands
    <3> QED
      BY <1>1, <1>3, <2>1, <3>1 DEF ClickBlock
  <2> QED
    BY <2>6, <2>8, <2>9, <2>10 DEF Good
<1>4. CASE p.mode # "creative" /\ p.dig.hitting /\ p.dig.target = {c}
  BY <1>1, <1>4 DEF ClickBlock
<1>5. CASE p.mode # "creative" /\ ~(p.dig.hitting /\ p.dig.target = {c})
  <2>0. PICK t : t = CHOOSE b \in p.dig.target : TRUE
    OBVIOUS
  <2>1. PICK left : left = IF p.dig.hitting THEN Abort(p, t) ELSE p
    OBVIOUS
  <2>2. /\ Moved(left) /\ left.dig = p.dig /\ left.open = {} /\ Fits(left, a)
        /\ \A e \in left.crack : e.by # left.id /\ e.by <= left.id
    <3>1. CASE p.dig.hitting
      <4>1. left = Abort(p, t)
        BY <2>1, <3>1
      <4>2. /\ Moved(left) /\ left.dig = p.dig /\ left.open = {} /\ left.id = p.id
            /\ Fits(left, a) /\ \A e \in left.crack : e.by # client.id /\ e \in p.crack
        BY <2>0, <3>1, <4>1, AbortMoves
      <4> QED
        BY <1>2, <4>2 DEF Good, DigOK
    <3>2. CASE ~p.dig.hitting
      BY <2>1, <3>2 DEF Good, DigOK
    <3> QED
      BY <1>2, <3>1, <3>2
  <2>3. left \in Hands /\ left.id = client.id /\ left.dig \in Digs
    BY <2>2 DEF Moved, Hands
  <2>4. CASE Instant(a)
    <3>1. PICK r : r = Destroy(Start(left, c, "instant"), c)
      OBVIOUS
    <3>2. /\ Moved(r) /\ r.dig = left.dig /\ r.crack = left.crack /\ r.open = left.open
          /\ r.id = left.id /\ Fits(r, a)
      BY <1>1, <2>2, <2>4, <3>1, StartDestroys
    <3>3. Good(r)
      BY <2>2, <3>2, ClearIsGood DEF Good, DigOK
    <3>4. ClickBlock(p, a) = r
      BY <1>1, <1>5, <2>0, <2>1, <2>4, <3>1 DEF ClickBlock
    <3> QED
      BY <3>2, <3>3, <3>4
  <2>5. CASE ~Instant(a)
    <3>1. PICK s : s = Start(left, c, "slow")
      OBVIOUS
    <3>2. PICK x \in ServerPackets : x = Packet("start", "slow", c)
      <4>1. "slow" \in Hows /\ "start" \in PacketKinds
        BY DEF Hows, PacketKinds
      <4>2. Packet("start", "slow", c) \in ServerPackets
        BY <4>1, PacketIs
      <4> QED
        BY <4>2, Zenon
    <3>3. /\ s \in Hands /\ s.cells = left.cells /\ s.dig = left.dig /\ s.crack = left.crack
          /\ s.id = left.id /\ s.sent = Append(left.sent, x) /\ s.open = {c}
      BY <2>3, <3>1, <3>2, StartIs
    <3>4. Moved(s)
      BY <2>2, <3>3, MovedSends
    <3>5. PICK dig : dig = [s.dig EXCEPT !.hitting = TRUE, !.target = {c}, !.progress = 0]
      OBVIOUS
    <3>6. dig \in Digs /\ dig.hitting = TRUE /\ dig.target = {c}
      BY <2>3, <3>3, <3>5 DEF Digs
    <3>7. PICK u : u = [s EXCEPT !.dig = dig]
      OBVIOUS
    <3>8. /\ u \in Hands /\ u.dig = dig /\ u.cells = s.cells /\ u.crack = s.crack
          /\ u.open = s.open /\ u.id = s.id /\ u.sent = s.sent
      BY <3>3, <3>6, <3>7, DigIs
    <3>9. Moved(u)
      BY <3>4, <3>8, MovedStays
    <3>10. Good(Stage(u, c, -1)) /\ Stage(u, c, -1).sent = u.sent
      BY <2>2, <3>3, <3>6, <3>8, <3>9, StageGood
    <3>11. ClickBlock(p, a) = Stage(u, c, -1)
      <4>1. u = [s EXCEPT !.dig.hitting = TRUE, !.dig.target = {c}, !.dig.progress = 0]
        BY <2>3, <3>3, <3>5, <3>7 DEF Hands, Digs
      <4> QED
        BY <1>1, <1>5, <2>0, <2>1, <2>5, <3>1, <4>1 DEF ClickBlock
    <3>12. left.sent \in Seq(ServerPackets)
      BY <2>3 DEF Hands
    <3>13. Fits(Stage(u, c, -1), a)
      <4>1. \A k : Assured(left.sent, c, k) => Assured(s.sent, c, k)
        BY <3>2, <3>3, <3>12, AssuredAppend
      <4>2. Stage(u, c, -1).sent = s.sent
        BY <3>8, <3>10
      <4> QED
        BY <1>1, <2>2, <4>1, <4>2 DEF Fits
    <3> QED
      BY <3>10, <3>11, <3>13
  <2> QED
    BY <2>4, <2>5
<1> QED
  BY <1>3, <1>4, <1>5

LEMMA CompleteKeeps ==
  ASSUME NEW p, Good(p), NEW a, a.cell \in Cells, p.dig.hitting, p.dig.target = {a.cell},
         client.id \in Nat, HitDelay \in Nat
  PROVE  Good(Complete(p, a))
<1>1. PICK c \in Cells : c = a.cell
  OBVIOUS
<1>2. p \in Hands /\ Moved(p) /\ p.open \subseteq {c} /\ \A e \in p.crack : e.by <= p.id
  BY <1>1 DEF Good, Moved, DigOK
<1>3. PICK s : s = Finish(p, c)
  OBVIOUS
<1>4. PICK how \in Hows : /\ s \in Hands /\ s.cells = p.cells /\ s.dig = p.dig
                          /\ s.crack = p.crack /\ s.id = p.id /\ s.open = p.open \ {c}
                          /\ s.sent = Append(p.sent, Packet("finish", how, c))
  BY <1>2, <1>3, FinishIs DEF Hows
<1>5. PICK x \in ServerPackets : /\ x = Packet("finish", how, c)
                                 /\ x.kind = "finish" /\ x.cell = c
  <2>1. "finish" \in PacketKinds
    BY DEF PacketKinds
  <2> QED
    BY <2>1, PacketIs
<1>6. Moved(s)
  BY <1>2, <1>4, <1>5, MovedSends
<1>7. Assured(s.sent, c, client.cells[c])
  <2>1. Sure(x, c, client.cells[c]) /\ p.sent \in Seq(ServerPackets)
    BY <1>2, <1>5 DEF Sure, Hands
  <2> QED
    BY <1>4, <1>5, <2>1, AssuredAppend
<1>8. PICK w : w = Written(s, c, "air")
  OBVIOUS
<1>9. Moved(w)
  BY <1>6, <1>7, <1>8, MovedWrites
<1>10. w \in Hands /\ w.crack = s.crack /\ w.open = s.open /\ w.id = s.id
  <2>1. "air" \in Kinds
    BY DEF Kinds
  <2> QED
    BY <1>4, <1>8, <2>1, WrittenIs
<1>11. PICK dig : dig = [NewDig EXCEPT !.delay = HitDelay]
  OBVIOUS
<1>12. dig \in Digs /\ dig.hitting = FALSE
  <2>1. NewDig \in Digs /\ NewDig.hitting = FALSE
    BY DEF NewDig, Digs
  <2> QED
    BY <1>11, <2>1 DEF Digs
<1>13. PICK u : u = [w EXCEPT !.dig = dig]
  OBVIOUS
<1>14. /\ u \in Hands /\ u.dig = dig /\ u.cells = w.cells /\ u.crack = w.crack
       /\ u.open = w.open /\ u.id = w.id /\ u.sent = w.sent
  BY <1>10, <1>12, <1>13, DigIs
<1>15. Moved(u)
  BY <1>9, <1>14, MovedStays
<1>16. PICK index : index = NewDig.progress - 1 /\ index < 0
  BY DEF NewDig
<1>17. u.open = {} /\ \A e \in u.crack : e.by <= u.id
  BY <1>2, <1>4, <1>10, <1>14
<1>18. Good(Stage(u, c, index))
  BY <1>12, <1>14, <1>15, <1>16, <1>17, StageGood
<1> QED
  BY <1>1, <1>3, <1>8, <1>11, <1>13, <1>16, <1>18 DEF Complete, Destroy

LEMMA DamageKeeps ==
  ASSUME NEW p, Good(p), NEW a, Fits(p, a), client.id \in Nat, HitDelay \in Nat
  PROVE  Good(DamageBlock(p, a))
<1>1. PICK c \in Cells : c = a.cell
  BY DEF Fits
<1>2. p \in Hands /\ Moved(p) /\ p.dig \in Digs
  BY DEF Good, Moved, Hands
<1>3. p.dig.progress \in Nat /\ p.dig.delay \in Nat /\ p.dig.hitting \in BOOLEAN
  BY <1>2 DEF Digs
<1>4. PICK progress \in Nat : progress = p.dig.progress + IF a.block = "bedrock" THEN 0 ELSE 1
  BY <1>3
<1>5. CASE p.dig.delay > 0
  <2>1. PICK dig : dig = [p.dig EXCEPT !.delay = @ - 1]
    OBVIOUS
  <2>2. p.dig.delay - 1 \in Nat
    BY <1>3, <1>5
  <2>3. dig \in Digs /\ dig.hitting = p.dig.hitting /\ dig.target = p.dig.target
    BY <1>2, <2>1, <2>2 DEF Digs
  <2>4. PICK r : r = [p EXCEPT !.dig = dig]
    OBVIOUS
  <2>5. /\ r \in Hands /\ r.dig = dig /\ r.cells = p.cells /\ r.crack = p.crack
        /\ r.open = p.open /\ r.id = p.id /\ r.sent = p.sent
    BY <1>2, <2>3, <2>4, DigIs
  <2>6. Moved(r)
    BY <1>2, <2>5, MovedStays
  <2>7. DigOK(r)
    BY <2>3, <2>5 DEF Good, DigOK
  <2>8. DamageBlock(p, a) = r
    <3>1. r = [p EXCEPT !.dig.delay = @ - 1]
      BY <1>2, <2>1, <2>4 DEF Hands, Digs
    <3> QED
      BY <1>5, <3>1 DEF DamageBlock
  <2> QED
    BY <2>6, <2>7, <2>8 DEF Good
<1>6. CASE ~(p.dig.delay > 0) /\ p.mode = "creative"
  <2>1. PICK dig : dig = [p.dig EXCEPT !.delay = HitDelay]
    OBVIOUS
  <2>2. dig \in Digs /\ dig.hitting = p.dig.hitting /\ dig.target = p.dig.target
    BY <1>2, <2>1 DEF Digs
  <2>3. PICK s : s = [p EXCEPT !.dig = dig]
    OBVIOUS
  <2>4. /\ s \in Hands /\ s.dig = dig /\ s.cells = p.cells /\ s.crack = p.crack
        /\ s.open = p.open /\ s.id = p.id /\ s.sent = p.sent
    BY <1>2, <2>2, <2>3, DigIs
  <2>5. Moved(s)
    BY <1>2, <2>4, MovedStays
  <2>6. Fits(s, a)
    BY <2>4 DEF Fits
  <2>7. PICK r : r = Destroy(Start(s, c, "creative"), c)
    OBVIOUS
  <2>8. /\ Moved(r) /\ r.dig = s.dig /\ r.crack = s.crack /\ r.open = s.open /\ r.id = s.id
    BY <1>1, <2>5, <2>6, <2>7, StartDestroys
  <2>9. DigOK(r)
    BY <2>2, <2>4, <2>8 DEF Good, DigOK
  <2>10. DamageBlock(p, a) = r
    <3>1. s = [p EXCEPT !.dig.delay = HitDelay]
      BY <1>2, <2>1, <2>3 DEF Hands, Digs
    <3> QED
      BY <1>1, <1>6, <2>7, <3>1 DEF DamageBlock
  <2> QED
    BY <2>8, <2>9, <2>10 DEF Good
<1>7. CASE /\ ~(p.dig.delay > 0) /\ p.mode # "creative"
           /\ ~p.dig.hitting \/ p.dig.target # {c}
  BY <1>1, <1>7, ClickKeeps DEF DamageBlock
<1>8. CASE /\ ~(p.dig.delay > 0) /\ p.mode # "creative" /\ p.dig.hitting /\ p.dig.target = {c}
           /\ progress >= Hardness
  BY <1>1, <1>4, <1>8, CompleteKeeps DEF DamageBlock
<1>9. CASE /\ ~(p.dig.delay > 0) /\ p.mode # "creative" /\ p.dig.hitting /\ p.dig.target = {c}
           /\ ~(progress >= Hardness)
  <2>1. PICK dig : dig = [p.dig EXCEPT !.progress = progress]
    OBVIOUS
  <2>2. dig \in Digs /\ dig.hitting = p.dig.hitting /\ dig.target = p.dig.target
    BY <1>2, <2>1 DEF Digs
  <2>3. PICK s : s = [p EXCEPT !.dig = dig]
    OBVIOUS
  <2>4. /\ s \in Hands /\ s.dig = dig /\ s.cells = p.cells /\ s.crack = p.crack
        /\ s.open = p.open /\ s.id = p.id /\ s.sent = p.sent
    BY <1>2, <2>2, <2>3, DigIs
  <2>5. Moved(s)
    BY <1>2, <2>4, MovedStays
  <2>6. s.open \subseteq {c} /\ \A e \in s.crack : e.by <= s.id
    BY <1>9, <2>4 DEF Good, DigOK
  <2>7. Good(Stage(s, c, progress - 1))
    BY <1>9, <2>2, <2>4, <2>5, <2>6, StageGood
  <2>8. DamageBlock(p, a) = Stage(s, c, progress - 1)
    <3>1. s = [p EXCEPT !.dig.progress = progress]
      BY <1>2, <2>1, <2>3 DEF Hands, Digs
    <3> QED
      BY <1>1, <1>4, <1>9, <3>1 DEF DamageBlock
  <2> QED
    BY <2>7, <2>8
<1> QED
  BY <1>5, <1>6, <1>7, <1>8, <1>9

\* The counts of presses are nobody's but the tick's.
LEMMA PressesKeep ==
  ASSUME NEW p, Good(p)
  PROVE  /\ Good([p EXCEPT !.left = 0]) /\ Good([p EXCEPT !.right = 0])
         /\ \A a : Fits(p, a) => Fits([p EXCEPT !.left = 0], a)
<1>1. p \in Hands /\ 0 \in Nat
  BY DEF Good, Moved
<1>2. PICK r : r = [p EXCEPT !.left = 0]
  OBVIOUS
<1>3. PICK s : s = [p EXCEPT !.right = 0]
  OBVIOUS
<1>4. /\ r \in Hands /\ r.dig = p.dig /\ r.cells = p.cells /\ r.crack = p.crack
      /\ r.open = p.open /\ r.id = p.id /\ r.sent = p.sent
  BY <1>1, <1>2 DEF Hands
<1>5. /\ s \in Hands /\ s.dig = p.dig /\ s.cells = p.cells /\ s.crack = p.crack
      /\ s.open = p.open /\ s.id = p.id /\ s.sent = p.sent
  BY <1>1, <1>3 DEF Hands
<1>6. Good(r)
  BY <1>4 DEF Good, Moved, DigOK
<1>7. Good(s)
  BY <1>5 DEF Good, Moved, DigOK
<1>8. \A a : Fits(p, a) => Fits(r, a)
  BY <1>4 DEF Fits
<1> QED
  BY <1>2, <1>3, <1>6, <1>7, <1>8

IsClicking(f, p, aim) ==
  f = [n \in 0 .. p.left |->
         IF n = 0 THEN [p EXCEPT !.left = 0]
         ELSE ClickBlock(f[n - 1], CHOOSE b \in aim : TRUE)]

LEMMA ClicksKeep ==
  ASSUME NEW p, Good(p), NEW aim, aim # {}, NEW a, a = CHOOSE b \in aim : TRUE,
         Fits(p, a), client.id \in Nat, HitDelay \in Nat
  PROVE  Good(Clicks(p, aim)) /\ Fits(Clicks(p, aim), a)
<1>1. PICK N \in Nat : N = p.left
  BY DEF Good, Moved, Hands
<1>2. PICK D : D = {r \in Hands : Good(r) /\ Fits(r, a)}
  OBVIOUS
<1>3. PICK w : w = [p EXCEPT !.left = 0]
  OBVIOUS
<1>4. w \in D
  BY <1>2, <1>3, PressesKeep DEF Good, Moved
<1>5. PICK G : G = [n \in 1 .. N |-> [r \in D |-> ClickBlock(r, a)]]
  OBVIOUS
<1>6. Steps(G, D, N)
  <2>1. ASSUME NEW r \in D PROVE ClickBlock(r, a) \in D
    <3>1. Good(r) /\ Fits(r, a)
      BY <1>2
    <3>2. Good(ClickBlock(r, a)) /\ Fits(ClickBlock(r, a), a)
      BY <3>1, ClickKeeps
    <3> QED
      BY <1>2, <3>2 DEF Good, Moved
  <2>2. [r \in D |-> ClickBlock(r, a)] \in [D -> D]
    BY <2>1
  <2>3. G \in [1 .. N -> [D -> D]]
    BY <1>5, <2>2
  <2> QED
    BY <2>3 DEF Steps
<1>7. PICK g \in [0 .. N -> D] : g[0] = w /\ \A n \in 1 .. N : g[n] = G[n][g[n - 1]]
  <2>1. \E f : IsRun(f, G, D, N, w)
    BY <1>4, <1>6, RunExists
  <2> QED
    BY <2>1 DEF IsRun
<1>8. IsClicking(g, p, aim)
  <2>1. ASSUME NEW n \in 0 .. N
        PROVE  g[n] = IF n = 0 THEN w ELSE ClickBlock(g[n - 1], a)
    <3>1. CASE n = 0
      BY <1>7, <3>1
    <3>2. CASE n # 0
      <4>1. n \in 1 .. N /\ n - 1 \in 0 .. N
        BY <3>2
      <4>2. g[n - 1] \in D /\ g[n] = G[n][g[n - 1]]
        BY <1>7, <4>1
      <4> QED
        BY <1>5, <3>2, <4>1, <4>2
    <3> QED
      BY <3>1, <3>2
  <2>2. g = [n \in 0 .. N |-> g[n]]
    BY <1>7
  <2>3. g = [n \in 0 .. N |-> IF n = 0 THEN w ELSE ClickBlock(g[n - 1], a)]
    BY <2>1, <2>2
  <2> QED
    BY <1>1, <1>3, <2>3 DEF IsClicking
<1>9. PICK f : f = CHOOSE h : IsClicking(h, p, aim)
  OBVIOUS
<1>10. IsClicking(f, p, aim)
  BY <1>8, <1>9
<1>11. Clicks(p, aim) = f[N]
  BY <1>1, <1>9 DEF Clicks, IsClicking
<1>12. f = [n \in 0 .. N |-> IF n = 0 THEN w ELSE ClickBlock(f[n - 1], a)]
  BY <1>1, <1>3, <1>10 DEF IsClicking
<1> DEFINE S == {n \in Nat : n <= N => f[n] \in D}
<1>13. 0 \in S
  <2>1. 0 \in 0 .. N
    OBVIOUS
  <2> QED
    BY <1>4, <1>12, <2>1
<1>14. ASSUME NEW n \in Nat, n \in S PROVE n + 1 \in S
  <2>1. SUFFICES ASSUME n + 1 <= N PROVE f[n + 1] \in D
    OBVIOUS
  <2>2. n + 1 \in 0 .. N /\ n + 1 # 0 /\ (n + 1) - 1 = n /\ n <= N
    BY <2>1
  <2>3. f[n + 1] = ClickBlock(f[n], a)
    BY <1>12, <2>2
  <2>4. f[n] \in D
    BY <1>14, <2>2
  <2>5. Good(f[n]) /\ Fits(f[n], a)
    BY <1>2, <2>4
  <2>6. Good(ClickBlock(f[n], a)) /\ Fits(ClickBlock(f[n], a), a)
    BY <2>5, ClickKeeps
  <2> QED
    BY <1>2, <2>3, <2>6 DEF Good, Moved
<1> HIDE DEF S
<1>15. Nat \subseteq S
  BY <1>13, <1>14, Induct
<1>16. f[N] \in D
  BY <1>15 DEF S
<1> QED
  BY <1>2, <1>11, <1>16

LEMMA PlaceKeeps == ASSUME NEW p, Good(p), NEW c \in Cells PROVE Good(Place(p, c))
<1>1. PICK target : target = IF Replaceable(p.cells[c]) THEN c ELSE c - 1
  OBVIOUS
<1>2. CASE target \notin Cells \/ ~Replaceable(p.cells[target])
  BY <1>1, <1>2 DEF Place
<1>3. CASE target \in Cells /\ Replaceable(p.cells[target])
  <2>1. PICK s : s = Sent(p, "place", "slow", c)
    OBVIOUS
  <2>2. PICK x \in ServerPackets : /\ x = Packet("place", "slow", c)
                                   /\ x.kind = "place" /\ x.cell = c
    <3>1. "slow" \in Hows /\ "place" \in PacketKinds
      BY DEF Hows, PacketKinds
    <3>2. /\ Packet("place", "slow", c) \in ServerPackets
          /\ Packet("place", "slow", c).kind = "place" /\ Packet("place", "slow", c).cell = c
      BY <3>1, PacketIs
    <3> QED
      BY <3>2, Zenon
  <2>3. /\ s \in Hands /\ s.cells = p.cells /\ s.dig = p.dig /\ s.crack = p.crack
        /\ s.open = p.open /\ s.id = p.id /\ s.sent = Append(p.sent, x)
    <3>1. "slow" \in Hows /\ "place" \in PacketKinds /\ p \in Hands
      BY DEF Hows, PacketKinds, Good, Moved
    <3> QED
      BY <2>1, <2>2, <3>1, SentIs
  <2>4. Moved(s)
    BY <2>3, MovedSends DEF Good
  <2>5. Assured(s.sent, target, client.cells[target])
    <3>1. Sure(x, target, client.cells[target])
      BY <1>1, <2>2 DEF Sure
    <3>2. p.sent \in Seq(ServerPackets)
      BY DEF Good, Moved, Hands
    <3> QED
      BY <2>3, <3>1, <3>2, AssuredAppend
  <2>6. PICK r : r = Written(s, target, "stone")
    OBVIOUS
  <2>7. Moved(r)
    BY <1>3, <2>4, <2>5, <2>6, MovedWrites
  <2>8. r.dig = s.dig /\ r.crack = s.crack /\ r.open = s.open /\ r.id = s.id
    <3>1. "stone" \in Kinds
      BY DEF Kinds
    <3> QED
      BY <1>3, <2>3, <2>6, <3>1, WrittenIs
  <2>9. DigOK(r)
    BY <2>3, <2>8 DEF Good, DigOK
  <2>10. Place(p, c) = r
    BY <1>1, <1>3, <2>1, <2>6 DEF Place
  <2> QED
    BY <2>7, <2>9, <2>10 DEF Good
<1> QED
  BY <1>2, <1>3

IsPlacing(f, p, aim) ==
  f = [n \in 0 .. p.right |->
         IF n = 0 THEN [p EXCEPT !.right = 0]
         ELSE Place(f[n - 1], CHOOSE b \in aim : TRUE)]

LEMMA StepPlaceKeeps ==
  ASSUME NEW p, Good(p), NEW aim \in SUBSET Cells
  PROVE  Good(StepPlace(p, aim))
<1>1. CASE p.dig.hitting \/ aim = {}
  BY <1>1, PressesKeep DEF StepPlace
<1>2. CASE ~(p.dig.hitting \/ aim = {})
  <2>1. PICK c : c = CHOOSE b \in aim : TRUE
    OBVIOUS
  <2>2. c \in Cells
    BY <1>2, <2>1
  <2>3. PICK N \in Nat : N = p.right
    BY DEF Good, Moved, Hands
  <2>4. PICK D : D = {r \in Hands : Good(r)}
    OBVIOUS
  <2>5. PICK w : w = [p EXCEPT !.right = 0]
    OBVIOUS
  <2>6. w \in D
    BY <2>4, <2>5, PressesKeep DEF Good, Moved
  <2>7. PICK G : G = [n \in 1 .. N |-> [r \in D |-> Place(r, c)]]
    OBVIOUS
  <2>8. Steps(G, D, N)
    <3>1. ASSUME NEW r \in D PROVE Place(r, c) \in D
      <4>1. Good(Place(r, c))
        BY <2>2, <2>4, PlaceKeeps
      <4> QED
        BY <2>4, <4>1 DEF Good, Moved
    <3>2. [r \in D |-> Place(r, c)] \in [D -> D]
      BY <3>1
    <3>3. G \in [1 .. N -> [D -> D]]
      BY <2>7, <3>2
    <3> QED
      BY <3>3 DEF Steps
  <2>9. PICK g \in [0 .. N -> D] : g[0] = w /\ \A n \in 1 .. N : g[n] = G[n][g[n - 1]]
    <3>1. \E f : IsRun(f, G, D, N, w)
      BY <2>6, <2>8, RunExists
    <3> QED
      BY <3>1 DEF IsRun
  <2>10. IsPlacing(g, p, aim)
    <3>1. ASSUME NEW n \in 0 .. N
          PROVE  g[n] = IF n = 0 THEN w ELSE Place(g[n - 1], c)
      <4>1. CASE n = 0
        BY <2>9, <4>1
      <4>2. CASE n # 0
        <5>1. n \in 1 .. N /\ n - 1 \in 0 .. N
          BY <4>2
        <5>2. g[n - 1] \in D /\ g[n] = G[n][g[n - 1]]
          BY <2>9, <5>1
        <5> QED
          BY <2>7, <4>2, <5>1, <5>2
      <4> QED
        BY <4>1, <4>2
    <3>2. g = [n \in 0 .. N |-> g[n]]
      BY <2>9
    <3>3. g = [n \in 0 .. N |-> IF n = 0 THEN w ELSE Place(g[n - 1], c)]
      BY <3>1, <3>2
    <3> QED
      BY <2>1, <2>3, <2>5, <3>3 DEF IsPlacing
  <2>11. PICK f : f = CHOOSE h : IsPlacing(h, p, aim)
    OBVIOUS
  <2>12. IsPlacing(f, p, aim)
    BY <2>10, <2>11
  <2>13. StepPlace(p, aim) = f[N]
    BY <1>2, <2>3, <2>11 DEF StepPlace, IsPlacing
  <2>14. f = [n \in 0 .. N |-> IF n = 0 THEN w ELSE Place(f[n - 1], c)]
    BY <2>1, <2>3, <2>5, <2>12 DEF IsPlacing
  <2> DEFINE S == {n \in Nat : n <= N => f[n] \in D}
  <2>15. 0 \in S
    <3>1. 0 \in 0 .. N
      OBVIOUS
    <3> QED
      BY <2>6, <2>14, <3>1
  <2>16. ASSUME NEW n \in Nat, n \in S PROVE n + 1 \in S
    <3>1. SUFFICES ASSUME n + 1 <= N PROVE f[n + 1] \in D
      OBVIOUS
    <3>2. n + 1 \in 0 .. N /\ n + 1 # 0 /\ (n + 1) - 1 = n /\ n <= N
      BY <3>1
    <3>3. f[n + 1] = Place(f[n], c)
      BY <2>14, <3>2
    <3>4. f[n] \in D
      BY <2>16, <3>2
    <3>5. Good(Place(f[n], c))
      BY <2>2, <2>4, <3>4, PlaceKeeps
    <3> QED
      BY <2>4, <3>3, <3>5 DEF Good, Moved
  <2> HIDE DEF S
  <2>17. Nat \subseteq S
    BY <2>15, <2>16, Induct
  <2>18. f[N] \in D
    BY <2>17 DEF S
  <2> QED
    BY <2>4, <2>13, <2>18
<1> QED
  BY <1>1, <1>2

-----------------------------------------------------------------------------
(* The session's steps.                                                    *)

LEMMA AssuredConcat ==
  ASSUME NEW S, NEW a \in Seq(S), NEW b \in Seq(S), NEW c, NEW k,
         Assured(a, c, k) \/ Assured(b, c, k)
  PROVE  Assured(a \o b, c, k)
<1>1. PICK m \in Nat, n \in Nat : m = Len(a) /\ n = Len(b)
  OBVIOUS
<1>2. PICK more : more = a \o b
  OBVIOUS
<1>3. /\ DOMAIN more = 1 .. m + n /\ DOMAIN a = 1 .. m /\ DOMAIN b = 1 .. n
      /\ \A i \in 1 .. m : more[i] = a[i]
      /\ \A i \in 1 .. n : more[m + i] = b[i]
  BY <1>1, <1>2
<1>4. ASSUME NEW i \in 1 .. m, Sure(a[i], c, k) PROVE Assured(more, c, k)
  <2>1. i \in 1 .. m + n
    OBVIOUS
  <2> QED
    BY <1>3, <1>4, <2>1 DEF Assured
<1>5. ASSUME NEW i \in 1 .. n, Sure(b[i], c, k) PROVE Assured(more, c, k)
  <2>1. m + i \in 1 .. m + n
    OBVIOUS
  <2> QED
    BY <1>3, <1>5, <2>1 DEF Assured
<1> QED
  BY <1>2, <1>3, <1>4, <1>5 DEF Assured

LEMMA EmptySent == <<>> \in Seq(ServerPackets)
OBVIOUS

\* What a step of the session sends goes out; the hand is good afterwards.
LEMMA LeavesIs ==
  ASSUME IInv, NEW p \in Hands, Leaves(p)
  PROVE  /\ client' \in Hands /\ client'.sent = <<>> /\ client'.cells = p.cells
         /\ client'.dig = p.dig /\ client'.crack = p.crack /\ client'.open = p.open
         /\ client'.id = p.id
         /\ toServer' = toServer \o p.sent /\ toServer' \in Seq(ServerPackets)
         /\ \A c \in Cells, k \in Stands :
              Assured(toServer, c, k) \/ Assured(p.sent, c, k) => Assured(toServer', c, k)
<1>1. PICK none \in Seq(ServerPackets) : none = <<>>
  BY EmptySent, Zenon
<1>2. client' = [p EXCEPT !.sent = none]
  BY <1>1 DEF Leaves
<1>3. /\ client' \in Hands /\ client'.sent = none /\ client'.cells = p.cells
      /\ client'.dig = p.dig /\ client'.crack = p.crack /\ client'.open = p.open
      /\ client'.id = p.id
  BY <1>2 DEF Hands
<1>4. toServer \in Seq(ServerPackets) /\ p.sent \in Seq(ServerPackets)
  BY DEF IInv, TypeOK, Hands
<1>5. toServer' = toServer \o p.sent
  BY DEF Leaves
<1>6. toServer' \in Seq(ServerPackets)
  BY <1>4, <1>5
<1>7. \A c \in Cells, k \in Stands :
        Assured(toServer, c, k) \/ Assured(p.sent, c, k) => Assured(toServer', c, k)
  BY <1>4, <1>5, AssuredConcat
<1> QED
  BY <1>1, <1>3, <1>5, <1>6, <1>7

LEMMA TickLeaves ==
  ASSUME IInv, NEW p, Good(p), Leaves(p), UNCHANGED <<server, toClient, ghosts>>
  PROVE  IInv'
<1>1. p \in Hands
  BY DEF Good, Moved
<1>2. /\ client' \in Hands /\ client'.sent = <<>> /\ client'.cells = p.cells
      /\ client'.dig = p.dig /\ client'.crack = p.crack /\ client'.open = p.open
      /\ client'.id = p.id /\ toServer' \in Seq(ServerPackets)
      /\ \A c \in Cells, k \in Stands :
           Assured(toServer, c, k) \/ Assured(p.sent, c, k) => Assured(toServer', c, k)
  BY <1>1, LeavesIs
<1>3. TypeOK'
  BY <1>2 DEF IInv, TypeOK
<1>4. DigOK(client')
  BY <1>2 DEF Good, DigOK
<1>5. Reloads'
  <2>1. \A c \in Cells : client'.cells[c] = "void" => client.cells[c] = "void"
    BY <1>2 DEF Good, Moved
  <2> QED
    BY <2>1 DEF IInv, Reloads
<1>6. ASSUME NEW c \in Cells \ ghosts PROVE Agrees(c)'
  <2>1. server.cells[c] \in Stands
    BY DEF IInv, TypeOK, Stands
  <2>2. Agrees(c)
    BY DEF IInv
  <2>3. CASE Assured(toServer, c, server.cells[c])
    BY <1>2, <2>1, <2>3 DEF Agrees
  <2>4. CASE LastTells(toClient, c, server.cells[c])
    BY <2>4 DEF Agrees, Shows
  <2>5. CASE client.cells[c] = server.cells[c] /\ Silent(toClient, c)
    <3>1. CASE p.cells[c] = client.cells[c]
      BY <1>2, <2>5, <3>1 DEF Agrees, Shows
    <3>2. CASE Assured(p.sent, c, client.cells[c])
      BY <1>2, <2>1, <2>5, <3>2 DEF Agrees
    <3> QED
      BY <3>1, <3>2 DEF Good, Moved
  <2> QED
    BY <2>2, <2>3, <2>4, <2>5 DEF Agrees, Shows
<1> QED
  BY <1>3, <1>4, <1>5, <1>6 DEF IInv

LEMMA DelayIsNat == HitDelay \in Nat
BY DigAssumption

LEMMA TickKeeps == ASSUME IInv, Tick PROVE IInv'
<1>1. PICK aim : aim = AimOf(client)
  OBVIOUS
<1>2. PICK placed : placed = StepPlace(client, aim)
  OBVIOUS
<1>3. PICK aimed : aimed = {[cell |-> c, block |-> placed.cells[c]] : c \in aim}
  OBVIOUS
<1>4. PICK clicked : clicked = Clicks(placed, aimed)
  OBVIOUS
<1>5. Leaves(Holds(clicked, aimed)) /\ UNCHANGED <<server, toClient, ghosts>>
  BY <1>1, <1>2, <1>3, <1>4 DEF Tick
<1>6. client \in Hands /\ client.id \in Nat /\ HitDelay \in Nat
  BY DelayIsNat DEF IInv, TypeOK, Hands
<1>7. Good(client)
  BY <1>6 DEF Good, Moved, IInv
<1>8. aim \subseteq {c \in Cells : client.cells[c] # "air"}
  <2> DEFINE met == {c \in Cells : client.cells[c] \notin {"air", "void"} /\ c <= Reach[client.mode]}
  <2>1. aim = IF client.looks /\ met # {} THEN {Min(met)} ELSE {}
    BY <1>1 DEF AimOf
  <2>2. met # {} => Min(met) \in met
    <3>1. SUFFICES ASSUME NEW c \in met PROVE Min(met) \in met
      OBVIOUS
    <3>2. met \subseteq Nat
      BY DEF Cells
    <3>3. IsWellFoundedOn(OpToRel(<, Nat), Nat)
      BY NatLessThanWellFounded
    <3>4. PICK R : R = OpToRel(<, Nat)
      OBVIOUS
    <3>5. \A x, y \in Nat : <<y, x>> \in R <=> y < x
      BY <3>4 DEF OpToRel
    <3>6. PICK m \in met : \A k \in met : ~ (<<k, m>> \in R)
      BY <3>1, <3>2, <3>3, <3>4, WFMin
    <3>7. \A k \in met : m <= k
      <4>1. \A k \in met : ~ (k < m)
        BY <3>2, <3>5, <3>6
      <4> QED
        BY <3>2, <4>1
    <3> QED
      BY <3>7 DEF Min
  <2> QED
    BY <2>1, <2>2
<1>9. Good(placed)
  BY <1>2, <1>7, <1>8, StepPlaceKeeps
<1>10. ASSUME aimed # {}
       PROVE  Fits(placed, CHOOSE b \in aimed : TRUE)
  <2>1. PICK a : a = CHOOSE b \in aimed : TRUE
    OBVIOUS
  <2>2. a \in aimed
    BY <1>10, <2>1
  <2>3. PICK c \in aim : a = [cell |-> c, block |-> placed.cells[c]]
    BY <1>3, <2>2
  <2>4. c \in Cells /\ client.cells[c] # "air" /\ a.cell = c /\ a.block = placed.cells[c]
    BY <1>8, <2>3
  <2>5. placed.cells[c] \in Stands
    BY <1>9, <2>4 DEF Good, Moved, Hands
  <2>6. placed.cells[c] = client.cells[c] \/ Assured(placed.sent, c, client.cells[c])
    BY <1>9, <2>4 DEF Good, Moved
  <2> QED
    BY <2>1, <2>4, <2>5, <2>6 DEF Fits
<1>11. CASE aimed = {}
  <2>1. Good(clicked)
    BY <1>4, <1>9, <1>11, PressesKeep DEF Clicks
  <2>2. Holds(clicked, aimed) = Reset(clicked)
    BY <1>11 DEF Holds
  <2>3. Good(Holds(clicked, aimed))
    BY <1>6, <2>1, <2>2, ResetKeeps
  <2> QED
    BY <1>5, <2>3, TickLeaves
<1>12. CASE aimed # {}
  <2>1. PICK a : a = CHOOSE b \in aimed : TRUE
    OBVIOUS
  <2>2. Fits(placed, a)
    BY <1>10, <1>12, <2>1
  <2>3. Good(clicked) /\ Fits(clicked, a)
    BY <1>4, <1>6, <1>9, <1>12, <2>1, <2>2, ClicksKeep
  <2>4. Good(DamageBlock(clicked, a)) /\ Good(Reset(clicked))
    BY <1>6, <2>3, DamageKeeps, ResetKeeps
  <2>5. Good(Holds(clicked, aimed))
    BY <2>1, <2>4 DEF Holds
  <2> QED
    BY <1>5, <2>5, TickLeaves
<1> QED
  BY <1>11, <1>12

\* What is left of the packets tells what the whole told, of a cell that has
\* taken the first.
LEMMA TellsTail ==
  ASSUME NEW S, NEW packets \in Seq(S), packets # <<>>, NEW c, NEW k, NEW v, NEW after,
         Shows(k, packets, c, v),
         IF Tells(Head(packets), c) THEN after = Told(Head(packets), c) ELSE after = k
  PROVE  Shows(after, Tail(packets), c, v)
<1>1. PICK N \in Nat : Len(packets) = N + 1
  <2>1. Len(packets) \in Nat /\ Len(packets) # 0
    OBVIOUS
  <2>2. Len(packets) - 1 \in Nat /\ Len(packets) = (Len(packets) - 1) + 1
    BY <2>1
  <2> QED
    BY <2>2
<1>2. PICK rest : rest = Tail(packets)
  OBVIOUS
<1>3. /\ DOMAIN packets = 1 .. N + 1 /\ DOMAIN rest = 1 .. N /\ packets[1] = Head(packets)
      /\ \A i \in 1 .. N : rest[i] = packets[i + 1]
  BY <1>1, <1>2
<1>4. \A i \in 1 .. N : i + 1 \in 1 .. N + 1
  OBVIOUS
<1>5. 1 \in 1 .. N + 1
  OBVIOUS
<1>6. CASE k = v /\ Silent(packets, c)
  <2>1. after = v
    BY <1>3, <1>5, <1>6 DEF Silent
  <2>2. Silent(rest, c)
    BY <1>3, <1>4, <1>6 DEF Silent
  <2> QED
    BY <1>2, <2>1, <2>2 DEF Shows
<1>7. ASSUME NEW i \in 1 .. N + 1, Tells(packets[i], c), Told(packets[i], c) = v,
             \A j \in 1 .. N + 1 : j > i => ~Tells(packets[j], c)
      PROVE  Shows(after, rest, c, v)
  <2>1. CASE i = 1
    <3>1. after = v
      BY <1>3, <1>7, <2>1
    <3>2. \A j \in 1 .. N : j + 1 > i
      BY <2>1
    <3>3. Silent(rest, c)
      BY <1>3, <1>4, <1>7, <3>2 DEF Silent
    <3> QED
      BY <3>1, <3>3 DEF Shows
  <2>2. CASE i # 1
    <3>1. i - 1 \in 1 .. N /\ (i - 1) + 1 = i
      BY <2>2
    <3>2. \A j \in 1 .. N : j > i - 1 => j + 1 > i
      OBVIOUS
    <3>3. Tells(rest[i - 1], c) /\ Told(rest[i - 1], c) = v
      BY <1>3, <1>7, <3>1
    <3>4. \A j \in 1 .. N : j > i - 1 => ~Tells(rest[j], c)
      BY <1>3, <1>4, <1>7, <3>2
    <3>5. LastTells(rest, c, v)
      BY <1>3, <3>1, <3>3, <3>4 DEF LastTells
    <3> QED
      BY <3>5 DEF Shows
  <2> QED
    BY <2>1, <2>2
<1> QED
  BY <1>2, <1>3, <1>6, <1>7 DEF Shows, LastTells

\* The packets, by kind.
LEMMA ClientPacketIs ==
  ASSUME NEW x \in ClientPackets
  PROVE  \/ x.kind = "change" /\ x.cell \in Cells /\ x.block \in Kinds
         \/ x.kind = "chunk" /\ x.cells \in [Cells -> Kinds]
         \/ x.kind = "mode" /\ x.mode \in Modes
         \/ x.kind = "health"
         \/ x.kind = "respawn" /\ x.rebuilds \in BOOLEAN /\ x.mode \in Modes
         \/ x.kind = "join" /\ x.mode \in Modes
BY DEF ClientPackets

\* Another world: the cells change, and the digging is what it was.
LEMMA CellsIs ==
  ASSUME NEW p \in Hands, NEW cells \in [Cells -> Stands]
  PROVE  LET r == [p EXCEPT !.cells = cells]
         IN  /\ r \in Hands /\ r.cells = cells /\ r.dig = p.dig /\ r.crack = p.crack
             /\ r.open = p.open /\ r.id = p.id /\ r.sent = p.sent
BY DEF Hands

\* What a packet does to the session.
LEMMA ReceivedIs ==
  ASSUME NEW x \in ClientPackets, client \in Hands, DigOK(client)
  PROVE  LET r == Received(client, x)
         IN  /\ r \in Hands /\ DigOK(r)
             /\ CASE x.kind = "change" -> r.cells = Written(client, x.cell, x.block).cells
                  [] x.kind = "chunk"  -> r.cells = x.cells
                  [] OTHER -> r.cells = IF Unloads(x) THEN Nothing ELSE client.cells
<1>1. PICK r : r = Received(client, x)
  OBVIOUS
<1>2. client.id \in Nat /\ client.dig \in Digs
  BY DEF Hands
<1>3. Nothing \in [Cells -> Stands]
  BY DEF Nothing, Stands
<1>4. CASE x.kind = "change"
  <2>1. x.cell \in Cells /\ x.block \in Kinds
    BY <1>4, ClientPacketIs
  <2>2. r = Written(client, x.cell, x.block)
    BY <1>1, <1>4 DEF Received
  <2>3. r \in Hands /\ r.dig = client.dig /\ r.crack = client.crack /\ r.open = client.open
        /\ r.id = client.id
    BY <2>1, <2>2, WrittenIs
  <2>4. DigOK(r)
    BY <2>3 DEF DigOK
  <2> QED
    BY <1>1, <1>4, <2>2, <2>3, <2>4
<1>5. CASE x.kind = "chunk"
  <2>1. PICK cells \in [Cells -> Stands] : cells = x.cells
    <3>1. x.cells \in [Cells -> Kinds]
      BY <1>5, ClientPacketIs
    <3> QED
      BY <3>1 DEF Stands
  <2>2. r = [client EXCEPT !.cells = cells]
    BY <1>1, <1>5, <2>1 DEF Received
  <2>3. r \in Hands /\ r.dig = client.dig /\ r.crack = client.crack /\ r.open = client.open
        /\ r.id = client.id /\ r.cells = cells
    BY <2>1, <2>2, CellsIs
  <2>4. DigOK(r)
    BY <2>3 DEF DigOK
  <2> QED
    BY <1>1, <1>5, <2>1, <2>3, <2>4
<1>6. CASE x.kind = "mode"
  <2>1. PICK mode \in Modes : mode = x.mode
    BY <1>6, ClientPacketIs
  <2>2. r = [client EXCEPT !.mode = mode]
    BY <1>1, <1>6, <2>1 DEF Received
  <2>3. r \in Hands /\ r.dig = client.dig /\ r.crack = client.crack /\ r.open = client.open
        /\ r.id = client.id /\ r.cells = client.cells
    BY <2>2 DEF Hands
  <2>4. DigOK(r)
    BY <2>3 DEF DigOK
  <2> QED
    BY <1>1, <1>6, <2>3, <2>4 DEF Unloads
<1>7. CASE x.kind = "health"
  <2>1. r = Died(client)
    BY <1>1, <1>7 DEF Received
  <2>2. CASE client.dead
    BY <1>1, <1>7, <2>1, <2>2 DEF Died, Unloads
  <2>3. CASE ~client.dead
    <3>1. PICK q : q = [client EXCEPT !.dead = TRUE, !.held = FALSE, !.left = 0, !.right = 0]
      OBVIOUS
    <3>2. q \in Hands /\ q.dig = client.dig /\ q.crack = client.crack /\ q.open = client.open
          /\ q.id = client.id /\ q.cells = client.cells
      BY <3>1 DEF Hands
    <3>3. DigOK(q)
      BY <3>2 DEF DigOK
    <3>4. r = Reset(q)
      BY <2>1, <2>3, <3>1 DEF Died
    <3>5. r \in Hands /\ DigOK(r) /\ r.cells = q.cells
      BY <3>2, <3>3, <3>4, ResetIs
    <3> QED
      BY <1>1, <1>7, <3>2, <3>5 DEF Unloads
  <2> QED
    BY <2>2, <2>3
<1>8. CASE x.kind = "respawn"
  <2>1. x.rebuilds \in BOOLEAN /\ x.mode \in Modes
    BY <1>8, ClientPacketIs
  <2>2. PICK cells \in [Cells -> Stands] : cells = IF x.rebuilds THEN Nothing ELSE client.cells
    BY <1>3, <2>1 DEF Hands
  <2>3. PICK u : u = [client EXCEPT !.cells = cells]
    OBVIOUS
  <2>4. u = IF x.rebuilds THEN Unloaded(client) ELSE client
    BY <2>2, <2>3 DEF Unloaded, Hands
  <2>5. u \in Hands /\ u.dig = client.dig /\ u.crack = client.crack /\ u.open = client.open
        /\ u.id = client.id /\ u.cells = cells
    BY <2>2, <2>3, CellsIs
  <2>6. PICK q : q = [u EXCEPT !.dead = FALSE, !.mode = x.mode]
    OBVIOUS
  <2>7. q \in Hands /\ q.dig = u.dig /\ q.crack = u.crack /\ q.open = u.open
        /\ q.id = u.id /\ q.cells = u.cells
    BY <2>1, <2>5, <2>6 DEF Hands
  <2>8. DigOK(q)
    BY <2>5, <2>7 DEF DigOK
  <2>9. r = Reset(q)
    BY <1>1, <1>8, <2>4, <2>6 DEF Received, Respawned
  <2>10. r \in Hands /\ DigOK(r) /\ r.cells = q.cells
    BY <2>5, <2>7, <2>8, <2>9, ResetIs
  <2>11. Unloads(x) <=> x.rebuilds
    BY <1>8 DEF Unloads
  <2> QED
    BY <1>1, <1>8, <2>2, <2>5, <2>7, <2>10, <2>11
<1>9. CASE x.kind = "join"
  <2>1. x.mode \in Modes /\ client.id + 1 \in Nat
    BY <1>2, <1>9, ClientPacketIs
  <2>2. PICK u : u = Unloaded(client)
    OBVIOUS
  <2>3. u \in Hands /\ u.dig = client.dig /\ u.crack = client.crack /\ u.open = client.open
        /\ u.id = client.id /\ u.cells = Nothing
    BY <1>3, <2>2, CellsIs DEF Unloaded
  <2>4. r = [u EXCEPT !.mode = x.mode, !.id = client.id + 1]
    BY <1>1, <1>9, <2>2, <2>3 DEF Received, Joined, Hands
  <2>5. r \in Hands /\ r.dig = u.dig /\ r.crack = u.crack /\ r.open = u.open
        /\ r.id = client.id + 1 /\ r.cells = u.cells
    BY <2>1, <2>3, <2>4 DEF Hands
  <2>6. \A e \in r.crack : e.by \in Nat /\ e.by <= client.id
    BY <2>3, <2>5 DEF DigOK, Hands, Cracks
  <2>7. \A e \in r.crack : e.by # r.id /\ e.by <= r.id
    BY <1>2, <2>5, <2>6
  <2>8. DigOK(r)
    BY <2>3, <2>5, <2>7 DEF DigOK
  <2> QED
    BY <1>1, <1>9, <2>3, <2>5, <2>8 DEF Unloads
<1> QED
  BY <1>4, <1>5, <1>6, <1>7, <1>8, <1>9, ClientPacketIs

LEMMA ReadKeeps == ASSUME IInv, Read PROVE IInv'
<1>1. PICK x : x = Head(toClient)
  OBVIOUS
<1>2. PICK p : p = Received(client, x)
  OBVIOUS
<1>3. /\ toClient # <<>> /\ toClient' = Tail(toClient) /\ Leaves(p)
      /\ UNCHANGED <<server, ghosts>>
  BY <1>1, <1>2 DEF Read
<1>4. /\ toClient \in Seq(ClientPackets) /\ client \in Hands /\ DigOK(client) /\ Reloads
      /\ server.cells \in [Cells -> Kinds]
  BY DEF IInv, TypeOK
<1>5. PICK N \in Nat : Len(toClient) = N + 1
  <2>1. Len(toClient) \in Nat /\ Len(toClient) # 0
    BY <1>3, <1>4
  <2>2. Len(toClient) - 1 \in Nat /\ Len(toClient) = (Len(toClient) - 1) + 1
    BY <2>1
  <2> QED
    BY <2>2
<1>6. /\ x = toClient[1] /\ x \in ClientPackets /\ DOMAIN toClient = 1 .. N + 1
      /\ DOMAIN toClient' = 1 .. N /\ \A i \in 1 .. N : toClient'[i] = toClient[i + 1]
      /\ toClient' \in Seq(ClientPackets)
  BY <1>1, <1>3, <1>4, <1>5
<1>7. 1 \in 1 .. N + 1 /\ \A i \in 1 .. N : i + 1 \in 1 .. N + 1
  OBVIOUS
<1>8. /\ p \in Hands /\ DigOK(p)
      /\ CASE x.kind = "change" -> p.cells = Written(client, x.cell, x.block).cells
           [] x.kind = "chunk"  -> p.cells = x.cells
           [] OTHER -> p.cells = IF Unloads(x) THEN Nothing ELSE client.cells
  BY <1>2, <1>4, <1>6, ReceivedIs
<1>9. /\ client' \in Hands /\ client'.sent = <<>> /\ client'.cells = p.cells
      /\ client'.dig = p.dig /\ client'.crack = p.crack /\ client'.open = p.open
      /\ client'.id = p.id /\ toServer' \in Seq(ServerPackets)
      /\ \A c \in Cells, k \in Stands :
           Assured(toServer, c, k) => Assured(toServer', c, k)
  BY <1>3, <1>8, LeavesIs
<1>10. TypeOK'
  BY <1>3, <1>6, <1>9 DEF IInv, TypeOK
<1>11. DigOK(client')
  BY <1>8, <1>9 DEF DigOK
<1>12. x.kind # "chunk" => \A c \in Cells : client.cells[c] # "void"
  BY <1>4, <1>6 DEF Reloads
<1>13. ASSUME x.kind = "change"
       PROVE  /\ x.cell \in Cells /\ x.block \in Kinds /\ p.cells[x.cell] = x.block
              /\ \A d \in Cells : d # x.cell => p.cells[d] = client.cells[d]
  <2>1. PICK d \in Cells, k \in Kinds : d = x.cell /\ k = x.block
    BY <1>6, <1>13, ClientPacketIs
  <2>2. PICK w : w = Written(client, d, k)
    OBVIOUS
  <2>3. p.cells = w.cells /\ client.cells[d] # "void"
    BY <1>8, <1>12, <1>13, <2>1, <2>2
  <2>4. /\ w.cells[d] = IF client.cells[d] = "void" THEN "void" ELSE k
        /\ \A e \in Cells : e # d => w.cells[e] = client.cells[e]
    BY <1>4, <2>2, WrittenIs
  <2> QED
    BY <2>1, <2>3, <2>4
<1>14. Unloads(x) => 1 \in 1 .. N /\ toClient'[1].kind = "chunk"
  <2>1. SUFFICES ASSUME Unloads(x) PROVE 1 \in 1 .. N /\ toClient'[1].kind = "chunk"
    OBVIOUS
  <2>2. 1 + 1 \in 1 .. N + 1 /\ toClient[1 + 1].kind = "chunk"
    BY <1>4, <1>6, <1>7, <2>1 DEF Reloads
  <2>3. 1 \in 1 .. N
    BY <2>2
  <2> QED
    BY <1>6, <2>2, <2>3
<1>15. Reloads'
  <2>1. ASSUME NEW i \in 1 .. N, Unloads(toClient'[i])
        PROVE  i + 1 \in 1 .. N /\ toClient'[i + 1].kind = "chunk"
    <3>1. Unloads(toClient[i + 1]) /\ i + 1 \in 1 .. N + 1
      BY <1>6, <1>7, <2>1
    <3>2. (i + 1) + 1 \in 1 .. N + 1 /\ toClient[(i + 1) + 1].kind = "chunk"
      BY <1>4, <1>6, <3>1 DEF Reloads
    <3>3. i + 1 \in 1 .. N
      BY <3>2
    <3> QED
      BY <1>6, <3>2, <3>3
  <2>2. ASSUME NEW c \in Cells, client'.cells[c] = "void"
        PROVE  1 \in 1 .. N /\ toClient'[1].kind = "chunk"
    <3>1. CASE x.kind = "chunk"
      <4>1. x.cells \in [Cells -> Kinds]
        BY <1>6, <3>1, ClientPacketIs
      <4> QED
        BY <1>8, <1>9, <2>2, <3>1, <4>1 DEF Kinds
    <3>2. CASE x.kind = "change"
      <4>1. c # x.cell => client'.cells[c] = client.cells[c]
        BY <1>9, <1>13, <3>2
      <4>2. c = x.cell => client'.cells[c] \in Kinds
        BY <1>9, <1>13, <3>2
      <4> QED
        BY <1>12, <2>2, <3>2, <4>1, <4>2 DEF Kinds
    <3>3. CASE x.kind \notin {"chunk", "change"} /\ Unloads(x)
      BY <1>14, <3>3
    <3>4. CASE x.kind \notin {"chunk", "change"} /\ ~Unloads(x)
      BY <1>8, <1>9, <1>12, <2>2, <3>4
    <3> QED
      BY <3>1, <3>2, <3>3, <3>4
  <2> QED
    BY <1>6, <2>1, <2>2 DEF Reloads
<1>16. ASSUME NEW c \in Cells \ ghosts PROVE Agrees(c)'
  <2>1. PICK v \in Kinds : v = server.cells[c]
    BY <1>4
  <2>2. CASE Assured(toServer, c, v)
    BY <1>3, <1>9, <2>1, <2>2 DEF Agrees, Stands
  <2>3. CASE Shows(client.cells[c], toClient, c, v)
    <3>1. CASE IF Tells(x, c) THEN p.cells[c] = Told(x, c) ELSE p.cells[c] = client.cells[c]
      <4>1. Shows(p.cells[c], Tail(toClient), c, v)
        BY <1>1, <1>3, <1>4, <2>3, <3>1, TellsTail
      <4> QED
        BY <1>3, <1>9, <2>1, <4>1 DEF Agrees
    <3>2. CASE x.kind = "change"
      <4>1. c # x.cell => p.cells[c] = client.cells[c] /\ ~Tells(x, c)
        BY <1>13, <3>2 DEF Tells
      <4>2. c = x.cell => p.cells[c] = x.block /\ Tells(x, c) /\ Told(x, c) = x.block
        BY <1>13, <3>2 DEF Tells, Told
      <4> QED
        BY <3>1, <4>1, <4>2
    <3>3. CASE x.kind = "chunk"
      BY <1>8, <3>1, <3>3 DEF Tells, Told
    <3>4. CASE x.kind \notin {"chunk", "change"} /\ ~Unloads(x)
      BY <1>8, <3>1, <3>4 DEF Tells
    <3>5. CASE x.kind \notin {"chunk", "change"} /\ Unloads(x)
      \* The chunk behind tells of every cell.
      <4>1. Tells(toClient[1 + 1], c) /\ 1 + 1 \in 1 .. N + 1 /\ 1 \in 1 .. N
        BY <1>6, <1>7, <1>14, <3>5 DEF Tells
      <4>2. LastTells(toClient, c, v)
        BY <1>6, <2>3, <4>1 DEF Shows, Silent
      <4>3. ~Tells(x, c)
        BY <3>5 DEF Tells
      <4>4. Shows(p.cells[c], toClient, c, v)
        BY <4>2 DEF Shows
      <4>5. Shows(p.cells[c], Tail(toClient), c, v)
        BY <1>1, <1>3, <1>4, <4>3, <4>4, TellsTail
      <4> QED
        BY <1>3, <1>9, <2>1, <4>5 DEF Agrees
    <3> QED
      BY <3>2, <3>3, <3>4, <3>5
  <2>4. Agrees(c)
    BY DEF IInv
  <2> QED
    BY <2>1, <2>2, <2>3, <2>4 DEF Agrees
<1> QED
  BY <1>3, <1>10, <1>11, <1>15, <1>16 DEF IInv

\* The player's buttons and looks change nothing the invariant reads.
LEMMA PlayerKeeps == ASSUME IInv, PlayerActs PROVE IInv'
<1>1. client \in Hands /\ client.sent = <<>> /\ client.left \in Nat /\ client.right \in Nat
  BY DEF IInv, TypeOK, Hands
<1>2. UNCHANGED <<server, toServer, toClient, ghosts>>
  BY DEF PlayerActs, Button, Look
<1> DEFINE Same == /\ client' \in Hands /\ client'.sent = client.sent
                  /\ client'.cells = client.cells /\ client'.dig = client.dig
                  /\ client'.crack = client.crack /\ client'.open = client.open
                  /\ client'.id = client.id
<1>3. Same
  <2>1. ASSUME NEW left \in BOOLEAN, NEW pressed \in BOOLEAN, Button(left, pressed)
        PROVE  Same
    <3>1. CASE left
      <4>1. PICK count \in Nat : count = IF pressed THEN client.left + 1 ELSE client.left
        BY <1>1
      <4>2. client' = [client EXCEPT !.held = pressed, !.left = count]
        BY <1>1, <2>1, <3>1, <4>1 DEF Button, Hands
      <4> QED
        BY <1>1, <4>2 DEF Hands
    <3>2. CASE ~left
      <4>1. PICK count \in Nat : count = IF pressed THEN client.right + 1 ELSE client.right
        BY <1>1
      <4>2. client' = [client EXCEPT !.right = count]
        BY <1>1, <2>1, <3>2, <4>1 DEF Button, Hands
      <4> QED
        BY <1>1, <4>2 DEF Hands
    <3> QED
      BY <3>1, <3>2
  <2>2. CASE Look
    <3>1. PICK looks \in BOOLEAN : looks = ~client.looks
      BY Zenon
    <3>2. client' = [client EXCEPT !.looks = looks]
      BY <1>1, <2>2, <3>1 DEF Look, Hands
    <3> QED
      BY <1>1, <3>2 DEF Hands
  <2> QED
    BY <2>1, <2>2 DEF PlayerActs
<1>4. TypeOK'
  BY <1>1, <1>2, <1>3 DEF IInv, TypeOK
<1>5. DigOK(client') /\ Reloads'
  BY <1>2, <1>3 DEF IInv, DigOK, Reloads
<1>6. \A c \in Cells \ ghosts : Agrees(c)'
  BY <1>2, <1>3 DEF IInv, Agrees
<1> QED
  BY <1>2, <1>4, <1>5, <1>6 DEF IInv

-----------------------------------------------------------------------------
(* The server's steps.                                                     *)

LEMMA TellsConcat ==
  ASSUME NEW S, NEW a \in Seq(S), NEW b \in Seq(S), NEW c, NEW k, NEW v
  PROVE  /\ LastTells(b, c, v) => Shows(k, a \o b, c, v)
         /\ Silent(b, c) /\ Shows(k, a, c, v) => Shows(k, a \o b, c, v)
<1>1. PICK m \in Nat, n \in Nat : m = Len(a) /\ n = Len(b)
  OBVIOUS
<1>2. PICK more : more = a \o b
  OBVIOUS
<1>3. /\ DOMAIN more = 1 .. m + n /\ DOMAIN a = 1 .. m /\ DOMAIN b = 1 .. n
      /\ \A i \in 1 .. m : more[i] = a[i]
      /\ \A i \in 1 .. n : more[m + i] = b[i]
  BY <1>1, <1>2
<1>4. \A j \in 1 .. m + n : j > m => j - m \in 1 .. n /\ m + (j - m) = j
  OBVIOUS
<1>5. /\ \A i \in 1 .. m : i \in 1 .. m + n
      /\ \A i \in 1 .. n : m + i \in 1 .. m + n
      /\ \A j \in 1 .. m + n : j > m \/ j \in 1 .. m
  OBVIOUS
<1>6. ASSUME LastTells(b, c, v) PROVE Shows(k, more, c, v)
  <2>1. PICK i \in 1 .. n : /\ Tells(b[i], c) /\ Told(b[i], c) = v
                            /\ \A j \in 1 .. n : j > i => ~Tells(b[j], c)
    BY <1>3, <1>6 DEF LastTells
  <2>2. Tells(more[m + i], c) /\ Told(more[m + i], c) = v
    BY <1>3, <2>1
  <2>3. ASSUME NEW j \in 1 .. m + n, j > m + i PROVE ~Tells(more[j], c)
    <3>1. j > m /\ j - m > i
      BY <2>3
    <3>2. more[j] = b[j - m] /\ j - m \in 1 .. n
      BY <1>3, <1>4, <3>1
    <3> QED
      BY <2>1, <3>1, <3>2
  <2> QED
    BY <1>3, <1>5, <2>2, <2>3 DEF Shows, LastTells
<1>7. ASSUME Silent(b, c), Shows(k, a, c, v) PROVE Shows(k, more, c, v)
  <2>1. \A j \in 1 .. m + n : j > m => ~Tells(more[j], c)
    BY <1>3, <1>4, <1>7 DEF Silent
  <2>2. CASE k = v /\ Silent(a, c)
    <3>1. Silent(more, c)
      BY <1>3, <1>5, <2>1, <2>2 DEF Silent
    <3> QED
      BY <2>2, <3>1 DEF Shows
  <2>3. CASE LastTells(a, c, v)
    <3>1. PICK i \in 1 .. m : /\ Tells(a[i], c) /\ Told(a[i], c) = v
                              /\ \A j \in 1 .. m : j > i => ~Tells(a[j], c)
      BY <1>3, <2>3 DEF LastTells
    <3>2. \A j \in 1 .. m + n : j > i => ~Tells(more[j], c)
      BY <1>3, <1>5, <2>1, <3>1
    <3>3. Tells(more[i], c) /\ Told(more[i], c) = v /\ i \in 1 .. m + n
      BY <1>3, <1>5, <3>1
    <3> QED
      BY <1>3, <3>2, <3>3 DEF Shows, LastTells
  <2> QED
    BY <1>7, <2>2, <2>3 DEF Shows
<1> QED
  BY <1>2, <1>6, <1>7

Worldly(packets) ==
  \A i \in DOMAIN packets :
    Unloads(packets[i]) => i + 1 \in DOMAIN packets /\ packets[i + 1].kind = "chunk"

\* What the server says last of a cell is what stands there, or it says nothing
\* of it and changes nothing there.
LEMMA TellKeeps ==
  ASSUME IInv, UNCHANGED client, NEW packets \in Seq(ClientPackets), Tell(packets),
         server' \in [cells : [Cells -> Kinds], mode : Modes, alive : BOOLEAN],
         toServer' \in Seq(ServerPackets), ghosts' \subseteq Cells, Worldly(packets),
         \A c \in Cells \ ghosts' :
           \/ LastTells(packets, c, server'.cells[c])
           \/ /\ Silent(packets, c) /\ c \notin ghosts /\ server'.cells[c] = server.cells[c]
              /\ Assured(toServer, c, server.cells[c]) => Assured(toServer', c, server.cells[c])
  PROVE  IInv'
<1>1. toClient \in Seq(ClientPackets) /\ toClient' = toClient \o packets
  BY DEF IInv, TypeOK, Tell
<1>2. toClient' \in Seq(ClientPackets)
  BY <1>1
<1>3. TypeOK'
  BY <1>2 DEF IInv, TypeOK
<1>4. PICK m \in Nat, n \in Nat : m = Len(toClient) /\ n = Len(packets)
  BY <1>1
<1>5. /\ DOMAIN toClient' = 1 .. m + n /\ DOMAIN toClient = 1 .. m /\ DOMAIN packets = 1 .. n
      /\ \A i \in 1 .. m : toClient'[i] = toClient[i]
      /\ \A i \in 1 .. n : toClient'[m + i] = packets[i]
  BY <1>1, <1>4
<1>6. Reloads'
  <2>1. ASSUME NEW i \in 1 .. m, Unloads(toClient[i])
        PROVE  i + 1 \in 1 .. m + n /\ toClient'[i + 1].kind = "chunk"
    <3>1. i + 1 \in 1 .. m /\ toClient[i + 1].kind = "chunk"
      BY <1>5, <2>1 DEF IInv, Reloads
    <3> QED
      BY <1>5, <3>1
  <2>2. ASSUME NEW i \in 1 .. n, Unloads(packets[i])
        PROVE  (m + i) + 1 \in 1 .. m + n /\ toClient'[(m + i) + 1].kind = "chunk"
    <3>1. i + 1 \in 1 .. n /\ packets[i + 1].kind = "chunk"
      BY <1>5, <2>2 DEF Worldly
    <3>2. (m + i) + 1 = m + (i + 1)
      OBVIOUS
    <3>3. m + (i + 1) \in 1 .. m + n
      <4>1. \A j \in 1 .. n : m + j \in 1 .. m + n
        OBVIOUS
      <4> QED
        BY <3>1, <4>1
    <3> QED
      BY <1>5, <3>1, <3>2, <3>3
  <2>3. ASSUME NEW i \in 1 .. m + n, Unloads(toClient'[i])
        PROVE  i + 1 \in 1 .. m + n /\ toClient'[i + 1].kind = "chunk"
    <3>1. CASE i \in 1 .. m
      BY <1>5, <2>1, <2>3, <3>1
    <3>2. CASE i \notin 1 .. m
      <4>1. i - m \in 1 .. n /\ m + (i - m) = i
        BY <3>2
      <4>2. Unloads(packets[i - m])
        BY <1>5, <2>3, <4>1
      <4> QED
        BY <2>2, <4>1, <4>2
    <3> QED
      BY <3>1, <3>2
  <2>4. ASSUME NEW c \in Cells, client.cells[c] = "void"
        PROVE  1 \in 1 .. m + n /\ toClient'[1].kind = "chunk"
    <3>1. 1 \in 1 .. m /\ toClient[1].kind = "chunk"
      BY <1>5, <2>4 DEF IInv, Reloads
    <3> QED
      BY <1>5, <3>1
  <2> QED
    BY <1>5, <2>3, <2>4 DEF Reloads
<1>7. ASSUME NEW c \in Cells \ ghosts' PROVE Agrees(c)'
  <2>1. CASE LastTells(packets, c, server'.cells[c])
    <3>1. Shows(client.cells[c], toClient \o packets, c, server'.cells[c])
      BY <1>1, <2>1, TellsConcat
    <3> QED
      BY <1>1, <3>1 DEF Agrees
  <2>2. CASE /\ Silent(packets, c) /\ c \notin ghosts /\ server'.cells[c] = server.cells[c]
             /\ Assured(toServer, c, server.cells[c])
                  => Assured(toServer', c, server.cells[c])
    <3>1. Agrees(c)
      BY <2>2 DEF IInv
    <3>2. Shows(client.cells[c], toClient, c, server.cells[c])
            => Shows(client.cells[c], toClient \o packets, c, server.cells[c])
      BY <1>1, <2>2, TellsConcat
    <3> QED
      BY <1>1, <2>2, <3>1, <3>2 DEF Agrees
  <2> QED
    BY <2>1, <2>2
<1> QED
  BY <1>3, <1>6, <1>7 DEF IInv

\* One packet and two.
LEMMA OnePacket ==
  ASSUME NEW x \in ClientPackets, ~Unloads(x)
  PROVE  /\ <<x>> \in Seq(ClientPackets) /\ Worldly(<<x>>)
         /\ \A c, v : Tells(x, c) /\ Told(x, c) = v => LastTells(<<x>>, c, v)
         /\ \A c : ~Tells(x, c) => Silent(<<x>>, c)
<1>1. PICK s : s = <<x>>
  OBVIOUS
<1>2. s \in Seq(ClientPackets) /\ DOMAIN s = {1} /\ s[1] = x
  BY <1>1
<1>3. Worldly(s)
  BY <1>2 DEF Worldly
<1>4. \A c, v : Tells(x, c) /\ Told(x, c) = v => LastTells(s, c, v)
  BY <1>2 DEF LastTells
<1>5. \A c : ~Tells(x, c) => Silent(s, c)
  BY <1>2 DEF Silent
<1> QED
  BY <1>1, <1>2, <1>3, <1>4, <1>5

LEMMA TwoPackets ==
  ASSUME NEW x \in ClientPackets, NEW y \in ClientPackets, ~Unloads(y),
         Unloads(x) => y.kind = "chunk"
  PROVE  /\ <<x, y>> \in Seq(ClientPackets) /\ Worldly(<<x, y>>)
         /\ \A c, v : Tells(y, c) /\ Told(y, c) = v => LastTells(<<x, y>>, c, v)
         /\ \A c, v : ~Tells(y, c) /\ Tells(x, c) /\ Told(x, c) = v
                        => LastTells(<<x, y>>, c, v)
         /\ \A c : ~Tells(x, c) /\ ~Tells(y, c) => Silent(<<x, y>>, c)
<1>1. PICK s : s = <<x, y>>
  OBVIOUS
<1>2. s \in Seq(ClientPackets) /\ DOMAIN s = {1, 2} /\ s[1] = x /\ s[2] = y
  BY <1>1
<1>3. Worldly(s)
  <2>1. 1 + 1 = 2
    OBVIOUS
  <2> QED
    BY <1>2, <2>1 DEF Worldly
<1>4. \A c, v : Tells(y, c) /\ Told(y, c) = v => LastTells(s, c, v)
  <2>1. ~(1 > 2) /\ ~(2 > 2)
    OBVIOUS
  <2> QED
    BY <1>2, <2>1 DEF LastTells
<1>5. \A c, v : ~Tells(y, c) /\ Tells(x, c) /\ Told(x, c) = v => LastTells(s, c, v)
  <2>1. ~(1 > 1)
    OBVIOUS
  <2> QED
    BY <1>2, <2>1 DEF LastTells
<1>6. \A c : ~Tells(x, c) /\ ~Tells(y, c) => Silent(s, c)
  BY <1>2 DEF Silent
<1> QED
  BY <1>1, <1>2, <1>3, <1>4, <1>5, <1>6

LEMMA ChangeIs ==
  ASSUME NEW c \in Cells, NEW k \in Kinds
  PROVE  /\ Change(c, k) \in ClientPackets /\ ~Unloads(Change(c, k))
         /\ Tells(Change(c, k), c) /\ Told(Change(c, k), c) = k
         /\ \A d : d # c => ~Tells(Change(c, k), d)
         /\ Change(c, k).kind # "chunk"
BY DEF Change, ClientPackets, Unloads, Tells, Told

LEMMA ChunkIs ==
  ASSUME NEW cells \in [Cells -> Kinds]
  PROVE  /\ Chunk(cells) \in ClientPackets /\ ~Unloads(Chunk(cells))
         /\ Chunk(cells).kind = "chunk"
         /\ \A c \in Cells : Tells(Chunk(cells), c) /\ Told(Chunk(cells), c) = cells[c]
BY DEF Chunk, ClientPackets, Unloads, Tells, Told

\* What the server holds, in its type.
LEMMA ServerIs ==
  ASSUME IInv
  PROVE  /\ server \in [cells : [Cells -> Kinds], mode : Modes, alive : BOOLEAN]
         /\ server.cells \in [Cells -> Kinds] /\ server.mode \in Modes
         /\ toServer \in Seq(ServerPackets) /\ ghosts \subseteq Cells
BY DEF IInv, TypeOK

LEMMA CellIs ==
  ASSUME IInv, NEW c \in Cells, NEW k \in Kinds, server' = [server EXCEPT !.cells[c] = k]
  PROVE  /\ server' \in [cells : [Cells -> Kinds], mode : Modes, alive : BOOLEAN]
         /\ server'.cells[c] = k
         /\ \A d \in Cells : d # c => server'.cells[d] = server.cells[d]
<1>1. PICK cells : cells = [server.cells EXCEPT ![c] = k]
  OBVIOUS
<1>2. cells \in [Cells -> Kinds] /\ cells[c] = k
      /\ \A d \in Cells : d # c => cells[d] = server.cells[d]
  BY <1>1, ServerIs
<1>3. server' = [server EXCEPT !.cells = cells]
  BY <1>1, ServerIs
<1> QED
  BY <1>2, <1>3, ServerIs

\* A packet that is not of the cells.
LEMMA PlainKeeps ==
  ASSUME IInv, UNCHANGED <<client, toServer, ghosts>>, NEW x \in ClientPackets,
         x.kind \notin {"chunk", "change"}, ~Unloads(x), Tell(<<x>>),
         server' \in [cells : [Cells -> Kinds], mode : Modes, alive : BOOLEAN],
         server'.cells = server.cells
  PROVE  IInv'
<1>1. /\ toServer' \in Seq(ServerPackets) /\ ghosts' \subseteq Cells
      /\ <<x>> \in Seq(ClientPackets) /\ Worldly(<<x>>)
  BY ServerIs, OnePacket
<1>2. \A c : ~Tells(x, c)
  BY DEF Tells
<1>3. \A c : Silent(<<x>>, c)
  BY <1>2, OnePacket
<1> QED
  BY <1>1, <1>3, TellKeeps

\* The server's own cells, all told again.
LEMMA WorldKeeps ==
  ASSUME IInv, UNCHANGED <<client, toServer>>, ghosts' = {}, NEW x \in ClientPackets,
         Unloads(x), Tell(<<x, Chunk(server.cells)>>),
         server' \in [cells : [Cells -> Kinds], mode : Modes, alive : BOOLEAN],
         server'.cells = server.cells
  PROVE  IInv'
<1>1. PICK y : y = Chunk(server.cells)
  OBVIOUS
<1>2. /\ y \in ClientPackets /\ ~Unloads(y) /\ y.kind = "chunk"
      /\ \A c \in Cells : Tells(y, c) /\ Told(y, c) = server.cells[c]
  BY <1>1, ChunkIs, ServerIs
<1>3. /\ <<x, y>> \in Seq(ClientPackets) /\ Worldly(<<x, y>>)
      /\ \A c \in Cells : LastTells(<<x, y>>, c, server.cells[c])
  BY <1>2, TwoPackets
<1>4. toServer' \in Seq(ServerPackets) /\ ghosts' \subseteq Cells
  BY ServerIs
<1> QED
  BY <1>1, <1>3, <1>4, TellKeeps

LEMMA Joins ==
  ASSUME NEW S, NEW x \in S, NEW y \in S
  PROVE  <<x>> \o <<y>> = <<x, y>>
<1>1. PICK a, b : a = <<x>> /\ b = <<y>>
  OBVIOUS
<1>2. a \in Seq(S) /\ b \in Seq(S) /\ Len(a) = 1 /\ Len(b) = 1 /\ a[1] = x /\ b[1] = y
  BY <1>1
<1>3. PICK both : both = a \o b
  OBVIOUS
<1>4. /\ both \in Seq(S) /\ Len(both) = Len(a) + Len(b)
      /\ \A i \in 1 .. Len(a) + Len(b) :
           both[i] = IF i <= Len(a) THEN a[i] ELSE b[i - Len(a)]
  BY <1>2, <1>3, ConcatProperties, Zenon
<1>5. both \in Seq(S) /\ Len(both) = 2 /\ both[1] = x /\ both[2] = y
  BY <1>2, <1>4
<1>6. both = <<x, y>>
  BY <1>5
<1> QED
  BY <1>1, <1>3, <1>6

LEMMA DecidesKeep == ASSUME IInv, ServerDecides PROVE IInv'
<1>1. ASSUME NEW c \in Cells, NEW k \in Kinds, SetCell(c, k) PROVE IInv'
  <2>1. PICK x : x = Change(c, k)
    OBVIOUS
  <2>2. /\ x \in ClientPackets /\ ~Unloads(x) /\ Tells(x, c) /\ Told(x, c) = k
        /\ \A d : d # c => ~Tells(x, d)
    BY <2>1, ChangeIs
  <2>3. /\ server' = [server EXCEPT !.cells[c] = k] /\ Tell(<<x>>)
        /\ ghosts' = ghosts \ {c} /\ UNCHANGED <<client, toServer>>
    BY <1>1, <2>1 DEF SetCell
  <2>4. /\ server' \in [cells : [Cells -> Kinds], mode : Modes, alive : BOOLEAN]
        /\ server'.cells[c] = k
        /\ \A d \in Cells : d # c => server'.cells[d] = server.cells[d]
    BY <2>3, CellIs
  <2>5. /\ <<x>> \in Seq(ClientPackets) /\ Worldly(<<x>>) /\ LastTells(<<x>>, c, k)
        /\ \A d : d # c => Silent(<<x>>, d)
    BY <2>2, OnePacket
  <2>6. toServer' \in Seq(ServerPackets) /\ ghosts' \subseteq Cells
    BY <2>3, ServerIs
  <2>7. ASSUME NEW d \in Cells \ ghosts'
        PROVE  \/ LastTells(<<x>>, d, server'.cells[d])
               \/ /\ Silent(<<x>>, d) /\ d \notin ghosts /\ server'.cells[d] = server.cells[d]
                  /\ Assured(toServer, d, server.cells[d])
                       => Assured(toServer', d, server.cells[d])
    BY <2>3, <2>4, <2>5
  <2> QED
    BY <2>3, <2>4, <2>5, <2>6, <2>7, TellKeeps
<1>2. ASSUME NEW m \in Modes, SetMode(m) PROVE IInv'
  <2>1. PICK x : x = [kind |-> "mode", mode |-> m]
    OBVIOUS
  <2>2. x \in ClientPackets /\ x.kind \notin {"chunk", "change"} /\ ~Unloads(x)
    BY <2>1 DEF ClientPackets, Unloads
  <2>3. /\ server' \in [cells : [Cells -> Kinds], mode : Modes, alive : BOOLEAN]
        /\ server'.cells = server.cells
    BY <1>2, ServerIs DEF SetMode
  <2> QED
    BY <1>2, <2>1, <2>2, <2>3, PlainKeeps DEF SetMode
<1>3. CASE Kill
  <2>1. PICK x : x = [kind |-> "health"]
    OBVIOUS
  <2>2. x \in ClientPackets /\ x.kind \notin {"chunk", "change"} /\ ~Unloads(x)
    BY <2>1 DEF ClientPackets, Unloads
  <2>3. /\ server' \in [cells : [Cells -> Kinds], mode : Modes, alive : BOOLEAN]
        /\ server'.cells = server.cells
    BY <1>3, ServerIs DEF Kill
  <2> QED
    BY <1>3, <2>1, <2>2, <2>3, PlainKeeps DEF Kill
<1>4. CASE Rejoin
  <2>1. PICK x : x = [kind |-> "join", mode |-> server.mode]
    OBVIOUS
  <2>2. x \in ClientPackets /\ Unloads(x)
    BY <2>1, ServerIs DEF ClientPackets, Unloads
  <2>3. UNCHANGED <<client, server, toServer>> /\ ghosts' = {} /\ Tell(<<x, Chunk(server.cells)>>)
    BY <1>4, <2>1 DEF Rejoin
  <2>4. server' \in [cells : [Cells -> Kinds], mode : Modes, alive : BOOLEAN]
    BY <2>3, ServerIs
  <2> QED
    BY <2>2, <2>3, <2>4, WorldKeeps
<1>5. ASSUME NEW rebuilds \in BOOLEAN, Respawn(rebuilds) PROVE IInv'
  <2>1. PICK x : x = [kind |-> "respawn", rebuilds |-> rebuilds, mode |-> server.mode]
    OBVIOUS
  <2>2. x \in ClientPackets /\ x.kind = "respawn" /\ (Unloads(x) <=> rebuilds)
    BY <2>1, ServerIs DEF ClientPackets, Unloads
  <2>3. /\ server' \in [cells : [Cells -> Kinds], mode : Modes, alive : BOOLEAN]
        /\ server'.cells = server.cells
    BY <1>5, ServerIs DEF Respawn
  <2>4. CASE rebuilds
    <3>1. <<x>> \o <<Chunk(server.cells)>> = <<x, Chunk(server.cells)>>
      <4>1. PICK y \in ClientPackets : y = Chunk(server.cells)
        BY ChunkIs, ServerIs
      <4>2. <<x>> \o <<y>> = <<x, y>>
        BY <2>2, Joins
      <4> QED
        BY <4>1, <4>2
    <3>2. Tell(<<x, Chunk(server.cells)>>) /\ ghosts' = {} /\ UNCHANGED <<client, toServer>>
      BY <1>5, <2>1, <2>4, <3>1 DEF Respawn
    <3> QED
      BY <2>2, <2>3, <2>4, <3>2, WorldKeeps
  <2>5. CASE ~rebuilds
    <3>1. <<x>> \o <<>> = <<x>>
      OBVIOUS
    <3>2. Tell(<<x>>) /\ UNCHANGED <<client, toServer, ghosts>>
      BY <1>5, <2>1, <2>5, <3>1 DEF Respawn
    <3> QED
      BY <2>2, <2>3, <2>5, <3>2, PlainKeeps
  <2> QED
    BY <2>4, <2>5
<1> QED
  BY <1>1, <1>2, <1>3, <1>4, <1>5 DEF ServerDecides

\* A packet that is read assures what it is sure of, or the ones behind it do.
LEMMA AssuredTail ==
  ASSUME NEW s \in Seq(ServerPackets), s # <<>>, NEW c, NEW k, Assured(s, c, k),
         ~Sure(Head(s), c, k)
  PROVE  Assured(Tail(s), c, k)
<1>1. PICK n \in Nat : n = Len(s)
  OBVIOUS
<1>2. PICK rest : rest = Tail(s)
  OBVIOUS
<1>3. /\ DOMAIN s = 1 .. n /\ Head(s) = s[1] /\ DOMAIN rest = 1 .. n - 1
      /\ \A j \in 1 .. n - 1 : rest[j] = s[j + 1]
  BY <1>1, <1>2
<1>4. PICK i \in 1 .. n : Sure(s[i], c, k)
  BY <1>3 DEF Assured
<1>5. i # 1
  BY <1>3, <1>4
<1>6. i - 1 \in 1 .. n - 1 /\ (i - 1) + 1 = i
  BY <1>5
<1>7. Sure(rest[i - 1], c, k)
  BY <1>3, <1>4, <1>6
<1> QED
  BY <1>2, <1>3, <1>6, <1>7 DEF Assured

\* Changes of the cells a packet is answered with, one or two.
LEMMA AnswerOne ==
  ASSUME IInv, NEW c \in Cells, Answers(c, <<c>>),
         server' \in [cells : [Cells -> Kinds], mode : Modes, alive : BOOLEAN]
  PROVE  \E packets \in Seq(ClientPackets) :
           /\ Tell(packets) /\ Worldly(packets) /\ ghosts' = ghosts \ {c}
           /\ LastTells(packets, c, server'.cells[c])
           /\ \A d : d # c => Silent(packets, d)
<1>1. PICK k \in Kinds : k = server'.cells[c]
  OBVIOUS
<1>2. PICK x : x = Change(c, k)
  OBVIOUS
<1>3. /\ x \in ClientPackets /\ ~Unloads(x) /\ Tells(x, c) /\ Told(x, c) = k
      /\ \A d : d # c => ~Tells(x, d)
  BY <1>2, ChangeIs
<1>4. /\ <<x>> \in Seq(ClientPackets) /\ Worldly(<<x>>) /\ LastTells(<<x>>, c, k)
      /\ \A d : d # c => Silent(<<x>>, d)
  BY <1>3, OnePacket
<1>5. PICK told : told = <<c>>
  OBVIOUS
<1>6. Len(told) = 1 /\ told[1] = c /\ DOMAIN told = {1}
  BY <1>5
<1>7. PICK packets : packets = [i \in 1 .. Len(told) |-> Change(told[i], server'.cells[told[i]])]
  OBVIOUS
<1>8. packets = <<x>>
  <2>1. PICK one : one = <<x>>
    OBVIOUS
  <2>2. one = [i \in 1 .. 1 |-> x]
    BY <2>1
  <2>3. ASSUME NEW i \in 1 .. 1 PROVE Change(told[i], server'.cells[told[i]]) = x
    <3>1. i = 1
      OBVIOUS
    <3> QED
      BY <1>1, <1>2, <1>6, <3>1
  <2>4. packets = [i \in 1 .. 1 |-> Change(told[i], server'.cells[told[i]])]
    BY <1>6, <1>7
  <2>5. packets = [i \in 1 .. 1 |-> x]
    BY <2>3, <2>4, Zenon
  <2> QED
    BY <2>1, <2>2, <2>5
<1>9. Tell(<<x>>)
  BY <1>5, <1>7, <1>8 DEF Answers
<1>10. ghosts' = ghosts \ {c}
  <2>1. Range(told) = {c}
    BY <1>6 DEF Range
  <2> QED
    BY <1>5, <2>1 DEF Answers
<1> QED
  BY <1>1, <1>4, <1>9, <1>10

LEMMA AnswerTwo ==
  ASSUME IInv, NEW b \in Cells, NEW c \in Cells, b # c, Answers(c, <<b, c>>),
         server' \in [cells : [Cells -> Kinds], mode : Modes, alive : BOOLEAN]
  PROVE  \E packets \in Seq(ClientPackets) :
           /\ Tell(packets) /\ Worldly(packets) /\ ghosts' = ghosts \ {b, c}
           /\ \A d \in {b, c} : LastTells(packets, d, server'.cells[d])
           /\ \A d : d \notin {b, c} => Silent(packets, d)
<1>1. PICK j \in Kinds, k \in Kinds : j = server'.cells[b] /\ k = server'.cells[c]
  OBVIOUS
<1>2. PICK x, y : x = Change(b, j) /\ y = Change(c, k)
  OBVIOUS
<1>3. /\ x \in ClientPackets /\ ~Unloads(x) /\ Tells(x, b) /\ Told(x, b) = j
      /\ \A d : d # b => ~Tells(x, d)
  BY <1>2, ChangeIs
<1>4. /\ y \in ClientPackets /\ ~Unloads(y) /\ Tells(y, c) /\ Told(y, c) = k
      /\ \A d : d # c => ~Tells(y, d)
  BY <1>2, ChangeIs
<1>5. /\ <<x, y>> \in Seq(ClientPackets) /\ Worldly(<<x, y>>)
      /\ LastTells(<<x, y>>, b, j) /\ LastTells(<<x, y>>, c, k)
      /\ \A d : d \notin {b, c} => Silent(<<x, y>>, d)
  BY <1>3, <1>4, TwoPackets
<1>6. PICK told : told = <<b, c>>
  OBVIOUS
<1>7. Len(told) = 2 /\ told[1] = b /\ told[2] = c /\ DOMAIN told = {1, 2}
  BY <1>6
<1>8. PICK packets : packets = [i \in 1 .. Len(told) |-> Change(told[i], server'.cells[told[i]])]
  OBVIOUS
<1>9. packets = <<x, y>>
  <2>1. PICK two : two = <<x, y>>
    OBVIOUS
  <2>2. two = [i \in 1 .. 2 |-> IF i = 1 THEN x ELSE y]
    BY <2>1
  <2>3. ASSUME NEW i \in 1 .. 2
        PROVE  Change(told[i], server'.cells[told[i]]) = IF i = 1 THEN x ELSE y
    <3>1. i = 1 \/ (i = 2 /\ i # 1)
      OBVIOUS
    <3> QED
      BY <1>1, <1>2, <1>7, <3>1
  <2>4. packets = [i \in 1 .. 2 |-> Change(told[i], server'.cells[told[i]])]
    BY <1>7, <1>8
  <2>5. packets = [i \in 1 .. 2 |-> IF i = 1 THEN x ELSE y]
    BY <2>3, <2>4, Zenon
  <2> QED
    BY <2>1, <2>2, <2>5
<1>10. Tell(<<x, y>>)
  BY <1>6, <1>8, <1>9 DEF Answers
<1>11. ghosts' = ghosts \ {b, c}
  <2>1. Range(told) = {b, c}
    BY <1>7 DEF Range
  <2> QED
    BY <1>6, <2>1 DEF Answers
<1> QED
  BY <1>1, <1>5, <1>10, <1>11

\* The server reads a packet: what that packet was sure of it answers, or it is
\* a ghost from then on.
LEMMA ServerReadsKeep == ASSUME IInv, ServerReads PROVE IInv'
<1>1. toServer # <<>> /\ toServer' = Tail(toServer) /\ UNCHANGED client
  BY DEF ServerReads
<1>2. toServer \in Seq(ServerPackets) /\ ghosts \subseteq Cells
  BY ServerIs
<1>3. PICK x : x = Head(toServer)
  OBVIOUS
<1>4. x \in ServerPackets /\ toServer' \in Seq(ServerPackets)
  BY <1>1, <1>2, <1>3
<1>5. PICK c \in Cells : c = x.cell
  BY <1>4 DEF ServerPackets
<1>6. \A d, k : Assured(toServer, d, k) /\ ~Sure(x, d, k) => Assured(toServer', d, k)
  BY <1>1, <1>2, <1>3, AssuredTail
\* An answer of none.
<1>7. ASSUME UNCHANGED <<server, toClient>>, ghosts' \subseteq Cells, ghosts \subseteq ghosts',
             \A d \in Cells \ ghosts' : ~Sure(x, d, server.cells[d])
      PROVE  IInv'
  <2>1. PICK none : none = <<>>
    OBVIOUS
  <2>2. none \in Seq(ClientPackets) /\ DOMAIN none = {} /\ Worldly(none)
        /\ \A d : Silent(none, d)
    BY <2>1 DEF Worldly, Silent
  <2>3. toClient \in Seq(ClientPackets)
    BY DEF IInv, TypeOK
  <2>4. Tell(none)
    BY <1>7, <2>1, <2>3 DEF Tell
  <2>5. server' \in [cells : [Cells -> Kinds], mode : Modes, alive : BOOLEAN]
    BY <1>7, ServerIs
  <2>6. \A d \in Cells \ ghosts' :
          /\ Silent(none, d) /\ d \notin ghosts /\ server'.cells[d] = server.cells[d]
          /\ Assured(toServer, d, server.cells[d]) => Assured(toServer', d, server.cells[d])
    BY <1>6, <1>7, <2>2
  <2> QED
    BY <1>1, <1>4, <1>7, <2>2, <2>4, <2>5, <2>6, TellKeeps
\* A dig the server answers.
<1>8. ASSUME x.kind \in {"start", "finish"}, Breaks(c) PROVE IInv'
  <2>1. PICK k \in Kinds : server' = [server EXCEPT !.cells[c] = k]
    <3>1. {"air", server.cells[c]} \subseteq Kinds
      BY ServerIs DEF Kinds
    <3> QED
      BY <1>8, <3>1 DEF Breaks
  <2>2. /\ server' \in [cells : [Cells -> Kinds], mode : Modes, alive : BOOLEAN]
        /\ \A d \in Cells : d # c => server'.cells[d] = server.cells[d]
    BY <2>1, CellIs
  <2>3. Answers(c, <<c>>)
    BY <1>8 DEF Breaks
  <2>4. PICK packets \in Seq(ClientPackets) :
          /\ Tell(packets) /\ Worldly(packets) /\ ghosts' = ghosts \ {c}
          /\ LastTells(packets, c, server'.cells[c])
          /\ \A d : d # c => Silent(packets, d)
    BY <2>2, <2>3, AnswerOne
  <2>5. \A d, v : d # c => ~Sure(x, d, v)
    BY <1>5, <1>8 DEF Sure
  <2>6. \A d \in Cells \ ghosts' :
          \/ LastTells(packets, d, server'.cells[d])
          \/ /\ Silent(packets, d) /\ d \notin ghosts /\ server'.cells[d] = server.cells[d]
             /\ Assured(toServer, d, server.cells[d]) => Assured(toServer', d, server.cells[d])
    BY <1>6, <2>2, <2>4, <2>5
  <2>7. ghosts' \subseteq Cells
    BY <1>2, <2>4
  <2> QED
    BY <1>1, <1>4, <2>2, <2>4, <2>6, <2>7, TellKeeps
\* A placement.
<1>9. ASSUME x.kind = "place", Places(c) PROVE IInv'
  <2>1. /\ server' \in [cells : [Cells -> Kinds], mode : Modes, alive : BOOLEAN]
        /\ \A d \in Cells : d \notin {c - 1, c} => server'.cells[d] = server.cells[d]
    <3>1. CASE UNCHANGED server
      BY <3>1, ServerIs
    <3>2. ASSUME NEW t \in Cells, t \in {c - 1, c},
                 server' = [server EXCEPT !.cells[t] = "stone"]
          PROVE  /\ server' \in [cells : [Cells -> Kinds], mode : Modes, alive : BOOLEAN]
                 /\ \A d \in Cells : d \notin {c - 1, c} => server'.cells[d] = server.cells[d]
      <4>1. "stone" \in Kinds
        BY DEF Kinds
      <4> QED
        BY <3>2, <4>1, CellIs
    <3>3. \/ UNCHANGED server
          \/ \E t \in Cells : t \in {c - 1, c} /\ server' = [server EXCEPT !.cells[t] = "stone"]
      BY <1>9 DEF Places
    <3> QED
      BY <3>1, <3>2, <3>3
  <2>2. \A d, k : d \notin {c - 1, c} => ~Sure(x, d, k)
    BY <1>5, <1>9 DEF Sure
  <2>3. CASE c - 1 \in Cells
    <3>1. PICK b \in Cells : b = c - 1
      BY <2>3
    <3>2. Answers(c, <<b, c>>)
      BY <1>9, <2>3, <3>1 DEF Places
    <3>3. b # c
      BY <3>1 DEF Cells
    <3>4. PICK packets \in Seq(ClientPackets) :
            /\ Tell(packets) /\ Worldly(packets) /\ ghosts' = ghosts \ {b, c}
            /\ \A d \in {b, c} : LastTells(packets, d, server'.cells[d])
            /\ \A d : d \notin {b, c} => Silent(packets, d)
      BY <2>1, <3>2, <3>3, AnswerTwo
    <3>5. \A d \in Cells \ ghosts' :
            \/ LastTells(packets, d, server'.cells[d])
            \/ /\ Silent(packets, d) /\ d \notin ghosts /\ server'.cells[d] = server.cells[d]
               /\ Assured(toServer, d, server.cells[d])
                    => Assured(toServer', d, server.cells[d])
      BY <1>6, <2>1, <2>2, <3>1, <3>4
    <3>6. ghosts' \subseteq Cells
      BY <1>2, <3>4
    <3> QED
      BY <1>1, <1>4, <2>1, <3>4, <3>5, <3>6, TellKeeps
  <2>4. CASE c - 1 \notin Cells
    <3>1. Answers(c, <<c>>)
      BY <1>9, <2>4 DEF Places
    <3>2. PICK packets \in Seq(ClientPackets) :
            /\ Tell(packets) /\ Worldly(packets) /\ ghosts' = ghosts \ {c}
            /\ LastTells(packets, c, server'.cells[c])
            /\ \A d : d # c => Silent(packets, d)
      BY <2>1, <3>1, AnswerOne
    <3>3. \A d \in Cells : d # c => d \notin {c - 1, c}
      BY <2>4
    <3>4. \A d \in Cells \ ghosts' :
            \/ LastTells(packets, d, server'.cells[d])
            \/ /\ Silent(packets, d) /\ d \notin ghosts /\ server'.cells[d] = server.cells[d]
               /\ Assured(toServer, d, server.cells[d])
                    => Assured(toServer', d, server.cells[d])
      BY <1>6, <2>1, <2>2, <3>2, <3>3
    <3>5. ghosts' \subseteq Cells
      BY <1>2, <3>2
    <3> QED
      BY <1>1, <1>4, <2>1, <3>2, <3>4, <3>5, TellKeeps
  <2> QED
    BY <2>3, <2>4
<1>10. ASSUME x.kind = "start", server.cells[c] # "plant", Opens(x) PROVE IInv'
  <2>1. ghosts' = IF x.how = "creative" THEN ghosts \cup {c} ELSE ghosts
    BY <1>5, <1>10 DEF Opens
  <2>2. ghosts' \subseteq Cells /\ ghosts \subseteq ghosts'
    BY <1>2, <2>1
  <2>3. \A d \in Cells \ ghosts' : ~Sure(x, d, server.cells[d])
    BY <1>5, <1>10, <2>1 DEF Sure
  <2> QED
    BY <1>7, <1>10, <2>2, <2>3 DEF Opens
<1>11. ASSUME x.kind = "abort", UNCHANGED <<server, toClient, ghosts>> PROVE IInv'
  <2>1. \A d, k : ~Sure(x, d, k)
    BY <1>11 DEF Sure
  <2> QED
    BY <1>2, <1>7, <1>11, <2>1
<1> QED
  BY <1>3, <1>5, <1>8, <1>9, <1>10, <1>11 DEF ServerReads

-----------------------------------------------------------------------------
(* The theorems.                                                           *)

LEMMA InitIInv == ASSUME Init PROVE IInv
<1>1. PICK world \in Worlds, mode \in Modes :
        /\ server = [cells |-> world, mode |-> mode, alive |-> TRUE]
        /\ client = [cells |-> world, mode |-> mode, dead |-> FALSE,
                     looks |-> TRUE, held |-> FALSE, left |-> 0, right |-> 0,
                     dig |-> NewDig, crack |-> {}, open |-> {}, sent |-> <<>>, id |-> 0]
  BY DEF Init
<1>2. world \in [Cells -> Kinds]
  BY DigAssumption
<1>3. toServer = <<>> /\ toClient = <<>> /\ ghosts = {}
  BY DEF Init
<1>4. NewDig \in Digs /\ ~NewDig.hitting
  BY DEF NewDig, Digs
<1>5. PICK none : none = <<>>
  OBVIOUS
<1>6. none \in Seq(ServerPackets) /\ none \in Seq(ClientPackets) /\ DOMAIN none = {}
  BY <1>5
<1>7. client \in Hands
  <2>1. world \in [Cells -> Stands]
    BY <1>2 DEF Stands
  <2>2. client = [cells |-> world, mode |-> mode, dead |-> FALSE,
                  looks |-> TRUE, held |-> FALSE, left |-> 0, right |-> 0,
                  dig |-> NewDig, crack |-> {}, open |-> {}, sent |-> none, id |-> 0]
    BY <1>1, <1>5
  <2> QED
    BY <1>4, <1>6, <2>1, <2>2 DEF Hands
<1>8. TypeOK
  BY <1>1, <1>2, <1>3, <1>5, <1>6, <1>7 DEF TypeOK
<1>9. DigOK(client)
  BY <1>1, <1>4 DEF DigOK
<1>10. \A c \in Cells : client.cells[c] = server.cells[c] /\ client.cells[c] # "void"
  BY <1>1, <1>2 DEF Kinds
<1>11. Reloads
  BY <1>3, <1>5, <1>6, <1>10 DEF Reloads
<1>12. \A c \in Cells : Agrees(c)
  BY <1>3, <1>5, <1>6, <1>10 DEF Agrees, Shows, Silent
<1> QED
  BY <1>8, <1>9, <1>11, <1>12 DEF IInv

LEMMA NextIInv == ASSUME IInv, [Next]_vars PROVE IInv'
<1>1. CASE Tick
  BY <1>1, TickKeeps
<1>2. CASE Read
  BY <1>2, ReadKeeps
<1>3. CASE PlayerActs
  BY <1>3, PlayerKeeps
<1>4. CASE ServerDecides
  BY <1>4, DecidesKeep
<1>5. CASE ServerReads
  BY <1>5, ServerReadsKeep
<1>6. CASE UNCHANGED vars
  BY <1>6 DEF vars, IInv, TypeOK, Reloads, Agrees
<1> QED
  BY <1>1, <1>2, <1>3, <1>4, <1>5, <1>6 DEF Next

\* The states of the session, of the server and of the packets between them stay
\* of their types, a running dig keeps to its cell, and every cell that is no
\* ghost is one on which the two sides agree once the packets on their way are
\* read, or one a packet on its way will have answered.
THEOREM Invariance == Spec => []IInv
<1>1. Init => IInv
  BY InitIInv
<1>2. IInv /\ [Next]_vars => IInv'
  BY NextIInv
<1> QED
  BY <1>1, <1>2, PTL DEF Spec

\* The server is never left with a dig the player is not at.
THEOREM DigsDoClose == Spec => []DigsClose
<1>1. IInv => DigsClose
  BY DEF IInv, DigOK, DigsClose
<1> QED
  BY <1>1, Invariance, PTL

\* The crack the window draws for the player is of the cell it digs.
THEOREM CracksFollow == Spec => []CrackIsOfDig
<1>1. IInv => CrackIsOfDig
  BY DEF IInv, DigOK, CrackIsOfDig
<1> QED
  BY <1>1, Invariance, PTL

\* Once all is read the session has the server's cells.
THEOREM WorldsDoSettle == Spec => []WorldsSettle
<1>1. ASSUME IInv, toServer = <<>>, toClient = <<>>, NEW c \in Cells \ ghosts
      PROVE  client.cells[c] = server.cells[c]
  <2>1. PICK none : none = <<>>
    OBVIOUS
  <2>2. DOMAIN none = {}
    BY <2>1
  <2>3. ~Assured(toServer, c, server.cells[c])
    BY <1>1, <2>1, <2>2 DEF Assured
  <2>4. \A v : ~LastTells(toClient, c, v)
    BY <1>1, <2>1, <2>2 DEF LastTells
  <2>5. Agrees(c)
    BY <1>1 DEF IInv
  <2> QED
    BY <2>3, <2>4, <2>5 DEF Agrees, Shows
<1>2. IInv => WorldsSettle
  BY <1>1 DEF WorldsSettle
<1> QED
  BY <1>2, Invariance, PTL
=============================================================================
