---------------------------- MODULE LoginProofs ----------------------------
(***************************************************************************)
(* The login and its modes for any number of packets and any reads: each   *)
(* frame is read in the modes it was written in, and a server that has the *)
(* response finds the join at the service.                                 *)
(***************************************************************************)
EXTENDS Login, TLAPS, SequenceTheorems

Packets == {"Login Start", "Encryption Response", "Play", "Encryption Request",
            "Disconnect", "Set Compression", "Login Success"}
Frames  == [packet : Packets, zip : BOOLEAN, cipher : BOOLEAN]
Units   == [frame : Frames, half : {1, 2}]
Held    == [unit : Units, cipher : BOOLEAN]

Servers == [state : {"hello", "key", "verify", "accept", "play", "refused"},
            zip : BOOLEAN, cipher : BOOLEAN, open : BOOLEAN, garbled : BOOLEAN, plays : Nat]
Conns   == [zip : BOOLEAN, cipher : BOOLEAN, got : Seq(Held), deadline : BOOLEAN]

Clients == [state : {"new", "login", "joining", "play", "reading", "lost", "ended", "failed"},
            why : {"", "write", "frame", "join", "no account"}, account : BOOLEAN, plays : Nat]

Typed ==
  /\ server \in Servers /\ conn \in Conns /\ client \in Clients
  /\ toServer \in Seq(Frames) /\ toClient \in Seq(Units)

-----------------------------------------------------------------------------
(* What the client has before it: what was read ahead, then the stream.    *)

Total(got, stream) == Len(got) + Len(stream)

Unit(got, stream, i) ==
  IF i <= Len(got) THEN got[i].unit ELSE stream[i - Len(got)]

LEMMA UnitTyped ==
  ASSUME NEW got \in Seq(Held), NEW stream \in Seq(Units)
  PROVE  /\ Total(got, stream) \in Nat
         /\ \A i \in 1 .. Total(got, stream) : Unit(got, stream, i) \in Units
<1>1. Len(got) \in Nat /\ Len(stream) \in Nat
  OBVIOUS
<1>2. (\A i \in 1 .. Len(got) : got[i].unit \in Units) /\ (\A i \in 1 .. Len(stream) : stream[i] \in Units)
  <2>1. (\A i \in 1 .. Len(got) : got[i] \in Held) /\ (\A i \in 1 .. Len(stream) : stream[i] \in Units)
    OBVIOUS
  <2> QED
    BY <2>1 DEF Held
<1> QED
  BY <1>1, <1>2 DEF Total, Unit

LEMMA Part ==
  ASSUME NEW S, NEW s \in Seq(S), NEW m \in Nat \ {0}, NEW n \in 0 .. Len(s), m <= n + 1
  PROVE  /\ SubSeq(s, m, n) \in Seq(S) /\ Len(SubSeq(s, m, n)) = n - m + 1
         /\ \A i \in 1 .. n - m + 1 : SubSeq(s, m, n)[i] = s[i + m - 1]
<1>1. m \in Int /\ n \in Int /\ \A i \in m .. n : s[i] \in S
  OBVIOUS
<1>2. /\ SubSeq(s, m, n) \in Seq(S)
      /\ Len(SubSeq(s, m, n)) = IF m <= n THEN n - m + 1 ELSE 0
      /\ \A i \in 1 .. n - m + 1 : SubSeq(s, m, n)[i] = s[m + i - 1]
  BY <1>1, SubSeqProperties
<1>3. \A i \in 1 .. n - m + 1 : m + i - 1 = i + m - 1
  OBVIOUS
<1> QED
  BY <1>2, <1>3

IsJoin(more, s, t) == more = s \o t
IsRest(rest, s, n) == rest = SubSeq(s, n + 1, Len(s))
IsPair(pair, frame) == pair = <<[frame |-> frame, half |-> 1], [frame |-> frame, half |-> 2]>>

LEMMA JoinOf ==
  ASSUME NEW S, NEW s \in Seq(S), NEW t \in Seq(S), NEW more, IsJoin(more, s, t)
  PROVE  /\ more \in Seq(S) /\ Len(more) = Len(s) + Len(t)
         /\ \A i \in 1 .. Len(more) : more[i] = IF i <= Len(s) THEN s[i] ELSE t[i - Len(s)]
  BY DEF IsJoin

LEMMA RestOf ==
  ASSUME NEW S, NEW s \in Seq(S), NEW n \in 0 .. Len(s), NEW rest, IsRest(rest, s, n)
  PROVE  /\ rest \in Seq(S) /\ Len(rest) = Len(s) - n
         /\ \A i \in 1 .. Len(rest) : rest[i] = s[i + n]
<1>1. Len(s) \in 0 .. Len(s) /\ n + 1 \in Nat \ {0} /\ n + 1 <= Len(s) + 1
  OBVIOUS
<1>2. /\ SubSeq(s, n + 1, Len(s)) \in Seq(S)
      /\ Len(SubSeq(s, n + 1, Len(s))) = Len(s) - (n + 1) + 1
      /\ \A i \in 1 .. Len(s) - (n + 1) + 1 : SubSeq(s, n + 1, Len(s))[i] = s[i + (n + 1) - 1]
  BY <1>1, Part
<1>3. Len(s) - (n + 1) + 1 = Len(s) - n /\ \A i \in 1 .. Len(s) - n : i + (n + 1) - 1 = i + n
  OBVIOUS
<1> QED
  BY <1>2, <1>3 DEF IsRest

LEMMA PairOf ==
  ASSUME NEW frame \in Frames, NEW pair, IsPair(pair, frame)
  PROVE  pair \in Seq(Units) /\ Len(pair) = 2 /\ \A i \in 1 .. 2 : pair[i].frame = frame
<1> DEFINE a == [frame |-> frame, half |-> 1]
           b == [frame |-> frame, half |-> 2]
<1>1. a \in Units /\ b \in Units /\ a.frame = frame /\ b.frame = frame
  BY DEF Units
<1>2. pair = <<a, b>>
  BY DEF IsPair
<1> HIDE DEF a, b
<1> QED
  BY <1>1, <1>2

OpenedAs(opened, stream, n) == \A i \in 1 .. n : opened[i].unit = stream[i]

\* A read changes nothing of it.
LEMMA AheadOfRead ==
  ASSUME NEW got \in Seq(Held), NEW stream \in Seq(Units), NEW n \in 1 .. Len(stream),
         NEW opened \in Seq(Held), Len(opened) = n, OpenedAs(opened, stream, n),
         NEW more, IsJoin(more, got, opened), NEW rest, IsRest(rest, stream, n)
  PROVE  /\ more \in Seq(Held) /\ rest \in Seq(Units)
         /\ Total(more, rest) = Total(got, stream)
         /\ \A i \in 1 .. Total(got, stream) : Unit(more, rest, i) = Unit(got, stream, i)
         /\ \A i \in 1 .. Len(more) :
              IF i <= Len(got) THEN more[i] = got[i]
              ELSE i - Len(got) \in 1 .. n /\ more[i] = opened[i - Len(got)]
         /\ \A i \in 1 .. Len(rest) : i + n \in 1 .. Len(stream) /\ rest[i] = stream[i + n]
<1>1. /\ rest \in Seq(Units) /\ Len(rest) = Len(stream) - n
      /\ \A i \in 1 .. Len(rest) : rest[i] = stream[i + n]
  <2>1. n \in 0 .. Len(stream)
    OBVIOUS
  <2> QED
    BY <2>1, RestOf
<1>2. /\ more \in Seq(Held) /\ Len(more) = Len(got) + n
      /\ \A i \in 1 .. Len(more) : more[i] = IF i <= Len(got) THEN got[i] ELSE opened[i - Len(got)]
  BY JoinOf
<1>3. /\ Len(got) \in Nat /\ Len(stream) \in Nat
      /\ Total(more, rest) = Total(got, stream)
  BY <1>1, <1>2 DEF Total
<1>4. ASSUME NEW i \in 1 .. Total(got, stream)
      PROVE  Unit(more, rest, i) = Unit(got, stream, i)
  <2>1. CASE i <= Len(got)
    <3>1. i <= Len(more) /\ i \in 1 .. Len(more)
      BY <1>2, <1>3, <2>1
    <3> QED
      BY <1>2, <2>1, <3>1 DEF Unit
  <2>2. CASE ~(i <= Len(got)) /\ i <= Len(more)
    <3>1. i \in 1 .. Len(more) /\ i - Len(got) \in 1 .. n
      BY <1>2, <1>3, <2>2
    <3>2. more[i] = opened[i - Len(got)] /\ opened[i - Len(got)].unit = stream[i - Len(got)]
      BY <1>2, <2>2, <3>1 DEF OpenedAs
    <3> QED
      BY <2>2, <3>2 DEF Unit
  <2>3. CASE ~(i <= Len(more))
    <3>1. /\ i - Len(more) \in 1 .. Len(rest) /\ i - Len(more) + n = i - Len(got) /\ ~(i <= Len(got))
      BY <1>1, <1>2, <1>3, <2>3 DEF Total
    <3> QED
      BY <1>1, <2>3, <3>1 DEF Unit
  <2> QED
    BY <2>1, <2>2, <2>3
<1>5. \A i \in 1 .. Len(more) : ~(i <= Len(got)) => i - Len(got) \in 1 .. n
  BY <1>2, <1>3
<1>6. \A i \in 1 .. Len(rest) : i + n \in 1 .. Len(stream)
  BY <1>1, <1>3
<1> QED
  BY <1>1, <1>2, <1>3, <1>4, <1>5, <1>6

\* The frame at its head is taken.
LEMMA AheadOfTake ==
  ASSUME NEW got \in Seq(Held), NEW stream \in Seq(Units), Len(got) >= 2,
         NEW rest, IsRest(rest, got, 2)
  PROVE  /\ rest \in Seq(Held) /\ Len(rest) = Len(got) - 2
         /\ \A i \in 1 .. Len(rest) : rest[i] = got[i + 2]
         /\ Total(rest, stream) = Total(got, stream) - 2
         /\ \A i \in 1 .. Total(rest, stream) : Unit(rest, stream, i) = Unit(got, stream, i + 2)
<1>1. /\ rest \in Seq(Held) /\ Len(rest) = Len(got) - 2
      /\ \A i \in 1 .. Len(rest) : rest[i] = got[i + 2]
  <2>1. 2 \in 0 .. Len(got)
    OBVIOUS
  <2> QED
    BY <2>1, RestOf
<1> QED
  BY <1>1 DEF Total, Unit

\* A frame is sent after it.
LEMMA AheadOfSend ==
  ASSUME NEW got \in Seq(Held), NEW stream \in Seq(Units), NEW frame \in Frames,
         NEW pair, IsPair(pair, frame), NEW more, IsJoin(more, stream, pair)
  PROVE  /\ more \in Seq(Units) /\ Len(more) = Len(stream) + 2
         /\ \A i \in 1 .. Len(more) : IF i <= Len(stream) THEN more[i] = stream[i]
                                      ELSE more[i].frame = frame
         /\ Total(got, more) = Total(got, stream) + 2
         /\ \A i \in 1 .. Total(got, more) :
              IF i <= Total(got, stream) THEN Unit(got, more, i) = Unit(got, stream, i)
              ELSE Unit(got, more, i).frame = frame
<1>1. pair \in Seq(Units) /\ Len(pair) = 2 /\ \A i \in 1 .. 2 : pair[i].frame = frame
  BY PairOf
<1>2. /\ more \in Seq(Units) /\ Len(more) = Len(stream) + 2
      /\ \A i \in 1 .. Len(more) : more[i] = IF i <= Len(stream) THEN stream[i] ELSE pair[i - Len(stream)]
  <2>1. pair \in Seq(Units)
    BY <1>1
  <2>2. /\ more \in Seq(Units) /\ Len(more) = Len(stream) + Len(pair)
        /\ \A i \in 1 .. Len(more) : more[i] = IF i <= Len(stream) THEN stream[i] ELSE pair[i - Len(stream)]
    BY <2>1, JoinOf
  <2> QED
    BY <1>1, <2>2
<1>3. Len(got) \in Nat /\ Len(stream) \in Nat
  OBVIOUS
<1>4. \A i \in 1 .. Len(more) : ~(i <= Len(stream)) => i - Len(stream) \in 1 .. 2
  BY <1>2, <1>3
<1>5. \A i \in 1 .. Len(more) : IF i <= Len(stream) THEN more[i] = stream[i] ELSE more[i].frame = frame
  BY <1>1, <1>2, <1>4
<1>6. Total(got, more) = Total(got, stream) + 2
  BY <1>2, <1>3 DEF Total
<1>7. ASSUME NEW i \in 1 .. Total(got, more)
      PROVE  IF i <= Total(got, stream) THEN Unit(got, more, i) = Unit(got, stream, i)
             ELSE Unit(got, more, i).frame = frame
  <2>1. CASE i <= Len(got)
    BY <1>3, <2>1 DEF Total, Unit
  <2>2. CASE ~(i <= Len(got))
    <3>1. i - Len(got) \in 1 .. Len(more)
      BY <1>2, <1>3, <2>2 DEF Total
    <3> QED
      BY <1>3, <1>5, <2>2, <3>1 DEF Total, Unit
  <2> QED
    BY <2>1, <2>2
<1> QED
  BY <1>2, <1>5, <1>6, <1>7

IsCut(rest, stream) == rest = <<>> \/ rest = stream \/ (stream # <<>> /\ rest = Front(stream))

\* The stream is cut.
LEMMA AheadOfCut ==
  ASSUME NEW got \in Seq(Held), NEW stream \in Seq(Units),
         NEW rest, IsCut(rest, stream)
  PROVE  /\ rest \in Seq(Units) /\ Len(rest) <= Len(stream)
         /\ \A i \in 1 .. Len(rest) : rest[i] = stream[i]
         /\ Total(got, rest) <= Total(got, stream)
         /\ \A i \in 1 .. Total(got, rest) : Unit(got, rest, i) = Unit(got, stream, i)
<1>1. /\ rest \in Seq(Units) /\ Len(rest) <= Len(stream)
      /\ \A i \in 1 .. Len(rest) : rest[i] = stream[i]
  <2>1. CASE rest = <<>>
    <3>1. <<>> \in Seq(Units) /\ Len(<<>>) = 0
      OBVIOUS
    <3> QED
      BY <2>1, <3>1
  <2>3. CASE rest = stream
    BY <2>3
  <2>2. CASE stream # <<>> /\ rest = Front(stream)
    <3>1. Len(stream) - 1 \in 0 .. Len(stream) /\ 1 \in Nat \ {0}
      BY <2>2
    <3>2. rest = SubSeq(stream, 1, Len(stream) - 1)
      BY <2>2 DEF Front
    <3> QED
      BY <3>1, <3>2, Part
  <2> QED
    BY <2>1, <2>2, <2>3 DEF IsCut
<1>2. Len(got) \in Nat /\ Len(stream) \in Nat /\ Len(rest) \in Nat
  BY <1>1
<1> QED
  BY <1>1, <1>2 DEF Total, Unit

-----------------------------------------------------------------------------
(* The frames it is made of, and how they are packed.                      *)

Places == Nat \ {0}

\* The frame at place k, of the two units 2k-1 and 2k.
FrameAt(got, stream, k) == Unit(got, stream, 2 * k - 1).frame

Switch(frame) == frame.packet = "Set Compression"
Switches(got, stream, k) == Switch(FrameAt(got, stream, k))

\* The two halves of a frame lie side by side; a frame is packed as the
\* connection will unpack it once it has taken the frames before, and the server
\* packs as the connection will once it has taken them all.
Packed(c, stream, s) ==
  /\ \A k \in Places : 2 * k <= Total(c.got, stream) =>
       Unit(c.got, stream, 2 * k).frame = FrameAt(c.got, stream, k)
  /\ \A k \in Places : 2 * k - 1 <= Total(c.got, stream) =>
       (FrameAt(c.got, stream, k).zip <=>
          c.zip \/ \E j \in Places : j < k /\ Switches(c.got, stream, j))
  /\ s.open =>
       /\ \E k \in Nat : Total(c.got, stream) = 2 * k
       /\ s.zip <=> c.zip \/ \E j \in Places : 2 * j <= Total(c.got, stream) /\ Switches(c.got, stream, j)

LEMMA Halves ==
  ASSUME NEW t \in Nat
  PROVE  /\ \A k \in Places : 2 * k - 1 <= t => 2 * k - 1 \in 1 .. t
         /\ \A k \in Places : 2 * k <= t => 2 * k \in 1 .. t /\ 2 * k - 1 <= t
         /\ \A k, j \in Places : 2 * k - 1 <= t /\ j < k => 2 * j - 1 <= t
  BY DEF Places

LEMMA Twice ==
  ASSUME NEW n \in Nat, NEW t, t = 2 * n
  PROVE  /\ t \in Nat /\ n + 1 \in Nat /\ t + 2 = 2 * (n + 1) /\ n + 1 \in Places
         /\ 2 * (n + 1) \in 1 .. t + 2 /\ 2 * (n + 1) - 1 \in 1 .. t + 2
         /\ ~(2 * (n + 1) <= t) /\ ~(2 * (n + 1) - 1 <= t)
         /\ \A k \in Places : (2 * k <= t <=> k <= n) /\ (2 * k - 1 <= t <=> k <= n)
         /\ \A k \in Places : 2 * k <= t + 2 <=> k <= n \/ k = n + 1
         /\ \A k \in Places : 2 * k - 1 <= t + 2 <=> k <= n \/ k = n + 1
         /\ \A k \in Places : k <= n => 2 * k \in 1 .. t + 2 /\ 2 * k - 1 \in 1 .. t + 2
         /\ \A j, k \in Places : k <= n /\ j < k => j <= n
         /\ \A j \in Places : j < n + 1 <=> j <= n
  BY DEF Places

LEMMA PackedSame ==
  ASSUME NEW c \in Conns, NEW d \in Conns, NEW stream \in Seq(Units), NEW rest \in Seq(Units),
         NEW s \in Servers, NEW u \in Servers,
         Packed(c, stream, s), d.zip = c.zip, u.zip = s.zip, u.open => s.open,
         Total(d.got, rest) = Total(c.got, stream),
         \A i \in 1 .. Total(c.got, stream) : Unit(d.got, rest, i) = Unit(c.got, stream, i)
  PROVE  Packed(d, rest, u)
<1>1. Total(c.got, stream) \in Nat
  BY UnitTyped DEF Conns
<1> PICK t \in Nat : t = Total(c.got, stream)
  BY <1>1
<1>2. /\ \A k \in Places : 2 * k - 1 <= t => 2 * k - 1 \in 1 .. t
      /\ \A k \in Places : 2 * k <= t => 2 * k \in 1 .. t /\ 2 * k - 1 <= t
      /\ \A k, j \in Places : 2 * k - 1 <= t /\ j < k => 2 * j - 1 <= t
  BY Halves
<1>3. \A i \in 1 .. t : Unit(d.got, rest, i) = Unit(c.got, stream, i)
  OBVIOUS
<1>4. \A k \in Places : 2 * k - 1 <= t =>
        /\ FrameAt(d.got, rest, k) = FrameAt(c.got, stream, k)
        /\ Switches(d.got, rest, k) <=> Switches(c.got, stream, k)
  BY <1>2, <1>3 DEF FrameAt, Switches
<1>5. \A k \in Places : 2 * k <= t => Unit(d.got, rest, 2 * k) = Unit(c.got, stream, 2 * k)
  BY <1>2, <1>3
<1>6. \A k \in Places : 2 * k <= t => Unit(d.got, rest, 2 * k).frame = FrameAt(d.got, rest, k)
  BY <1>2, <1>4, <1>5 DEF Packed
<1>7. ASSUME NEW k \in Places, 2 * k - 1 <= t
      PROVE  FrameAt(d.got, rest, k).zip <=> d.zip \/ \E j \in Places : j < k /\ Switches(d.got, rest, j)
  BY <1>2, <1>4, <1>7 DEF Packed
<1>8. ASSUME u.open
      PROVE  /\ \E k \in Nat : t = 2 * k
             /\ u.zip <=> d.zip \/ \E j \in Places : 2 * j <= t /\ Switches(d.got, rest, j)
  <2>1. /\ \E k \in Nat : t = 2 * k
        /\ s.zip <=> c.zip \/ \E j \in Places : 2 * j <= t /\ Switches(c.got, stream, j)
    BY <1>8 DEF Packed
  <2>2. \A j \in Places : 2 * j <= t => (Switches(d.got, rest, j) <=> Switches(c.got, stream, j))
    BY <1>2, <1>4
  <2> QED
    BY <2>1, <2>2
<1> QED
  BY <1>6, <1>7, <1>8 DEF Packed

LEMMA PackedSend ==
  ASSUME NEW c \in Conns, NEW stream \in Seq(Units), NEW more \in Seq(Units),
         NEW s \in Servers, NEW u \in Servers, NEW frame \in Frames,
         Packed(c, stream, s), s.open, frame.zip = s.zip, u.zip <=> s.zip \/ Switch(frame),
         Total(c.got, more) = Total(c.got, stream) + 2,
         \A i \in 1 .. Total(c.got, more) :
              IF i <= Total(c.got, stream) THEN Unit(c.got, more, i) = Unit(c.got, stream, i)
              ELSE Unit(c.got, more, i).frame = frame
  PROVE  Packed(c, more, u)
<1> PICK n \in Nat : Total(c.got, stream) = 2 * n
  BY DEF Packed
<1> PICK t : t = Total(c.got, stream)
  OBVIOUS
<1>1. t = 2 * n /\ Total(c.got, more) = t + 2
  OBVIOUS
<1>2. /\ t \in Nat /\ n + 1 \in Nat /\ t + 2 = 2 * (n + 1) /\ n + 1 \in Places
      /\ 2 * (n + 1) \in 1 .. t + 2 /\ 2 * (n + 1) - 1 \in 1 .. t + 2
      /\ ~(2 * (n + 1) <= t) /\ ~(2 * (n + 1) - 1 <= t)
      /\ \A k \in Places : (2 * k <= t <=> k <= n) /\ (2 * k - 1 <= t <=> k <= n)
      /\ \A k \in Places : 2 * k <= t + 2 <=> k <= n \/ k = n + 1
      /\ \A k \in Places : 2 * k - 1 <= t + 2 <=> k <= n \/ k = n + 1
      /\ \A k \in Places : k <= n => 2 * k \in 1 .. t + 2 /\ 2 * k - 1 \in 1 .. t + 2
      /\ \A j, k \in Places : k <= n /\ j < k => j <= n
      /\ \A j \in Places : j < n + 1 <=> j <= n
  BY <1>1, Twice
<1>3. /\ \A i \in 1 .. t + 2 : i <= t => Unit(c.got, more, i) = Unit(c.got, stream, i)
      /\ \A i \in 1 .. t + 2 : ~(i <= t) => Unit(c.got, more, i).frame = frame
  BY <1>1
<1>4. \A k \in Places : k <= n =>
        /\ FrameAt(c.got, more, k) = FrameAt(c.got, stream, k)
        /\ Switches(c.got, more, k) <=> Switches(c.got, stream, k)
        /\ Unit(c.got, more, 2 * k) = Unit(c.got, stream, 2 * k)
  BY <1>2, <1>3 DEF FrameAt, Switches
<1>5. FrameAt(c.got, more, n + 1) = frame /\ Unit(c.got, more, 2 * (n + 1)).frame = frame
  BY <1>2, <1>3 DEF FrameAt
<1>6. s.zip <=> c.zip \/ \E j \in Places : j <= n /\ Switches(c.got, stream, j)
  BY <1>2 DEF Packed
<1>7. \A k \in Places : k <= n =>
        /\ Unit(c.got, stream, 2 * k).frame = FrameAt(c.got, stream, k)
        /\ FrameAt(c.got, stream, k).zip <=> c.zip \/ \E j \in Places : j < k /\ Switches(c.got, stream, j)
  BY <1>2 DEF Packed
<1>8. \A k \in Places : 2 * k <= t + 2 => Unit(c.got, more, 2 * k).frame = FrameAt(c.got, more, k)
  BY <1>2, <1>4, <1>5, <1>7
<1>9. ASSUME NEW k \in Places, 2 * k - 1 <= t + 2
      PROVE  FrameAt(c.got, more, k).zip <=> c.zip \/ \E j \in Places : j < k /\ Switches(c.got, more, j)
  <2>1. CASE k <= n
    <3>1. \A j \in Places : j < k => (Switches(c.got, more, j) <=> Switches(c.got, stream, j))
      BY <1>2, <1>4, <2>1
    <3> QED
      BY <1>4, <1>7, <2>1, <3>1
  <2>2. CASE k = n + 1
    <3>1. \A j \in Places : j < k <=> j <= n
      BY <1>2, <2>2
    <3>2. FrameAt(c.got, more, k).zip <=> s.zip
      BY <1>5, <2>2
    <3> QED
      BY <1>4, <1>6, <3>1, <3>2
  <2> QED
    BY <1>2, <1>9, <2>1, <2>2
<1>10. \E k \in Nat : t + 2 = 2 * k
  <2>1. n + 1 \in Nat
    BY <1>2
  <2> WITNESS n + 1 \in Nat
  <2> QED
    BY <1>2
<1>11. u.zip <=> c.zip \/ \E j \in Places : 2 * j <= t + 2 /\ Switches(c.got, more, j)
  <2>1. Switches(c.got, more, n + 1) <=> Switch(frame)
    BY <1>5 DEF Switches
  <2>2. (\E j \in Places : 2 * j <= t + 2 /\ Switches(c.got, more, j)) <=>
          \/ \E j \in Places : j <= n /\ Switches(c.got, stream, j)
          \/ Switch(frame)
    BY <1>2, <1>4, <2>1
  <2> QED
    BY <1>6, <2>2
<1> QED
  BY <1>1, <1>8, <1>9, <1>10, <1>11 DEF Packed

LEMMA PackedTake ==
  ASSUME NEW c \in Conns, NEW d \in Conns, NEW stream \in Seq(Units), NEW s \in Servers,
         Packed(c, stream, s), 2 <= Total(c.got, stream),
         d.zip <=> c.zip \/ Switches(c.got, stream, 1),
         Total(d.got, stream) = Total(c.got, stream) - 2,
         \A i \in 1 .. Total(d.got, stream) : Unit(d.got, stream, i) = Unit(c.got, stream, i + 2)
  PROVE  Packed(d, stream, s)
<1>1. Total(c.got, stream) \in Nat /\ Total(d.got, stream) \in Nat
  BY UnitTyped DEF Conns
<1>2. \A k \in Places : 2 * k - 1 <= Total(d.got, stream) =>
        /\ k + 1 \in Places /\ 2 * (k + 1) - 1 <= Total(c.got, stream)
        /\ FrameAt(d.got, stream, k) = FrameAt(c.got, stream, k + 1)
        /\ Switches(d.got, stream, k) <=> Switches(c.got, stream, k + 1)
  <2>1. \A k \in Places : 2 * k - 1 <= Total(d.got, stream) =>
          /\ k + 1 \in Places /\ 2 * (k + 1) - 1 <= Total(c.got, stream)
          /\ 2 * k - 1 \in 1 .. Total(d.got, stream) /\ 2 * (k + 1) - 1 = 2 * k - 1 + 2
    BY <1>1 DEF Places
  <2> QED
    BY <2>1 DEF FrameAt, Switches
<1>3. \A k \in Places : 2 * k <= Total(d.got, stream) =>
        /\ 2 * (k + 1) <= Total(c.got, stream)
        /\ Unit(d.got, stream, 2 * k) = Unit(c.got, stream, 2 * (k + 1))
  <2>1. \A k \in Places : 2 * k <= Total(d.got, stream) =>
          /\ 2 * (k + 1) <= Total(c.got, stream)
          /\ 2 * k \in 1 .. Total(d.got, stream) /\ 2 * (k + 1) = 2 * k + 2
    BY <1>1 DEF Places
  <2> QED
    BY <2>1
<1>4. \A k \in Places : 2 * k <= Total(d.got, stream) =>
        Unit(d.got, stream, 2 * k).frame = FrameAt(d.got, stream, k)
  <2>1. \A k \in Places : 2 * k <= Total(d.got, stream) => 2 * k - 1 <= Total(d.got, stream)
    BY <1>1 DEF Places
  <2> QED
    BY <1>2, <1>3, <2>1 DEF Packed
<1>5. ASSUME NEW k \in Places, 2 * k - 1 <= Total(d.got, stream)
      PROVE  FrameAt(d.got, stream, k).zip <=>
               d.zip \/ \E j \in Places : j < k /\ Switches(d.got, stream, j)
  <2>1. FrameAt(d.got, stream, k).zip <=>
          c.zip \/ \E j \in Places : j < k + 1 /\ Switches(c.got, stream, j)
    BY <1>2, <1>5 DEF Packed
  <2>2. \A j \in Places : j < k => (Switches(d.got, stream, j) <=> Switches(c.got, stream, j + 1))
    <3>1. \A j \in Places : j < k => 2 * j - 1 <= Total(d.got, stream)
      BY <1>1, <1>5 DEF Places
    <3> QED
      BY <1>2, <3>1
  <2>3. \A j \in Places : j < k + 1 => j = 1 \/ (j - 1 \in Places /\ j - 1 < k /\ j - 1 + 1 = j)
    BY DEF Places
  <2>4. 1 \in Places /\ 1 < k + 1 /\ \A j \in Places : j < k => j + 1 \in Places /\ j + 1 < k + 1
    BY DEF Places
  <2>5. (\E j \in Places : j < k + 1 /\ Switches(c.got, stream, j)) <=>
          Switches(c.got, stream, 1) \/ \E j \in Places : j < k /\ Switches(d.got, stream, j)
    BY <2>2, <2>3, <2>4
  <2> QED
    BY <2>1, <2>5
<1>6. ASSUME s.open
      PROVE  /\ \E k \in Nat : Total(d.got, stream) = 2 * k
             /\ s.zip <=> d.zip \/ \E j \in Places : 2 * j <= Total(d.got, stream) /\ Switches(d.got, stream, j)
  <2>1. PICK n \in Nat : Total(c.got, stream) = 2 * n
    BY <1>6 DEF Packed
  <2>2. n - 1 \in Nat /\ Total(d.got, stream) = 2 * (n - 1)
    BY <1>1, <2>1
  <2>3. s.zip <=> c.zip \/ \E j \in Places : j <= n /\ Switches(c.got, stream, j)
    <3>1. \A j \in Places : 2 * j <= Total(c.got, stream) <=> j <= n
      BY <2>1 DEF Places
    <3> QED
      BY <1>6, <3>1 DEF Packed
  <2>4. \A j \in Places : j <= n - 1 => (Switches(d.got, stream, j) <=> Switches(c.got, stream, j + 1))
    <3>1. \A j \in Places : j <= n - 1 => 2 * j - 1 <= Total(d.got, stream)
      BY <2>2 DEF Places
    <3> QED
      BY <1>2, <3>1
  <2>5. \A j \in Places : j <= n => j = 1 \/ (j - 1 \in Places /\ j - 1 <= n - 1 /\ j - 1 + 1 = j)
    BY DEF Places
  <2>6. 1 \in Places /\ 1 <= n /\ \A j \in Places : j <= n - 1 => j + 1 \in Places /\ j + 1 <= n
    BY <2>2 DEF Places
  <2>7. (\E j \in Places : j <= n /\ Switches(c.got, stream, j)) <=>
          Switches(c.got, stream, 1) \/ \E j \in Places : j <= n - 1 /\ Switches(d.got, stream, j)
    BY <2>4, <2>5, <2>6
  <2>8. \A j \in Places : 2 * j <= Total(d.got, stream) <=> j <= n - 1
    BY <2>2 DEF Places
  <2> QED
    BY <2>2, <2>3, <2>7, <2>8
<1> QED
  BY <1>4, <1>5, <1>6 DEF Packed

LEMMA PackedCut ==
  ASSUME NEW c \in Conns, NEW stream \in Seq(Units), NEW rest \in Seq(Units),
         NEW s \in Servers, NEW u \in Servers,
         Packed(c, stream, s), ~u.open, Total(c.got, rest) <= Total(c.got, stream),
         \A i \in 1 .. Total(c.got, rest) : Unit(c.got, rest, i) = Unit(c.got, stream, i)
  PROVE  Packed(c, rest, u)
<1>1. Total(c.got, stream) \in Nat /\ Total(c.got, rest) \in Nat
  BY UnitTyped DEF Conns
<1> PICK t \in Nat : t = Total(c.got, rest)
  BY <1>1
<1>2. /\ \A k \in Places : 2 * k - 1 <= t => 2 * k - 1 \in 1 .. t
      /\ \A k \in Places : 2 * k <= t => 2 * k \in 1 .. t /\ 2 * k - 1 <= t
      /\ \A k, j \in Places : 2 * k - 1 <= t /\ j < k => 2 * j - 1 <= t
  BY Halves
<1>3. \A k \in Places : (2 * k <= t => 2 * k <= Total(c.got, stream)) /\ (2 * k - 1 <= t => 2 * k - 1 <= Total(c.got, stream))
  BY <1>1 DEF Places
<1>4. \A i \in 1 .. t : Unit(c.got, rest, i) = Unit(c.got, stream, i)
  OBVIOUS
<1>5. \A k \in Places : 2 * k - 1 <= t =>
        /\ FrameAt(c.got, rest, k) = FrameAt(c.got, stream, k)
        /\ Switches(c.got, rest, k) <=> Switches(c.got, stream, k)
  BY <1>2, <1>4 DEF FrameAt, Switches
<1>6. \A k \in Places : 2 * k <= t => Unit(c.got, rest, 2 * k) = Unit(c.got, stream, 2 * k)
  BY <1>2, <1>4
<1>7. \A k \in Places : 2 * k <= t => Unit(c.got, rest, 2 * k).frame = FrameAt(c.got, rest, k)
  BY <1>2, <1>3, <1>5, <1>6 DEF Packed
<1>8. ASSUME NEW k \in Places, 2 * k - 1 <= t
      PROVE  FrameAt(c.got, rest, k).zip <=> c.zip \/ \E j \in Places : j < k /\ Switches(c.got, rest, j)
  BY <1>2, <1>3, <1>5, <1>8 DEF Packed
<1> QED
  BY <1>7, <1>8 DEF Packed

-----------------------------------------------------------------------------
(* The invariant.                                                          *)

Has(stream, packet) == \E i \in DOMAIN stream : stream[i].packet = packet

\* The packets before the client, and those behind the first of them.
Kinds(got, stream) == {Unit(got, stream, i).frame.packet : i \in 1 .. Total(got, stream)}
Later(got, stream) == {Unit(got, stream, i).frame.packet : i \in 3 .. Total(got, stream)}

\* A reason given before the response was read goes out in the clear.
Clear(frame) == frame.packet = "Disconnect" /\ ~frame.cipher
Fits(frame, c) == frame.cipher = c.cipher \/ Clear(frame)

HeldRight(got) ==
  \A i \in 1 .. Len(got) : Fits(got[i].unit.frame, got[i])

StreamRight(stream, c) ==
  \A i \in 1 .. Len(stream) : Fits(stream[i].frame, c)

Answered == Has(toServer, "Encryption Response")

\* The exchange of the login: one start, one request, one response, each read
\* before the next is possible.
RequestInv ==
  /\ client.state = "new" => server.state = "hello" /\ toServer = <<>>
  /\ server.state = "hello" =>
       /\ Total(conn.got, toClient) = 0 /\ Len(toServer) <= 1
       /\ service = "no join" /\ ~conn.cipher
       /\ client.state \in {"new", "login", "ended", "failed"}
  /\ server.state # "hello" => ~Has(toServer, "Login Start")
  /\ "Encryption Request" \in Kinds(conn.got, toClient) =>
       /\ server.state = "key" /\ ~Answered
       /\ service = "no join" /\ ~conn.cipher /\ client.state # "joining"
  /\ "Encryption Request" \notin Later(conn.got, toClient)
  /\ client.state = "joining" => server.state = "key" /\ ~Answered /\ ~conn.cipher
  /\ Answered => service = "joined" /\ conn.cipher
  /\ server.state = "verify" => service = "joined"
  /\ server.state # "refused"

\* The modes of both ends, and of every frame between them.
ModeInv ==
  /\ server.state = "key" =>
       Kinds(conn.got, toClient) \subseteq {"Encryption Request", "Disconnect"}
  /\ conn.cipher => server.state = "key" \/ server.cipher
  /\ server.cipher => conn.cipher
  /\ HeldRight(conn.got)
  /\ StreamRight(toClient, conn)
  /\ Packed(conn, toClient, server)

IInv == Typed /\ RequestInv /\ ModeInv

-----------------------------------------------------------------------------
(* What an operation does to the packets between the ends.                 *)

LEMMA Reads ==
  ASSUME NEW c \in Conns, NEW d \in Conns, NEW s \in Servers,
         NEW stream \in Seq(Units), NEW n \in 1 .. Len(stream),
         NEW opened \in Seq(Held), Len(opened) = n,
         OpenedAs(opened, stream, n), \A i \in 1 .. n : opened[i].cipher = c.cipher,
         IsJoin(d.got, c.got, opened), d.zip = c.zip, d.cipher = c.cipher,
         NEW rest, IsRest(rest, stream, n),
         Packed(c, stream, s), HeldRight(c.got), StreamRight(stream, c)
  PROVE  /\ rest \in Seq(Units)
         /\ Total(d.got, rest) = Total(c.got, stream)
         /\ Kinds(d.got, rest) = Kinds(c.got, stream) /\ Later(d.got, rest) = Later(c.got, stream)
         /\ HeldRight(d.got) /\ StreamRight(rest, d)
         /\ Packed(d, rest, s)
<1>1. /\ rest \in Seq(Units)
      /\ Total(d.got, rest) = Total(c.got, stream)
      /\ \A i \in 1 .. Total(c.got, stream) : Unit(d.got, rest, i) = Unit(c.got, stream, i)
      /\ \A i \in 1 .. Len(d.got) :
           IF i <= Len(c.got) THEN d.got[i] = c.got[i]
           ELSE i - Len(c.got) \in 1 .. n /\ d.got[i] = opened[i - Len(c.got)]
      /\ \A i \in 1 .. Len(rest) : i + n \in 1 .. Len(stream) /\ rest[i] = stream[i + n]
  <2>1. c.got \in Seq(Held)
    BY DEF Conns
  <2>2. PICK got \in Seq(Held) : got = c.got
    BY <2>1
  <2>3. PICK more : more = d.got
    OBVIOUS
  <2>4. IsJoin(more, got, opened)
    BY <2>2, <2>3
  <2>5. /\ rest \in Seq(Units)
        /\ Total(more, rest) = Total(got, stream)
        /\ \A i \in 1 .. Total(got, stream) : Unit(more, rest, i) = Unit(got, stream, i)
        /\ \A i \in 1 .. Len(more) :
             IF i <= Len(got) THEN more[i] = got[i]
             ELSE i - Len(got) \in 1 .. n /\ more[i] = opened[i - Len(got)]
        /\ \A i \in 1 .. Len(rest) : i + n \in 1 .. Len(stream) /\ rest[i] = stream[i + n]
    BY <2>1, <2>4, AheadOfRead
  <2> QED
    BY <2>2, <2>3, <2>5
<1>2. Kinds(d.got, rest) = Kinds(c.got, stream) /\ Later(d.got, rest) = Later(c.got, stream)
  <2>1. \A i \in 3 .. Total(c.got, stream) : i \in 1 .. Total(c.got, stream)
    OBVIOUS
  <2> QED
    BY <1>1, <2>1 DEF Kinds, Later
<1>3. ASSUME NEW i \in 1 .. Len(d.got)
      PROVE  Fits(d.got[i].unit.frame, d.got[i])
  <2>1. CASE i <= Len(c.got)
    <3>1. i \in 1 .. Len(c.got) /\ d.got[i] = c.got[i]
      BY <1>1, <2>1 DEF Conns
    <3> QED
      BY <3>1 DEF HeldRight
  <2>2. CASE ~(i <= Len(c.got))
    <3>1. PICK j \in 1 .. n : d.got[i] = opened[j]
      BY <1>1, <2>2
    <3>2. d.got[i].unit = stream[j] /\ d.got[i].cipher = c.cipher /\ j \in 1 .. Len(stream)
      BY <3>1 DEF OpenedAs
    <3> QED
      BY <3>2 DEF StreamRight, Fits
  <2> QED
    BY <2>1, <2>2
<1>4. StreamRight(rest, d)
  BY <1>1 DEF StreamRight, Fits
<1>5. Packed(d, rest, s)
  <2>1. s.open => s.open
    OBVIOUS
  <2> QED
    BY <1>1, <2>1, PackedSame
<1> QED
  BY <1>1, <1>2, <1>3, <1>4, <1>5 DEF HeldRight

LEMMA Takings ==
  ASSUME NEW c \in Conns, NEW d \in Conns, NEW s \in Servers,
         NEW stream \in Seq(Units), Len(c.got) >= 2,
         IsRest(d.got, c.got, 2),
         d.zip <=> c.zip \/ Switch(c.got[1].unit.frame),
         Packed(c, stream, s), HeldRight(c.got)
  PROVE  /\ c.got[1].unit.frame.packet \in Kinds(c.got, stream)
         /\ Kinds(d.got, stream) \subseteq Later(c.got, stream)
         /\ Kinds(d.got, stream) \subseteq Kinds(c.got, stream)
         /\ Later(d.got, stream) \subseteq Later(c.got, stream)
         /\ HeldRight(d.got)
         /\ Packed(d, stream, s)
<1> c.got \in Seq(Held)
  BY DEF Conns
<1>1. /\ Len(d.got) = Len(c.got) - 2
      /\ \A i \in 1 .. Len(d.got) : d.got[i] = c.got[i + 2]
      /\ Total(d.got, stream) = Total(c.got, stream) - 2
      /\ \A i \in 1 .. Total(d.got, stream) : Unit(d.got, stream, i) = Unit(c.got, stream, i + 2)
  <2>1. PICK got \in Seq(Held) : got = c.got
    OBVIOUS
  <2>2. PICK rest : rest = d.got
    OBVIOUS
  <2>3. Len(got) >= 2 /\ IsRest(rest, got, 2)
    BY <2>1, <2>2
  <2>4. /\ Len(rest) = Len(got) - 2
        /\ \A i \in 1 .. Len(rest) : rest[i] = got[i + 2]
        /\ Total(rest, stream) = Total(got, stream) - 2
        /\ \A i \in 1 .. Total(rest, stream) : Unit(rest, stream, i) = Unit(got, stream, i + 2)
    BY <2>3, AheadOfTake
  <2> QED
    BY <2>1, <2>2, <2>4
<1>2. /\ Total(c.got, stream) \in Nat /\ 2 <= Total(c.got, stream) /\ Unit(c.got, stream, 1) = c.got[1].unit
  BY DEF Total, Unit
<1>3. c.got[1].unit.frame.packet \in Kinds(c.got, stream)
  <2>1. 1 \in 1 .. Total(c.got, stream)
    BY <1>2
  <2> QED
    BY <1>2, <2>1 DEF Kinds
<1>4. /\ \A i \in 1 .. Total(d.got, stream) : i + 2 \in 3 .. Total(c.got, stream) /\ i + 2 \in 1 .. Total(c.got, stream)
      /\ \A i \in 3 .. Total(d.got, stream) : i \in 1 .. Total(d.got, stream)
  BY <1>1, <1>2
<1>5. /\ Kinds(d.got, stream) \subseteq Later(c.got, stream)
      /\ Kinds(d.got, stream) \subseteq Kinds(c.got, stream)
      /\ Later(d.got, stream) \subseteq Later(c.got, stream)
  BY <1>1, <1>4 DEF Kinds, Later
<1>6. HeldRight(d.got)
  <2>1. \A i \in 1 .. Len(d.got) : i + 2 \in 1 .. Len(c.got)
    BY <1>1
  <2> QED
    BY <1>1, <2>1 DEF HeldRight
<1>7. Switches(c.got, stream, 1) <=> Switch(c.got[1].unit.frame)
  <2>1. 2 * 1 - 1 = 1
    OBVIOUS
  <2> QED
    BY <1>2, <2>1 DEF Switches, FrameAt
<1>8. Packed(d, stream, s)
  <2>1. d.zip <=> c.zip \/ Switches(c.got, stream, 1)
    BY <1>7
  <2> QED
    BY <1>1, <1>2, <2>1, PackedTake
<1> QED
  BY <1>3, <1>5, <1>6, <1>8

LEMMA Sendings ==
  ASSUME NEW c \in Conns, NEW s \in Servers, NEW u \in Servers,
         NEW stream \in Seq(Units), NEW frame \in Frames,
         NEW pair, IsPair(pair, frame), NEW more, IsJoin(more, stream, pair),
         Packed(c, stream, s), StreamRight(stream, c), s.open,
         frame.zip = s.zip, u.zip <=> s.zip \/ Switch(frame),
         Fits(frame, c)
  PROVE  /\ more \in Seq(Units)
         /\ Kinds(c.got, more) \subseteq Kinds(c.got, stream) \union {frame.packet}
         /\ Later(c.got, more) \subseteq Later(c.got, stream) \union {frame.packet}
         /\ Total(c.got, stream) = 0 => Kinds(c.got, stream) = {} /\ Later(c.got, more) = {}
         /\ StreamRight(more, c)
         /\ Packed(c, more, u)
<1> c.got \in Seq(Held)
  BY DEF Conns
<1>1. /\ more \in Seq(Units) /\ Len(more) = Len(stream) + 2
      /\ \A i \in 1 .. Len(more) : IF i <= Len(stream) THEN more[i] = stream[i]
                                   ELSE more[i].frame = frame
      /\ Total(c.got, more) = Total(c.got, stream) + 2
      /\ \A i \in 1 .. Total(c.got, more) :
           IF i <= Total(c.got, stream) THEN Unit(c.got, more, i) = Unit(c.got, stream, i)
           ELSE Unit(c.got, more, i).frame = frame
  <2>1. PICK got \in Seq(Held) : got = c.got
    OBVIOUS
  <2>2. /\ more \in Seq(Units) /\ Len(more) = Len(stream) + 2
        /\ \A i \in 1 .. Len(more) : IF i <= Len(stream) THEN more[i] = stream[i]
                                     ELSE more[i].frame = frame
        /\ Total(got, more) = Total(got, stream) + 2
        /\ \A i \in 1 .. Total(got, more) :
             IF i <= Total(got, stream) THEN Unit(got, more, i) = Unit(got, stream, i)
             ELSE Unit(got, more, i).frame = frame
    BY AheadOfSend
  <2> QED
    BY <2>1, <2>2
<1>2. Total(c.got, stream) \in Nat
  BY UnitTyped
<1>3. /\ Kinds(c.got, more) \subseteq Kinds(c.got, stream) \union {frame.packet}
      /\ Later(c.got, more) \subseteq Later(c.got, stream) \union {frame.packet}
  <2>1. /\ \A i \in 1 .. Total(c.got, more) : i \in 1 .. Total(c.got, stream) \/ Unit(c.got, more, i).frame = frame
        /\ \A i \in 3 .. Total(c.got, more) : i \in 3 .. Total(c.got, stream) \/ Unit(c.got, more, i).frame = frame
        /\ \A i \in 1 .. Total(c.got, stream) : Unit(c.got, more, i) = Unit(c.got, stream, i)
        /\ \A i \in 3 .. Total(c.got, stream) : i \in 1 .. Total(c.got, stream)
    BY <1>1, <1>2
  <2> QED
    BY <2>1 DEF Kinds, Later
<1>4. Total(c.got, stream) = 0 => Kinds(c.got, stream) = {} /\ Later(c.got, more) = {}
  <2>1. Total(c.got, stream) = 0 => 1 .. Total(c.got, stream) = {} /\ 3 .. Total(c.got, more) = {}
    BY <1>1
  <2> QED
    BY <2>1 DEF Kinds, Later
<1>5. ASSUME NEW i \in 1 .. Len(more)
      PROVE  Fits(more[i].frame, c)
  <2>1. CASE i <= Len(stream)
    <3>1. i \in 1 .. Len(stream) /\ more[i] = stream[i]
      BY <1>1, <2>1
    <3> QED
      BY <3>1 DEF StreamRight
  <2>2. CASE ~(i <= Len(stream))
    <3>1. more[i].frame = frame
      BY <1>1, <2>2
    <3> QED
      BY <3>1
  <2> QED
    BY <2>1, <2>2
<1>6. Packed(c, more, u)
  BY <1>1, PackedSend
<1> QED
  BY <1>1, <1>3, <1>4, <1>5, <1>6 DEF StreamRight

LEMMA Cuttings ==
  ASSUME NEW c \in Conns, NEW s \in Servers, NEW u \in Servers, NEW stream \in Seq(Units),
         NEW rest, IsCut(rest, stream),
         Packed(c, stream, s), StreamRight(stream, c), ~u.open
  PROVE  /\ rest \in Seq(Units)
         /\ Total(c.got, stream) = 0 => Total(c.got, rest) = 0
         /\ Kinds(c.got, rest) \subseteq Kinds(c.got, stream)
         /\ Later(c.got, rest) \subseteq Later(c.got, stream)
         /\ StreamRight(rest, c)
         /\ Packed(c, rest, u)
<1> c.got \in Seq(Held)
  BY DEF Conns
<1>1. /\ rest \in Seq(Units) /\ Len(rest) <= Len(stream)
      /\ \A i \in 1 .. Len(rest) : rest[i] = stream[i]
      /\ Total(c.got, rest) <= Total(c.got, stream)
      /\ \A i \in 1 .. Total(c.got, rest) : Unit(c.got, rest, i) = Unit(c.got, stream, i)
  BY AheadOfCut
<1>2. Total(c.got, stream) \in Nat /\ Total(c.got, rest) \in Nat
  BY <1>1, UnitTyped
<1>3. Total(c.got, stream) = 0 => Total(c.got, rest) = 0
  BY <1>1, <1>2
<1>4. /\ Kinds(c.got, rest) \subseteq Kinds(c.got, stream)
      /\ Later(c.got, rest) \subseteq Later(c.got, stream)
  <2>1. /\ \A i \in 1 .. Total(c.got, rest) : i \in 1 .. Total(c.got, stream)
        /\ \A i \in 3 .. Total(c.got, rest) : i \in 3 .. Total(c.got, stream) /\ i \in 1 .. Total(c.got, rest)
    BY <1>1, <1>2
  <2> QED
    BY <1>1, <2>1 DEF Kinds, Later
<1>5. StreamRight(rest, c)
  <2>1. \A i \in 1 .. Len(rest) : i \in 1 .. Len(stream)
    BY <1>1
  <2> QED
    BY <1>1, <2>1 DEF StreamRight
<1>6. Packed(c, rest, u)
  BY <1>1, PackedCut
<1> QED
  BY <1>1, <1>3, <1>4, <1>5, <1>6

\* The packets on their way to the server.
LEMMA Hearings ==
  ASSUME NEW stream \in Seq(Frames), stream # <<>>
  PROVE  /\ Tail(stream) \in Seq(Frames) /\ Len(Tail(stream)) = Len(stream) - 1
         /\ Head(stream) \in Frames /\ Has(stream, Head(stream).packet)
         /\ \A packet : Has(Tail(stream), packet) => Has(stream, packet)
         /\ Len(stream) <= 1 => Tail(stream) = <<>>
<1>1. /\ Len(stream) \in Nat /\ 1 \in DOMAIN stream /\ Head(stream) = stream[1]
      /\ Tail(stream) \in Seq(Frames) /\ Len(Tail(stream)) = Len(stream) - 1
      /\ \A i \in DOMAIN Tail(stream) : i + 1 \in DOMAIN stream /\ Tail(stream)[i] = stream[i + 1]
  OBVIOUS
<1>2. Len(stream) <= 1 => Tail(stream) = <<>>
  BY <1>1
<1> QED
  BY <1>1, <1>2 DEF Has

IsSaid(more, stream, packet, c) ==
  more = stream \o [i \in DOMAIN <<packet>> |-> Frame(<<packet>>[i], c)]

LEMMA Sayings ==
  ASSUME NEW stream \in Seq(Frames), NEW packet \in Packets, NEW c \in Conns,
         NEW more, IsSaid(more, stream, packet, c)
  PROVE  /\ more \in Seq(Frames) /\ Len(more) = Len(stream) + 1
         /\ \A p : Has(more, p) => Has(stream, p) \/ p = packet
<1>1. Frame(packet, c) \in Frames /\ Frame(packet, c).packet = packet
  BY DEF Frame, Frames, Conns
<1> PICK packets : packets = <<packet>>
  OBVIOUS
<1> PICK frame \in Frames : frame = Frame(packet, c)
  BY <1>1
<1>2. [i \in DOMAIN packets |-> Frame(packets[i], c)] = <<frame>>
  <2>1. DOMAIN packets = 1 .. 1 /\ packets[1] = packet
    OBVIOUS
  <2> QED
    BY <2>1
<1>3. more = stream \o <<frame>>
  BY <1>2 DEF IsSaid
<1>4. /\ more \in Seq(Frames) /\ Len(more) = Len(stream) + 1
      /\ \A i \in DOMAIN more : (i \in DOMAIN stream /\ more[i] = stream[i]) \/ more[i] = frame
  BY <1>3
<1> QED
  BY <1>1, <1>4 DEF Has

-----------------------------------------------------------------------------
(* What the operations of the module do, in a state of the invariant.      *)

\* A packet is sent in modes the connection will read it in.
InMode(packet, s) ==
  /\ packet = "Set Compression" => s.zip
  /\ packet # "Set Compression" => s.zip = server.zip
  /\ packet # "Disconnect" \/ server.cipher => server.cipher = conn.cipher

LEMMA ServerSendsKeeps ==
  ASSUME IInv, NEW packet \in Packets, NEW s \in Servers, ServerSends(packet, s),
         server.open, InMode(packet, s)
  PROVE  /\ server' = s /\ toClient' \in Seq(Units)
         /\ Kinds(conn.got, toClient') \subseteq Kinds(conn.got, toClient) \union {packet}
         /\ Later(conn.got, toClient') \subseteq Later(conn.got, toClient) \union {packet}
         /\ Total(conn.got, toClient) = 0 =>
              Kinds(conn.got, toClient) = {} /\ Later(conn.got, toClient') = {}
         /\ StreamRight(toClient', conn)
         /\ Packed(conn, toClient', s)
<1>1. /\ Frame(packet, server) \in Frames /\ Frame(packet, server).packet = packet
      /\ Frame(packet, server).zip = server.zip /\ Frame(packet, server).cipher = server.cipher
  BY DEF Frame, Frames, IInv, Typed, Servers
<1> PICK frame \in Frames : frame = Frame(packet, server)
  BY <1>1
<1> PICK pair : IsPair(pair, frame)
  BY DEF IsPair
<1>2. IsJoin(toClient', toClient, pair) /\ server' = s
  BY DEF ServerSends, IsJoin, IsPair
<1>3. frame.packet = packet /\ frame.zip = server.zip /\ frame.cipher = server.cipher
  BY <1>1
<1>4. s.zip <=> server.zip \/ Switch(frame)
  BY <1>3 DEF Switch, InMode
<1>5. Fits(frame, conn)
  BY <1>3 DEF Fits, Clear, InMode
<1>6. /\ conn \in Conns /\ server \in Servers /\ toClient \in Seq(Units)
      /\ Packed(conn, toClient, server) /\ StreamRight(toClient, conn)
  BY DEF IInv, Typed, ModeInv
<1> PICK more : more = toClient'
  OBVIOUS
<1>7. IsJoin(more, toClient, pair)
  BY <1>2
<1>8. /\ more \in Seq(Units)
      /\ Kinds(conn.got, more) \subseteq Kinds(conn.got, toClient) \union {frame.packet}
      /\ Later(conn.got, more) \subseteq Later(conn.got, toClient) \union {frame.packet}
      /\ Total(conn.got, toClient) = 0 => Kinds(conn.got, toClient) = {} /\ Later(conn.got, more) = {}
      /\ StreamRight(more, conn)
      /\ Packed(conn, more, s)
  <2>1. server.open /\ frame.zip = server.zip
    BY <1>3
  <2> QED
    BY <1>4, <1>5, <1>6, <1>7, <2>1, Sendings, SMTT(60)
<1> QED
  BY <1>2, <1>3, <1>8

LEMMA ClientSendsKeeps ==
  ASSUME IInv, NEW packet \in Packets, NEW next \in Clients, Sends(<<packet>>, conn, next)
  PROVE  /\ toServer' \in Seq(Frames) /\ Len(toServer') <= Len(toServer) + 1
         /\ \A p : Has(toServer', p) => Has(toServer, p) \/ p = packet
         /\ toClient' \in Seq(Units)
         /\ Total(conn.got, toClient) = 0 => Total(conn.got, toClient') = 0
         /\ Kinds(conn.got, toClient') \subseteq Kinds(conn.got, toClient)
         /\ Later(conn.got, toClient') \subseteq Later(conn.got, toClient)
         /\ StreamRight(toClient', conn)
         /\ Packed(conn, toClient', server)
         /\ client' \in Clients
         /\ \/ client' = next
            \/ client'.state = "failed" /\ toServer' = toServer
<1>1. /\ conn \in Conns /\ server \in Servers /\ toClient \in Seq(Units) /\ client \in Clients
      /\ toServer \in Seq(Frames)
      /\ Packed(conn, toClient, server) /\ StreamRight(toClient, conn)
  BY DEF IInv, Typed, ModeInv
<1>2. CASE /\ server.open /\ client' = next /\ UNCHANGED toClient
           /\ toServer' = toServer \o [i \in DOMAIN <<packet>> |-> Frame(<<packet>>[i], conn)]
  <2> PICK more : more = toServer'
    OBVIOUS
  <2>1. IsSaid(more, toServer, packet, conn)
    BY <1>2 DEF IsSaid
  <2>2. /\ more \in Seq(Frames) /\ Len(more) = Len(toServer) + 1
        /\ \A p : Has(more, p) => Has(toServer, p) \/ p = packet
    BY <1>1, <2>1, Sayings
  <2>3. Len(more) <= Len(toServer) + 1
    BY <1>1, <2>2
  <2> QED
    BY <1>1, <1>2, <2>2, <2>3
<1>3. CASE ~server.open /\ toClient' \in {toClient, <<>>} /\ UNCHANGED toServer
  <2>1. PICK rest : rest = toClient'
    OBVIOUS
  <2>2. IsCut(rest, toClient)
    BY <1>3, <2>1 DEF IsCut
  <2>3. ~server.open
    BY <1>3
  <2>4. /\ rest \in Seq(Units)
        /\ Total(conn.got, toClient) = 0 => Total(conn.got, rest) = 0
        /\ Kinds(conn.got, rest) \subseteq Kinds(conn.got, toClient)
        /\ Later(conn.got, rest) \subseteq Later(conn.got, toClient)
        /\ StreamRight(rest, conn)
        /\ Packed(conn, rest, server)
    BY <1>1, <2>2, <2>3, Cuttings
  <2>5. client' = next \/ (client' \in Clients /\ client'.state = "failed")
    BY <1>1 DEF Sends, Fails, Clients
  <2> QED
    BY <1>1, <1>3, <2>1, <2>4, <2>5
<1> QED
  BY <1>2, <1>3 DEF Sends

\* A frame taken off the link.
LEMMA TakesKeeps ==
  ASSUME IInv, NEW packets, Takes(packets), NEW d \in Conns, d.got = Taken.got,
         d.zip <=> conn.zip \/ Switch(NextFrame)
  PROVE  /\ NextFrame.packet \in packets /\ Reading
         /\ NextFrame.packet \in Kinds(conn.got, toClient)
         /\ server' = server /\ toServer' = toServer /\ toClient' = toClient
         /\ Total(conn.got, toClient) # 0
         /\ Kinds(d.got, toClient) \subseteq Later(conn.got, toClient)
         /\ Kinds(d.got, toClient) \subseteq Kinds(conn.got, toClient)
         /\ Later(d.got, toClient) \subseteq Later(conn.got, toClient)
         /\ HeldRight(d.got) /\ Packed(d, toClient, server)
<1>1. /\ conn \in Conns /\ server \in Servers /\ toClient \in Seq(Units)
      /\ Packed(conn, toClient, server) /\ HeldRight(conn.got)
      /\ conn.got \in Seq(Held)
  BY DEF IInv, Typed, ModeInv, Conns
<1>2. /\ Len(conn.got) >= 2 /\ NextFrame.packet \in packets /\ Reading
      /\ server' = server /\ toServer' = toServer /\ toClient' = toClient
  BY DEF Takes, Whole
<1>3. IsRest(d.got, conn.got, 2)
  <2>1. Taken.got = SubSeq(conn.got, 3, Len(conn.got))
    BY <1>1 DEF Taken, Conns
  <2> QED
    BY <2>1 DEF IsRest
<1>4. d.zip <=> conn.zip \/ Switch(conn.got[1].unit.frame)
  BY DEF NextFrame
<1>5. /\ conn.got[1].unit.frame.packet \in Kinds(conn.got, toClient)
      /\ Kinds(d.got, toClient) \subseteq Later(conn.got, toClient)
      /\ Kinds(d.got, toClient) \subseteq Kinds(conn.got, toClient)
      /\ Later(d.got, toClient) \subseteq Later(conn.got, toClient)
      /\ HeldRight(d.got)
      /\ Packed(d, toClient, server)
  BY <1>1, <1>2, <1>3, <1>4, Takings
<1>6. Total(conn.got, toClient) # 0
  <2>1. Len(conn.got) \in Nat /\ Len(toClient) \in Nat
    BY <1>1
  <2> QED
    BY <1>2, <2>1 DEF Total
<1> QED
  BY <1>2, <1>5, <1>6 DEF NextFrame

\* The head of what goes to the server is read.
LEMMA ServerReadsKeeps ==
  ASSUME IInv, NEW packet, ServerReads(packet)
  PROVE  /\ server.open /\ Has(toServer, packet)
         /\ toServer' \in Seq(Frames) /\ Len(toServer') = Len(toServer) - 1 /\ Len(toServer) \in Nat
         /\ \A p : Has(toServer', p) => Has(toServer, p)
         /\ Len(toServer) <= 1 => toServer' = <<>> /\ Len(toServer') <= 1
         /\ service' = service /\ conn' = conn /\ client' = client
<1>1. /\ toServer \in Seq(Frames) /\ toServer # <<>> /\ Head(toServer).packet = packet
      /\ toServer' = Tail(toServer) /\ server.open
      /\ service' = service /\ conn' = conn /\ client' = client
  BY DEF ServerReads, IInv, Typed
<1>2. /\ Tail(toServer) \in Seq(Frames) /\ Len(Tail(toServer)) = Len(toServer) - 1
      /\ Has(toServer, Head(toServer).packet)
      /\ \A p : Has(Tail(toServer), p) => Has(toServer, p)
      /\ Len(toServer) <= 1 => Tail(toServer) = <<>>
  BY <1>1, Hearings
<1>3. Len(toServer) \in Nat
  BY <1>1
<1>4. Len(toServer) <= 1 => Len(toServer') <= 1
  BY <1>1, <1>2, <1>3
<1> QED
  BY <1>1, <1>2, <1>3, <1>4

LEMMA NoneHas == \A packet : ~Has(<<>>, packet)
  BY DEF Has

-----------------------------------------------------------------------------
(* Each step keeps the invariant.                                          *)

LEMMA Initially == Init => IInv
<1> SUFFICES ASSUME Init PROVE IInv
  OBVIOUS
<1>1. PICK account \in BOOLEAN : client = [state |-> "new", why |-> "", account |-> account, plays |-> 0]
  BY DEF Init
<1>2. /\ server = NewServer /\ service = "no join" /\ conn = NewConn
      /\ toServer = <<>> /\ toClient = <<>>
  BY DEF Init
<1>3. client \in Clients /\ client.state = "new"
  BY <1>1 DEF Clients
<1>4. /\ server \in Servers /\ server.state = "hello" /\ ~server.cipher /\ server.open
      /\ server.zip = FALSE
  BY <1>2 DEF NewServer, Servers
<1>5. <<>> \in Seq(Held) /\ <<>> \in Seq(Units) /\ <<>> \in Seq(Frames) /\ Len(<<>>) = 0
  OBVIOUS
<1>6. /\ conn \in Conns /\ conn.zip = FALSE /\ conn.cipher = FALSE /\ conn.got = <<>>
  BY <1>2, <1>5 DEF NewConn, Conns
<1>7. Total(conn.got, toClient) = 0
  <2>1. Len(conn.got) = 0 /\ Len(toClient) = 0
    BY <1>2, <1>5, <1>6
  <2> QED
    BY <2>1 DEF Total
<1>8. Kinds(conn.got, toClient) = {} /\ Later(conn.got, toClient) = {}
  <2>1. 1 .. 0 = {} /\ 3 .. 0 = {}
    OBVIOUS
  <2> QED
    BY <1>7, <2>1 DEF Kinds, Later
<1>9. HeldRight(conn.got) /\ StreamRight(toClient, conn)
  <2>1. Len(conn.got) = 0 /\ Len(toClient) = 0
    BY <1>2, <1>5, <1>6
  <2>2. 1 .. 0 = {}
    OBVIOUS
  <2> QED
    BY <2>1, <2>2 DEF HeldRight, StreamRight
<1>10. Packed(conn, toClient, server)
  <2>1. /\ \A k \in Places : ~(2 * k <= 0) /\ ~(2 * k - 1 <= 0)
        /\ 0 \in Nat /\ 0 = 2 * 0
    BY DEF Places
  <2>2. \E k \in Nat : Total(conn.got, toClient) = 2 * k
    BY <1>7, <2>1
  <2> QED
    BY <1>4, <1>6, <1>7, <2>1, <2>2 DEF Packed
<1>11. Typed
  BY <1>2, <1>3, <1>4, <1>5, <1>6 DEF Typed
<1>12. RequestInv
  <2>1. /\ ~Has(toServer, "Login Start") /\ ~Answered /\ Len(toServer) <= 1
        /\ service = "no join" /\ toServer = <<>> /\ server.state = "hello" /\ ~conn.cipher
        /\ client.state = "new" /\ Total(conn.got, toClient) = 0
    <3>1. ~Has(toServer, "Login Start") /\ ~Answered
      BY <1>2, NoneHas DEF Answered
    <3>2. Len(toServer) <= 1
      <4>1. Len(toServer) = 0
        BY <1>2, <1>5
      <4> QED
        BY <4>1
    <3> QED
      BY <1>2, <1>3, <1>4, <1>6, <1>7, <3>1, <3>2
  <2> QED
    BY <1>8, <2>1 DEF RequestInv
<1>13. ModeInv
  BY <1>4, <1>6, <1>8, <1>9, <1>10 DEF ModeInv
<1> QED
  BY <1>11, <1>12, <1>13 DEF IInv

\* A step of the client that touches neither the link nor its modes.
LEMMA ClientOnly ==
  ASSUME IInv, UNCHANGED <<server, service, toServer, toClient>>,
         conn' \in Conns, conn'.got = conn.got, conn'.zip = conn.zip, conn'.cipher = conn.cipher,
         client' \in Clients, client'.state \notin {"new", "joining"},
         server.state = "hello" => client'.state \in {"login", "ended", "failed"}
  PROVE  IInv'
<1>1. Typed'
  BY DEF IInv, Typed
<1>2. RequestInv'
  BY DEF IInv, RequestInv, Answered
<1>3. ModeInv'
  <2>1. StreamRight(toClient, conn')
    BY DEF IInv, ModeInv, StreamRight, Fits
  <2>2. Packed(conn', toClient, server)
    BY DEF IInv, ModeInv, Packed
  <2> QED
    BY <2>1, <2>2 DEF IInv, ModeInv
<1> QED
  BY <1>1, <1>2, <1>3 DEF IInv

LEMMA Bystanders ==
  ASSUME IInv, StreamEnds \/ Misread \/ LostEnds \/ JoinFails \/ Wait \/ ReadOn
  PROVE  IInv'
<1>1. /\ client \in Clients /\ conn \in Conns /\ Len(conn.got) \in Nat /\ Len(toClient) \in Nat
      /\ server.state = "hello" => /\ Total(conn.got, toClient) = 0
                                   /\ client.state \in {"new", "login", "ended", "failed"}
  <2>1. client \in Clients /\ conn \in Conns /\ conn.got \in Seq(Held) /\ toClient \in Seq(Units)
    BY DEF IInv, Typed, Conns
  <2>2. server.state = "hello" => /\ Total(conn.got, toClient) = 0
                                  /\ client.state \in {"new", "login", "ended", "failed"}
    BY DEF IInv, RequestInv
  <2>3. Len(conn.got) \in Nat /\ Len(toClient) \in Nat
    BY <2>1
  <2> QED
    BY <2>1, <2>2, <2>3
<1>2. UNCHANGED <<server, service, toServer, toClient>>
  BY DEF StreamEnds, Misread, LostEnds, JoinFails, Wait, ReadOn
<1>3. /\ conn' \in Conns
      /\ conn'.got = conn.got /\ conn'.zip = conn.zip /\ conn'.cipher = conn.cipher
  BY <1>1 DEF StreamEnds, Misread, LostEnds, JoinFails, Wait, ReadOn, Conns
<1>4. client' \in Clients /\ client'.state \notin {"new", "joining"}
  BY <1>1 DEF StreamEnds, Misread, LostEnds, JoinFails, Wait, ReadOn, Ends, Fails, Clients
<1>5. ASSUME server.state = "hello"
      PROVE  client'.state \in {"login", "ended", "failed"}
  <2>1. ~Misread
    <3>1. Whole => Total(conn.got, toClient) # 0
      BY <1>1 DEF Whole, Total
    <3> QED
      BY <1>1, <1>5, <3>1 DEF Misread
  <2>2. ~Wait /\ ~ReadOn /\ ~LostEnds /\ ~JoinFails
    BY <1>1, <1>5 DEF Wait, ReadOn, LostEnds, JoinFails
  <2> QED
    BY <1>1, <2>1, <2>2 DEF StreamEnds, Ends, Clients
<1> QED
  BY <1>2, <1>3, <1>4, <1>5, ClientOnly

LEMMA IdleKeeps == IInv /\ Idle => IInv'
<1> SUFFICES ASSUME IInv, Idle PROVE IInv'
  OBVIOUS
<1>1. client \in Clients /\ conn \in Conns /\ client.state = "play" /\ client' = client
      /\ UNCHANGED <<server, service, toServer, toClient>>
      /\ conn' = [conn EXCEPT !.deadline = TRUE]
  BY DEF IInv, Typed, Idle
<1>2. server.state # "hello"
  BY <1>1 DEF IInv, RequestInv
<1>3. /\ conn' \in Conns
      /\ conn'.got = conn.got /\ conn'.zip = conn.zip /\ conn'.cipher = conn.cipher
  BY <1>1 DEF Conns
<1> QED
  BY <1>1, <1>2, <1>3, ClientOnly

LEMMA FillKeeps == IInv /\ Fill => IInv'
<1> SUFFICES ASSUME IInv, Fill PROVE IInv'
  OBVIOUS
<1>1. PICK n \in 1 .. Len(toClient) :
        /\ conn' = [conn EXCEPT !.got = @ \o Opened(SubSeq(toClient, 1, n))]
        /\ toClient' = SubSeq(toClient, n + 1, Len(toClient))
  BY DEF Fill
<1>2. /\ conn \in Conns /\ conn.got \in Seq(Held) /\ toClient \in Seq(Units) /\ server \in Servers
      /\ Packed(conn, toClient, server) /\ HeldRight(conn.got) /\ StreamRight(toClient, conn)
      /\ conn.cipher \in BOOLEAN
  BY DEF IInv, Typed, ModeInv, Conns
<1>3. UNCHANGED <<server, service, toServer, client>> /\ client.state \notin {"new", "joining"}
  BY DEF Fill, Reading
<1> PICK units : units = SubSeq(toClient, 1, n)
  OBVIOUS
<1> PICK opened : opened = Opened(units)
  OBVIOUS
<1>4. /\ opened \in Seq(Held) /\ Len(opened) = n /\ OpenedAs(opened, toClient, n)
      /\ \A i \in 1 .. n : opened[i].cipher = conn.cipher
  <2>1. units \in Seq(Units) /\ Len(units) = n /\ \A i \in 1 .. n : units[i] = toClient[i]
    <3>1. n \in 0 .. Len(toClient) /\ 1 \in Nat \ {0} /\ 1 <= n + 1
      BY <1>2
    <3>2. /\ SubSeq(toClient, 1, n) \in Seq(Units) /\ Len(SubSeq(toClient, 1, n)) = n - 1 + 1
          /\ \A i \in 1 .. n - 1 + 1 : SubSeq(toClient, 1, n)[i] = toClient[i + 1 - 1]
      BY <1>2, <3>1, Part
    <3>3. n - 1 + 1 = n /\ \A i \in 1 .. n : i + 1 - 1 = i
      OBVIOUS
    <3> QED
      BY <3>2, <3>3
  <2>2. \A i \in 1 .. n : [unit |-> units[i], cipher |-> conn.cipher] \in Held
    BY <1>2, <2>1 DEF Held
  <2>3. opened = [i \in 1 .. n |-> [unit |-> units[i], cipher |-> conn.cipher]]
    BY <2>1 DEF Opened
  <2>4. opened \in Seq(Held) /\ Len(opened) = n
    BY <2>2, <2>3
  <2>5. \A i \in 1 .. n : opened[i].unit = units[i] /\ opened[i].cipher = conn.cipher
    BY <2>3
  <2> QED
    BY <2>1, <2>4, <2>5 DEF OpenedAs
<1>5. conn'.got = conn.got \o opened /\ conn'.zip = conn.zip /\ conn'.cipher = conn.cipher
  BY <1>1, <1>2 DEF Conns
<1>6. conn' \in Conns
  <2> PICK got : got = conn.got \o opened
    OBVIOUS
  <2>1. got \in Seq(Held)
    BY <1>2, <1>4
  <2>2. conn' = [conn EXCEPT !.got = got]
    BY <1>1
  <2> QED
    BY <1>2, <2>1, <2>2 DEF Conns
<1> PICK d \in Conns : d = conn'
  BY <1>6
<1> PICK rest : rest = toClient'
  OBVIOUS
<1>7. IsJoin(d.got, conn.got, opened) /\ IsRest(rest, toClient, n) /\ d.zip = conn.zip /\ d.cipher = conn.cipher
  BY <1>1, <1>5 DEF IsJoin, IsRest
<1>8. /\ rest \in Seq(Units)
      /\ Total(d.got, rest) = Total(conn.got, toClient)
      /\ Kinds(d.got, rest) = Kinds(conn.got, toClient) /\ Later(d.got, rest) = Later(conn.got, toClient)
      /\ HeldRight(d.got) /\ StreamRight(rest, d)
      /\ Packed(d, rest, server)
  BY <1>2, <1>4, <1>7, Reads
<1>9. Typed'
  BY <1>3, <1>6, <1>8 DEF IInv, Typed
<1>10. RequestInv'
  BY <1>3, <1>7, <1>8 DEF IInv, RequestInv, Answered
<1>11. ModeInv'
  BY <1>3, <1>7, <1>8 DEF IInv, ModeInv
<1> QED
  BY <1>9, <1>10, <1>11 DEF IInv

\* A frame is taken, and what follows from it is of the client and the service.
LEMMA TakeKeeps ==
  ASSUME IInv, NEW packets, Takes(packets), conn' \in Conns, conn'.got = Taken.got,
         conn'.cipher = conn.cipher, conn'.zip <=> conn.zip \/ Switch(NextFrame),
         client' \in Clients, client'.state # "new",
         service' = service \/ NextFrame.packet = "Encryption Request",
         client'.state = "joining" => NextFrame.packet = "Encryption Request"
  PROVE  IInv'
<1>1. PICK d \in Conns : d = conn'
  OBVIOUS
<1>2. d.got = Taken.got /\ (d.zip <=> conn.zip \/ Switch(NextFrame))
  BY <1>1
<1>3. /\ NextFrame.packet \in packets /\ Reading
      /\ NextFrame.packet \in Kinds(conn.got, toClient)
      /\ server' = server /\ toServer' = toServer /\ toClient' = toClient
      /\ Total(conn.got, toClient) # 0
      /\ Kinds(d.got, toClient) \subseteq Later(conn.got, toClient)
      /\ Kinds(d.got, toClient) \subseteq Kinds(conn.got, toClient)
      /\ Later(d.got, toClient) \subseteq Later(conn.got, toClient)
      /\ HeldRight(d.got) /\ Packed(d, toClient, server)
  BY <1>2, TakesKeeps
<1>4. Typed'
  BY <1>1, <1>3 DEF IInv, Typed
<1>5. RequestInv'
  <2>1. server.state # "hello" /\ "Encryption Request" \notin Later(conn.got, toClient)
    BY <1>3 DEF IInv, RequestInv
  <2>2. "Encryption Request" \notin Kinds(d.got, toClient) /\ "Encryption Request" \notin Later(d.got, toClient)
    BY <1>3, <2>1
  <2>3. CASE NextFrame.packet = "Encryption Request"
    <3>1. server.state = "key" /\ ~Answered /\ ~conn.cipher
      BY <1>3, <2>3 DEF IInv, RequestInv
    <3> QED
      BY <1>1, <1>3, <2>1, <2>2, <3>1 DEF IInv, RequestInv, Answered
  <2>4. CASE NextFrame.packet # "Encryption Request"
    <3>1. service' = service /\ client'.state # "joining"
      BY <2>4
    <3> QED
      BY <1>1, <1>3, <2>1, <2>2, <3>1 DEF IInv, RequestInv, Answered
  <2> QED
    BY <2>3, <2>4
<1>6. ModeInv'
  <2>1. StreamRight(toClient, d)
    BY <1>1 DEF IInv, ModeInv, StreamRight, Fits
  <2> QED
    BY <1>1, <1>3, <2>1 DEF IInv, ModeInv
<1> QED
  BY <1>4, <1>5, <1>6 DEF IInv

LEMMA TakingKeeps ==
  ASSUME IInv, SetCompression \/ LoginSuccess \/ Disconnect \/ EncryptionRequest \/ Play
  PROVE  IInv'
<1>1. conn \in Conns /\ client \in Clients
  BY DEF IInv, Typed
<1>2. /\ Taken.got = SubSeq(conn.got, 3, Len(conn.got)) /\ Taken.zip = conn.zip
      /\ Taken.cipher = conn.cipher /\ Taken.deadline = conn.deadline
  BY <1>1 DEF Taken, Conns
<1>3. ASSUME Whole PROVE Taken \in Conns
  <2>1. conn.got \in Seq(Held) /\ Len(conn.got) >= 2
    BY <1>1, <1>3 DEF Conns, Whole
  <2>2. PICK got : got = SubSeq(conn.got, 3, Len(conn.got))
    OBVIOUS
  <2>3. got \in Seq(Held)
    <3>1. IsRest(got, conn.got, 2) /\ 2 \in 0 .. Len(conn.got)
      BY <2>1, <2>2 DEF IsRest
    <3> QED
      BY <2>1, <3>1, RestOf
  <2>4. Taken = [conn EXCEPT !.got = got]
    BY <2>2 DEF Taken
  <2> QED
    BY <1>1, <2>3, <2>4 DEF Conns
<1>4. CASE SetCompression
  <2>1. /\ Takes({"Set Compression"}) /\ Whole /\ NextFrame.packet = "Set Compression"
        /\ conn' = [Taken EXCEPT !.zip = TRUE] /\ UNCHANGED <<service, client>> /\ client.state = "login"
    BY <1>4 DEF SetCompression, Takes
  <2>2. Taken \in Conns
    BY <1>3, <2>1
  <2>3. /\ conn' \in Conns /\ conn'.got = Taken.got /\ conn'.cipher = conn.cipher /\ conn'.zip
    BY <1>2, <2>1, <2>2 DEF Conns
  <2>4. conn'.zip <=> conn.zip \/ Switch(NextFrame)
    BY <2>1, <2>3 DEF Switch
  <2> QED
    BY <1>1, <2>1, <2>3, <2>4, TakeKeeps
<1>5. CASE LoginSuccess \/ Disconnect \/ EncryptionRequest \/ Play
  <2>1. PICK packets : /\ Takes(packets) /\ Whole /\ NextFrame.packet \in packets
                       /\ "Set Compression" \notin packets /\ conn' = Taken
    BY <1>5 DEF LoginSuccess, Disconnect, EncryptionRequest, Play, Takes
  <2>2. /\ conn' \in Conns /\ conn'.got = Taken.got /\ conn'.cipher = conn.cipher
        /\ conn'.zip = conn.zip
    BY <1>2, <1>3, <2>1
  <2>3. ~Switch(NextFrame)
    BY <2>1 DEF Switch
  <2>4. conn'.zip <=> conn.zip \/ Switch(NextFrame)
    BY <2>2, <2>3
  <2>5. client' \in Clients /\ client'.state # "new"
    BY <1>1, <1>5 DEF LoginSuccess, Disconnect, EncryptionRequest, Play, Ends, Fails, Clients
  <2>6. /\ service' = service \/ NextFrame.packet = "Encryption Request"
        /\ client'.state = "joining" => NextFrame.packet = "Encryption Request"
    <3>1. CASE EncryptionRequest
      BY <3>1 DEF EncryptionRequest, Takes
    <3>2. CASE LoginSuccess \/ Disconnect \/ Play
      BY <1>1, <3>2 DEF LoginSuccess, Disconnect, Play, Ends, Clients
    <3> QED
      BY <1>5, <3>1, <3>2
  <2> QED
    BY <2>1, <2>2, <2>4, <2>5, <2>6, TakeKeeps
<1> QED
  BY <1>4, <1>5

LEMMA StartKeeps == IInv /\ Start => IInv'
<1> SUFFICES ASSUME IInv, Start PROVE IInv'
  OBVIOUS
<1> PICK next : next = [client EXCEPT !.state = "login"]
  OBVIOUS
<1>1. /\ client.state = "new" /\ client \in Clients /\ toServer \in Seq(Frames)
      /\ Sends(<<"Login Start">>, conn, next)
      /\ UNCHANGED <<server, service, conn, sent, delivered>>
  BY DEF Start, IInv, Typed
<1>2. next \in Clients /\ next.state = "login" /\ "Login Start" \in Packets
  BY <1>1 DEF Clients, Packets
<1>3. /\ toServer' \in Seq(Frames) /\ Len(toServer') <= Len(toServer) + 1
      /\ \A p : Has(toServer', p) => Has(toServer, p) \/ p = "Login Start"
      /\ toClient' \in Seq(Units)
      /\ Total(conn.got, toClient) = 0 => Total(conn.got, toClient') = 0
      /\ Kinds(conn.got, toClient') \subseteq Kinds(conn.got, toClient)
      /\ Later(conn.got, toClient') \subseteq Later(conn.got, toClient)
      /\ StreamRight(toClient', conn)
      /\ Packed(conn, toClient', server)
      /\ client' \in Clients
      /\ \/ client' = next
         \/ client'.state = "failed" /\ toServer' = toServer
  BY <1>1, <1>2, ClientSendsKeeps
<1>4. server.state = "hello" /\ toServer = <<>> /\ "Encryption Request" \notin Later(conn.got, toClient)
  BY <1>1 DEF IInv, RequestInv
<1>5. "Encryption Request" \notin Kinds(conn.got, toClient) /\ service = "no join" /\ ~conn.cipher
      /\ Total(conn.got, toClient) = 0
  BY <1>4 DEF IInv, RequestInv
<1>6. Len(toServer') <= 1
  <2>1. Len(toServer) = 0
    BY <1>4
  <2>2. Len(toServer') <= Len(toServer) + 1
    BY <1>3
  <2> QED
    BY <2>1, <2>2
<1>7. ~Has(toServer', "Encryption Response")
  <2>1. ~Has(toServer, "Encryption Response") /\ "Encryption Response" # "Login Start"
    BY <1>4, NoneHas
  <2> QED
    BY <1>3, <2>1
<1>8. client'.state \in {"login", "failed"}
  BY <1>2, <1>3
<1>9. Typed'
  BY <1>1, <1>3 DEF IInv, Typed
<1>10. RequestInv'
  BY <1>1, <1>3, <1>4, <1>5, <1>6, <1>7, <1>8 DEF RequestInv, Answered
<1>11. ModeInv'
  BY <1>1, <1>3 DEF IInv, ModeInv
<1> QED
  BY <1>9, <1>10, <1>11 DEF IInv

LEMMA TickKeeps == IInv /\ Tick => IInv'
<1> SUFFICES ASSUME IInv, Tick PROVE IInv'
  OBVIOUS
<1> PICK next : next = [client EXCEPT !.plays = @ + 1]
  OBVIOUS
<1>1. /\ client.state = "play" /\ client \in Clients
      /\ Sends(<<"Play">>, conn, next)
      /\ UNCHANGED <<server, service, conn, sent, delivered>>
  BY DEF Tick, IInv, Typed
<1>2. next \in Clients /\ next.state = "play" /\ "Play" \in Packets
  <2>1. client.plays \in Nat
    BY <1>1 DEF Clients
  <2> PICK plays \in Nat : plays = client.plays + 1
    BY <2>1
  <2>2. next = [client EXCEPT !.plays = plays]
    OBVIOUS
  <2>3. next \in Clients /\ next.state = "play"
    BY <1>1, <2>2 DEF Clients
  <2> QED
    BY <2>3 DEF Packets
<1>3. /\ toServer' \in Seq(Frames) /\ Len(toServer') <= Len(toServer) + 1
      /\ \A p : Has(toServer', p) => Has(toServer, p) \/ p = "Play"
      /\ toClient' \in Seq(Units)
      /\ Total(conn.got, toClient) = 0 => Total(conn.got, toClient') = 0
      /\ Kinds(conn.got, toClient') \subseteq Kinds(conn.got, toClient)
      /\ Later(conn.got, toClient') \subseteq Later(conn.got, toClient)
      /\ StreamRight(toClient', conn)
      /\ Packed(conn, toClient', server)
      /\ client' \in Clients
      /\ \/ client' = next
         \/ client'.state = "failed" /\ toServer' = toServer
  BY <1>1, <1>2, ClientSendsKeeps
<1>4. server.state # "hello"
  BY <1>1 DEF IInv, RequestInv
<1>5. /\ Has(toServer', "Login Start") => Has(toServer, "Login Start")
      /\ Has(toServer', "Encryption Response") => Has(toServer, "Encryption Response")
  <2>1. "Login Start" # "Play" /\ "Encryption Response" # "Play"
    OBVIOUS
  <2> QED
    BY <1>3, <2>1
<1>6. client'.state \in {"play", "failed"}
  BY <1>2, <1>3
<1>7. Typed'
  BY <1>1, <1>3 DEF IInv, Typed
<1>8. RequestInv'
  BY <1>1, <1>3, <1>4, <1>5, <1>6 DEF IInv, RequestInv, Answered
<1>9. ModeInv'
  BY <1>1, <1>3 DEF IInv, ModeInv
<1> QED
  BY <1>7, <1>8, <1>9 DEF IInv

\* The frames still before a client that turns its ciphers on are reasons given
\* in the clear.
LEMMA JoinAnsweredKeeps == IInv /\ JoinAnswered => IInv'
<1> SUFFICES ASSUME IInv, JoinAnswered PROVE IInv'
  OBVIOUS
<1> PICK next : next = [client EXCEPT !.state = "login"]
  OBVIOUS
<1>1. /\ client.state = "joining" /\ client \in Clients /\ conn \in Conns /\ service = "joined"
      /\ Sends(<<"Encryption Response">>, conn, next)
      /\ conn' = [conn EXCEPT !.cipher = TRUE]
      /\ UNCHANGED <<server, service, sent, delivered>>
  BY DEF JoinAnswered, IInv, Typed
<1>2. next \in Clients /\ next.state = "login" /\ "Encryption Response" \in Packets
  BY <1>1 DEF Clients, Packets
<1>3. /\ toServer' \in Seq(Frames) /\ Len(toServer') <= Len(toServer) + 1
      /\ \A p : Has(toServer', p) => Has(toServer, p) \/ p = "Encryption Response"
      /\ toClient' \in Seq(Units)
      /\ Total(conn.got, toClient) = 0 => Total(conn.got, toClient') = 0
      /\ Kinds(conn.got, toClient') \subseteq Kinds(conn.got, toClient)
      /\ Later(conn.got, toClient') \subseteq Later(conn.got, toClient)
      /\ StreamRight(toClient', conn)
      /\ Packed(conn, toClient', server)
      /\ client' \in Clients
      /\ \/ client' = next
         \/ client'.state = "failed" /\ toServer' = toServer
  BY <1>1, <1>2, ClientSendsKeeps
<1>4. /\ server.state = "key" /\ ~conn.cipher
      /\ "Encryption Request" \notin Kinds(conn.got, toClient)
      /\ "Encryption Request" \notin Later(conn.got, toClient)
  BY <1>1 DEF IInv, RequestInv
<1>5. /\ conn' \in Conns /\ conn'.got = conn.got /\ conn'.zip = conn.zip /\ conn'.cipher
  BY <1>1 DEF Conns
<1>6. Kinds(conn.got, toClient') \subseteq {"Disconnect"}
  <2>1. Kinds(conn.got, toClient) \subseteq {"Encryption Request", "Disconnect"}
    BY <1>4 DEF IInv, ModeInv
  <2> QED
    BY <1>3, <1>4, <2>1
<1>7. StreamRight(toClient', conn')
  <2>1. ASSUME NEW i \in 1 .. Len(toClient')
        PROVE  Fits(toClient'[i].frame, conn')
    <3> PICK stream \in Seq(Units) : stream = toClient'
      BY <1>3
    <3> PICK got \in Seq(Held) : got = conn.got
      BY <1>1 DEF Conns
    <3>1. /\ Len(got) + i \in 1 .. Total(got, stream) /\ Len(got) + i - Len(got) = i
          /\ ~(Len(got) + i <= Len(got))
      BY <2>1 DEF Total
    <3>2. Unit(got, stream, Len(got) + i) = stream[i]
      BY <3>1 DEF Unit
    <3>3. stream[i].frame.packet \in Kinds(got, stream)
      BY <3>1, <3>2 DEF Kinds
    <3>4. stream[i].frame.packet = "Disconnect"
      BY <1>6, <3>3
    <3>5. stream[i].frame.cipher = conn.cipher \/ Clear(stream[i].frame)
      BY <1>3, <2>1 DEF StreamRight, Fits
    <3> QED
      BY <1>4, <3>4, <3>5 DEF Fits, Clear
  <2> QED
    BY <2>1 DEF StreamRight
<1>8. Packed(conn', toClient', server)
  BY <1>3, <1>5 DEF Packed
<1>9. server.state # "hello" => ~Has(toServer', "Login Start")
  <2>1. ~Has(toServer, "Login Start") /\ "Login Start" # "Encryption Response"
    BY <1>4 DEF IInv, RequestInv
  <2> QED
    BY <1>3, <2>1
<1>10. client'.state \in {"login", "failed"}
  BY <1>2, <1>3
<1>11. Typed'
  BY <1>1, <1>3, <1>5 DEF IInv, Typed
<1>12. RequestInv'
  BY <1>1, <1>3, <1>4, <1>5, <1>9, <1>10 DEF IInv, RequestInv, Answered
<1>13. ModeInv'
  BY <1>1, <1>3, <1>4, <1>5, <1>6, <1>7, <1>8 DEF IInv, ModeInv
<1> QED
  BY <1>11, <1>12, <1>13 DEF IInv

LEMMA ServicedKeeps == IInv /\ Serviced => IInv'
<1> SUFFICES ASSUME IInv, Serviced PROVE IInv'
  OBVIOUS
<1>1. /\ client.state = "joining" /\ service' = "joined"
      /\ UNCHANGED <<server, toServer, toClient, conn, client, sent, delivered>>
  BY DEF Serviced
<1>2. server.state = "key" /\ ~Answered /\ "Encryption Request" \notin Kinds(conn.got, toClient)
  BY <1>1 DEF IInv, RequestInv
<1>3. Typed'
  BY <1>1 DEF IInv, Typed
<1>4. RequestInv'
  BY <1>1, <1>2 DEF IInv, RequestInv, Answered
<1>5. ModeInv'
  BY <1>1 DEF IInv, ModeInv
<1> QED
  BY <1>3, <1>4, <1>5 DEF IInv

\* The server reads, and sends nothing.
LEMMA ServerHearsKeeps ==
  ASSUME IInv, NEW packet, ServerReads(packet), server' \in Servers,
         server'.open = server.open, server'.zip = server.zip, toClient' = toClient,
         \/ server'.state = server.state /\ server'.cipher = server.cipher
         \/ packet = "Login Start" /\ server'.state = "accept" /\ server'.cipher = server.cipher
         \/ packet = "Encryption Response" /\ server'.state = "verify" /\ server'.cipher
  PROVE  IInv'
<1>1. /\ server.open /\ Has(toServer, packet)
      /\ toServer' \in Seq(Frames) /\ Len(toServer') = Len(toServer) - 1 /\ Len(toServer) \in Nat
      /\ \A p : Has(toServer', p) => Has(toServer, p)
      /\ Len(toServer) <= 1 => toServer' = <<>> /\ Len(toServer') <= 1
      /\ service' = service /\ conn' = conn /\ client' = client
  BY ServerReadsKeeps
<1>2. Packed(conn, toClient, server')
  <2>1. Packed(conn, toClient, server)
    BY DEF IInv, ModeInv
  <2>2. server'.open = server.open /\ server'.zip = server.zip
    OBVIOUS
  <2> QED
    BY <2>1, <2>2 DEF Packed
<1>3. ~(client.state = "new")
  <2>1. ASSUME client.state = "new" PROVE FALSE
    <3>1. toServer = <<>>
      BY <2>1 DEF IInv, RequestInv
    <3> QED
      BY <1>1, <3>1, NoneHas
  <2> QED
    BY <2>1
<1>4. Typed'
  BY <1>1 DEF IInv, Typed
<1>5. CASE server'.state = server.state /\ server'.cipher = server.cipher
  <2>1. Len(toServer) <= 1 => Len(toServer') <= 1
    BY <1>1
  <2>2. RequestInv'
    BY <1>1, <1>3, <1>5, <2>1 DEF IInv, RequestInv, Answered
  <2>3. ModeInv'
    BY <1>1, <1>2, <1>5 DEF IInv, ModeInv
  <2> QED
    BY <1>4, <2>2, <2>3 DEF IInv
<1>6. CASE packet = "Login Start" /\ server'.state = "accept" /\ server'.cipher = server.cipher
  <2>1. server.state = "hello"
    BY <1>1, <1>6 DEF IInv, RequestInv
  <2>2. /\ Len(toServer) <= 1 /\ client.state # "joining" /\ ~conn.cipher
        /\ "Encryption Request" \notin Kinds(conn.got, toClient)
    BY <2>1 DEF IInv, RequestInv
  <2>3. toServer' = <<>> /\ \A p : ~Has(toServer', p)
    BY <1>1, <2>2, NoneHas
  <2>4. RequestInv'
    BY <1>1, <1>3, <1>6, <2>2, <2>3 DEF IInv, RequestInv, Answered
  <2>5. ModeInv'
    BY <1>1, <1>2, <1>6, <2>2 DEF IInv, ModeInv
  <2> QED
    BY <1>4, <2>4, <2>5 DEF IInv
<1>7. CASE packet = "Encryption Response" /\ server'.state = "verify" /\ server'.cipher
  <2>1. Answered /\ service = "joined" /\ conn.cipher
    BY <1>1, <1>7 DEF IInv, RequestInv, Answered
  <2>2. /\ server.state # "hello" /\ client.state # "joining"
        /\ "Encryption Request" \notin Kinds(conn.got, toClient)
    BY <2>1 DEF IInv, RequestInv
  <2>3. ~Has(toServer', "Login Start")
    BY <1>1, <2>2 DEF IInv, RequestInv
  <2>4. RequestInv'
    BY <1>1, <1>3, <1>7, <2>1, <2>2, <2>3 DEF IInv, RequestInv, Answered
  <2>5. ModeInv'
    BY <1>1, <1>2, <1>7, <2>1 DEF IInv, ModeInv
  <2> QED
    BY <1>4, <2>4, <2>5 DEF IInv
<1> QED
  BY <1>5, <1>6, <1>7

\* The server sends, and reads nothing or the start it answers.
LEMMA ServerSaysKeeps ==
  ASSUME IInv, NEW packet \in Packets, NEW s \in Servers, ServerSends(packet, s),
         server.open, InMode(packet, s), s.cipher = server.cipher,
         conn' = conn, client' = client, service' = service, toServer' = toServer,
         packet # "Encryption Request", server.state # "hello", s.state # "refused",
         s.state = server.state \/ (server.state = "accept" /\ s.state = "play"),
         server.state = "key" => packet = "Disconnect"
  PROVE  IInv'
<1>1. /\ server' = s /\ toClient' \in Seq(Units)
      /\ Kinds(conn.got, toClient') \subseteq Kinds(conn.got, toClient) \union {packet}
      /\ Later(conn.got, toClient') \subseteq Later(conn.got, toClient) \union {packet}
      /\ StreamRight(toClient', conn)
      /\ Packed(conn, toClient', s)
  BY ServerSendsKeeps
<1>2. /\ "Encryption Request" \in Kinds(conn.got, toClient') => "Encryption Request" \in Kinds(conn.got, toClient)
      /\ "Encryption Request" \in Later(conn.got, toClient') => "Encryption Request" \in Later(conn.got, toClient)
  BY <1>1
<1>3. Typed'
  BY <1>1 DEF IInv, Typed
<1>4. RequestInv'
  BY <1>1, <1>2 DEF IInv, RequestInv, Answered
<1>5. ModeInv'
  <2>1. server'.state = "key" => Kinds(conn.got, toClient') \subseteq {"Encryption Request", "Disconnect"}
    <3>1. ASSUME s.state = "key" PROVE server.state = "key" /\ packet = "Disconnect"
      BY <3>1
    <3> QED
      BY <1>1, <3>1 DEF IInv, ModeInv
  <2> QED
    BY <1>1, <2>1 DEF IInv, ModeInv
<1> QED
  BY <1>3, <1>4, <1>5 DEF IInv

LEMMA ServerHelloKeeps == IInv /\ ServerHello => IInv'
<1> SUFFICES ASSUME IInv, ServerHello PROVE IInv'
  OBVIOUS
<1>1. ServerReads("Login Start") /\ server \in Servers
  BY DEF ServerHello, IInv, Typed
<1>2. CASE server' = [server EXCEPT !.state = "accept"] /\ UNCHANGED <<toClient, sent>>
  <2>1. /\ server' \in Servers /\ server'.open = server.open /\ server'.zip = server.zip
        /\ server'.state = "accept" /\ server'.cipher = server.cipher
    BY <1>1, <1>2 DEF Servers
  <2>2. toClient' = toClient
    BY <1>2
  <2> QED
    BY <1>1, <2>1, <2>2, ServerHearsKeeps
<1>3. CASE ServerSends("Encryption Request", [server EXCEPT !.state = "key"])
  <2> PICK s : s = [server EXCEPT !.state = "key"]
    OBVIOUS
  <2>1. s \in Servers /\ s.state = "key" /\ s.zip = server.zip /\ s.cipher = server.cipher
    BY <1>1 DEF Servers
  <2>2. /\ server.open /\ Has(toServer, "Login Start")
        /\ toServer' \in Seq(Frames) /\ Len(toServer') = Len(toServer) - 1
        /\ Len(toServer) <= 1 => toServer' = <<>>
        /\ service' = service /\ conn' = conn /\ client' = client
    BY <1>1, ServerReadsKeeps
  <2>3. server.state = "hello"
    BY <2>2 DEF IInv, RequestInv
  <2>4. /\ Len(toServer) <= 1 /\ service = "no join" /\ ~conn.cipher
        /\ client.state \in {"new", "login", "ended", "failed"}
        /\ Total(conn.got, toClient) = 0
    BY <2>3 DEF IInv, RequestInv
  <2>5. ~server.cipher
    BY <2>4 DEF IInv, ModeInv
  <2>6. InMode("Encryption Request", s)
    BY <1>1, <2>1, <2>4, <2>5 DEF InMode, IInv, Typed, Servers, Conns
  <2>7. ServerSends("Encryption Request", s) /\ "Encryption Request" \in Packets
    BY <1>3 DEF Packets
  <2>8. /\ server' = s /\ toClient' \in Seq(Units)
        /\ Kinds(conn.got, toClient') \subseteq Kinds(conn.got, toClient) \union {"Encryption Request"}
        /\ Total(conn.got, toClient) = 0 =>
             Kinds(conn.got, toClient) = {} /\ Later(conn.got, toClient') = {}
        /\ StreamRight(toClient', conn)
        /\ Packed(conn, toClient', s)
    BY <2>1, <2>2, <2>6, <2>7, ServerSendsKeeps
  <2>9. toServer' = <<>> /\ \A p : ~Has(toServer', p)
    BY <2>2, <2>4, NoneHas
  <2>10. client.state # "new"
    <3>1. ASSUME client.state = "new" PROVE FALSE
      <4>1. toServer = <<>>
        BY <3>1 DEF IInv, RequestInv
      <4> QED
        BY <2>2, <4>1, NoneHas
    <3> QED
      BY <3>1
  <2>11. Typed'
    BY <2>1, <2>2, <2>8 DEF IInv, Typed
  <2>12. RequestInv'
    BY <2>1, <2>2, <2>4, <2>8, <2>9, <2>10 DEF RequestInv, Answered
  <2>13. ModeInv'
    BY <2>1, <2>2, <2>4, <2>5, <2>8 DEF IInv, ModeInv
  <2> QED
    BY <2>11, <2>12, <2>13 DEF IInv
<1> QED
  BY <1>2, <1>3 DEF ServerHello

LEMMA ServerListensKeeps ==
  ASSUME IInv, ServerKey \/ ServerHears
  PROVE  IInv'
<1>1. server \in Servers
  BY DEF IInv, Typed
<1> PICK garbled : garbled = (server.garbled \/ HeadGarbled)
  OBVIOUS
<1>2. garbled \in BOOLEAN
  OBVIOUS
<1>3. CASE ServerKey
  <2>1. /\ ServerReads("Encryption Response") /\ toClient' = toClient
        /\ server' = [server EXCEPT !.state = "verify", !.garbled = garbled, !.cipher = TRUE]
    BY <1>3 DEF ServerKey
  <2>2. /\ server' \in Servers /\ server'.open = server.open /\ server'.zip = server.zip
        /\ server'.state = "verify" /\ server'.cipher
    BY <1>1, <1>2, <2>1 DEF Servers
  <2> QED
    BY <2>1, <2>2, ServerHearsKeeps
<1>4. CASE ServerHears
  <2>1. /\ ServerReads("Play") /\ toClient' = toClient
        /\ server' = [server EXCEPT !.garbled = garbled]
    BY <1>4 DEF ServerHears
  <2>2. /\ server' \in Servers /\ server'.open = server.open /\ server'.zip = server.zip
        /\ server'.state = server.state /\ server'.cipher = server.cipher
    BY <1>1, <1>2, <2>1 DEF Servers
  <2> QED
    BY <2>1, <2>2, ServerHearsKeeps
<1> QED
  BY <1>3, <1>4

LEMMA ServerSpeaksKeeps ==
  ASSUME IInv, ServerVerifies \/ ServerCompresses \/ ServerAccepts \/ ServerPlays \/ ServerKicks
  PROVE  IInv'
<1>1. /\ server \in Servers /\ conn \in Conns
      /\ server.cipher \in BOOLEAN /\ conn.cipher \in BOOLEAN
  BY DEF IInv, Typed, Servers, Conns
<1>2. /\ service' = service /\ toServer' = toServer /\ conn' = conn /\ client' = client
      /\ server.open
  BY DEF Unheard, ServerVerifies, ServerCompresses, ServerAccepts, ServerPlays, ServerKicks
<1>3. server.state \notin {"hello", "key"} => server.cipher = conn.cipher
  <2>1. /\ conn.cipher => server.state = "key" \/ server.cipher
        /\ server.cipher => conn.cipher
    BY DEF IInv, ModeInv
  <2> QED
    BY <1>1, <2>1
<1>4. server.cipher => server.cipher = conn.cipher
  BY <1>1 DEF IInv, ModeInv
<1>5. /\ "Disconnect" \in Packets /\ "Set Compression" \in Packets /\ "Login Success" \in Packets
      /\ "Play" \in Packets
  BY DEF Packets
<1>6. CASE ServerVerifies
  <2>1. server.state = "verify"
    BY <1>6 DEF ServerVerifies
  <2>2. service = "joined"
    BY <2>1 DEF IInv, RequestInv
  <2>3. server' = [server EXCEPT !.state = "accept"] /\ toClient' = toClient
    BY <1>6, <2>2 DEF ServerVerifies
  <2>4. /\ server' \in Servers /\ server'.open = server.open /\ server'.zip = server.zip
        /\ server'.state = "accept" /\ server'.cipher = server.cipher
    BY <1>1, <2>3 DEF Servers
  <2>5. Packed(conn, toClient, server')
    BY <2>4 DEF IInv, ModeInv, Packed
  <2>6. Typed'
    BY <1>2, <2>3, <2>4 DEF IInv, Typed
  <2>7. RequestInv'
    <3>1. client.state # "new" /\ client.state # "joining"
          /\ "Encryption Request" \notin Kinds(conn.got, toClient) /\ ~Has(toServer, "Login Start")
      BY <2>1 DEF IInv, RequestInv
    <3> QED
      BY <1>2, <2>2, <2>3, <2>4, <3>1 DEF IInv, RequestInv, Answered
  <2>8. ModeInv'
    BY <1>2, <2>1, <2>3, <2>4, <2>5 DEF IInv, ModeInv
  <2> QED
    BY <2>6, <2>7, <2>8 DEF IInv
<1>7. CASE ServerCompresses
  <2> PICK s : s = [server EXCEPT !.zip = TRUE]
    OBVIOUS
  <2>1. s \in Servers /\ s.zip /\ s.cipher = server.cipher /\ s.state = server.state
    BY <1>1 DEF Servers
  <2>2. server.state = "accept" /\ ServerSends("Set Compression", s)
    BY <1>7 DEF ServerCompresses
  <2>3. InMode("Set Compression", s)
    BY <1>3, <2>1, <2>2 DEF InMode
  <2> QED
    BY <1>2, <1>5, <2>1, <2>2, <2>3, ServerSaysKeeps
<1>8. CASE ServerAccepts
  <2> PICK s : s = [server EXCEPT !.state = "play"]
    OBVIOUS
  <2>1. s \in Servers /\ s.zip = server.zip /\ s.cipher = server.cipher /\ s.state = "play"
    BY <1>1 DEF Servers
  <2>2. server.state = "accept" /\ ServerSends("Login Success", s)
    BY <1>8 DEF ServerAccepts
  <2>3. InMode("Login Success", s)
    BY <1>3, <2>1, <2>2 DEF InMode
  <2> QED
    BY <1>2, <1>5, <2>1, <2>2, <2>3, ServerSaysKeeps
<1>9. CASE ServerPlays
  <2> PICK plays : plays = server.plays + 1
    OBVIOUS
  <2> PICK s : s = [server EXCEPT !.plays = plays]
    OBVIOUS
  <2>1. plays \in Nat
    BY <1>1 DEF Servers
  <2>2. s \in Servers /\ s.zip = server.zip /\ s.cipher = server.cipher /\ s.state = server.state
    BY <1>1, <2>1 DEF Servers
  <2>3. server.state = "play" /\ ServerSends("Play", s)
    BY <1>9 DEF ServerPlays
  <2>4. InMode("Play", s)
    BY <1>3, <2>2, <2>3 DEF InMode
  <2> QED
    BY <1>2, <1>5, <2>2, <2>3, <2>4, ServerSaysKeeps
<1>10. CASE ServerKicks
  <2> PICK s : s = [server EXCEPT !.open = FALSE]
    OBVIOUS
  <2>1. s \in Servers /\ s.zip = server.zip /\ s.cipher = server.cipher /\ s.state = server.state
    BY <1>1 DEF Servers
  <2>2. server.state # "hello" /\ ServerSends("Disconnect", s) /\ server.state # "refused"
    BY <1>10 DEF ServerKicks, IInv, RequestInv
  <2>3. InMode("Disconnect", s)
    BY <1>4, <2>1 DEF InMode
  <2> QED
    BY <1>2, <1>5, <2>1, <2>2, <2>3, ServerSaysKeeps
<1> QED
  BY <1>6, <1>7, <1>8, <1>9, <1>10

LEMMA ServerClosesKeeps == IInv /\ ServerCloses => IInv'
<1> SUFFICES ASSUME IInv, ServerCloses PROVE IInv'
  OBVIOUS
<1>1. /\ service' = service /\ toServer' = toServer /\ conn' = conn /\ client' = client
      /\ server' = [server EXCEPT !.open = FALSE]
      /\ toClient' = toClient \/ (toClient # <<>> /\ toClient' = Front(toClient))
  BY DEF ServerCloses, Unheard
<1>2. /\ server \in Servers /\ conn \in Conns /\ toClient \in Seq(Units)
      /\ Packed(conn, toClient, server) /\ StreamRight(toClient, conn)
  BY DEF IInv, Typed, ModeInv
<1>3. /\ server' \in Servers /\ ~server'.open /\ server'.zip = server.zip
      /\ server'.state = server.state /\ server'.cipher = server.cipher
  BY <1>1, <1>2 DEF Servers
<1> PICK s \in Servers : s = server'
  BY <1>3
<1> PICK rest : rest = toClient'
  OBVIOUS
<1>4. ~s.open /\ (rest = toClient \/ (toClient # <<>> /\ rest = Front(toClient)))
  BY <1>1, <1>3
<1>5. /\ rest \in Seq(Units)
      /\ Total(conn.got, toClient) = 0 => Total(conn.got, rest) = 0
      /\ Kinds(conn.got, rest) \subseteq Kinds(conn.got, toClient)
      /\ Later(conn.got, rest) \subseteq Later(conn.got, toClient)
      /\ StreamRight(rest, conn)
      /\ Packed(conn, rest, s)
  <2>1. IsCut(rest, toClient)
    BY <1>4 DEF IsCut
  <2>2. ~s.open
    BY <1>4
  <2>3. \A u \in Servers : ~u.open => 
      /\ rest \in Seq(Units)
      /\ Total(conn.got, toClient) = 0 => Total(conn.got, rest) = 0
      /\ Kinds(conn.got, rest) \subseteq Kinds(conn.got, toClient)
      /\ Later(conn.got, rest) \subseteq Later(conn.got, toClient)
      /\ StreamRight(rest, conn)
      /\ Packed(conn, rest, u)
    BY <1>2, <2>1, Cuttings
  <2> QED
    BY <2>2, <2>3
<1>6. Typed'
  BY <1>1, <1>3, <1>5 DEF IInv, Typed
<1>7. RequestInv'
  BY <1>1, <1>3, <1>5 DEF IInv, RequestInv, Answered
<1>8. ModeInv'
  BY <1>1, <1>3, <1>5 DEF IInv, ModeInv
<1> QED
  BY <1>6, <1>7, <1>8 DEF IInv

LEMMA Inductive == IInv /\ [Next]_vars => IInv'
<1> SUFFICES ASSUME IInv, [Next]_vars PROVE IInv'
  OBVIOUS
<1>1. CASE UNCHANGED vars
  <2>1. UNCHANGED <<server, service, toServer, toClient, conn, client>>
    BY <1>1 DEF vars
  <2> QED
    BY <2>1 DEF IInv, Typed, RequestInv, ModeInv, Answered
<1>2. CASE Client
  BY <1>2, StartKeeps, FillKeeps, Bystanders, TakingKeeps, JoinAnsweredKeeps, IdleKeeps DEF Client
<1>3. CASE Tick
  BY <1>3, TickKeeps
<1>4. CASE Server
  BY <1>4, ServerHelloKeeps, ServerListensKeeps, ServerSpeaksKeeps DEF Server
<1>5. CASE Serviced
  BY <1>5, ServicedKeeps
<1>6. CASE ServerKicks
  BY <1>6, ServerSpeaksKeeps
<1>7. CASE ServerCloses
  BY <1>7, ServerClosesKeeps
<1> QED
  BY <1>1, <1>2, <1>3, <1>4, <1>5, <1>6, <1>7 DEF Next

-----------------------------------------------------------------------------
(* The theorems.                                                           *)

\* The invariant of the login: the order of its exchange, and the modes of both
\* ends and of every frame between them.
THEOREM Invariance == Spec => []IInv
<1> QED
  BY Initially, Inductive, PTL DEF Spec

\* However the writes of the server, the reads of the connection and the answer
\* of the session service fall, a server that has read the encryption response
\* finds the player's join at the service: the login joins before it responds.
THEOREM JoinsComeFirst == Spec => []JoinedBeforeResponse
<1>1. IInv => JoinedBeforeResponse
  BY DEF IInv, RequestInv, JoinedBeforeResponse
<1> QED
  BY <1>1, Invariance, PTL

\* Every frame the client takes is deciphered and unpacked as it was ciphered and
\* packed, whatever was read ahead of a switch of the modes: only a reason given
\* in the clear, before the response was read, may meet a cipher that is on.
THEOREM FramesAreReadable == Spec => []FramesReadable
<1>1. ASSUME IInv, Reading, Whole
      PROVE  Readable \/ (NextFrame.packet = "Disconnect" /\ ~NextFrame.cipher)
  <2>1. /\ conn \in Conns /\ conn.got \in Seq(Held) /\ Len(conn.got) >= 2 /\ toClient \in Seq(Units)
        /\ HeldRight(conn.got) /\ Packed(conn, toClient, server)
    BY <1>1 DEF IInv, Typed, ModeInv, Conns, Whole
  <2> PICK got \in Seq(Held) : got = conn.got
    BY <2>1
  <2>2. Len(got) \in Nat /\ Len(toClient) \in Nat /\ Len(got) >= 2
    BY <2>1
  <2>3. /\ Total(got, toClient) >= 2 /\ Unit(got, toClient, 1) = got[1].unit
        /\ Unit(got, toClient, 2) = got[2].unit /\ 1 \in 1 .. Len(got) /\ 2 \in 1 .. Len(got)
        /\ Total(got, toClient) \in Nat
    BY <2>2 DEF Total, Unit
  <2>4. 1 \in Places /\ 2 * 1 = 2 /\ 2 * 1 - 1 = 1 /\ \A j \in Places : ~(j < 1)
    BY DEF Places
  <2>5. FrameAt(got, toClient, 1) = NextFrame
    BY <2>3, <2>4 DEF FrameAt, NextFrame
  <2>6. got[2].unit.frame = NextFrame
    <3>1. 2 * 1 <= Total(got, toClient)
      BY <2>3, <2>4
    <3>2. Unit(got, toClient, 2 * 1).frame = FrameAt(got, toClient, 1)
      BY <2>1, <2>4, <3>1 DEF Packed
    <3> QED
      BY <2>3, <2>4, <2>5, <3>2
  <2>7. NextFrame.zip = conn.zip
    <3>1. 2 * 1 - 1 <= Total(got, toClient)
      BY <2>3, <2>4
    <3>2. FrameAt(got, toClient, 1).zip <=>
            conn.zip \/ \E j \in Places : j < 1 /\ Switches(got, toClient, j)
      BY <2>1, <2>4, <3>1 DEF Packed
    <3>3. NextFrame.zip <=> conn.zip
      BY <2>4, <2>5, <3>2
    <3>4. conn.zip \in BOOLEAN /\ NextFrame.zip \in BOOLEAN
      <4>1. got[1] \in Held
        BY <2>3
      <4> QED
        BY <2>1, <4>1 DEF NextFrame, Held, Units, Frames, Conns
    <3> QED
      BY <3>3, <3>4
  <2>8. Fits(NextFrame, got[1]) /\ Fits(NextFrame, got[2])
    BY <2>1, <2>3, <2>6 DEF HeldRight, NextFrame
  <2> QED
    BY <2>7, <2>8 DEF Readable, Fits, Clear
<1>2. IInv => FramesReadable
  BY <1>1 DEF FramesReadable
<1> QED
  BY <1>2, Invariance, PTL
=============================================================================
