--------------------------- MODULE FramingProofs ---------------------------
(***************************************************************************)
(* What Framing.tla says of a control connection, for every set of         *)
(* messages and their sizes, every prefix, limit and capacity of the       *)
(* sockets: the reader finds the frames where the writer put them.  The    *)
(* invariant says where in the bytes of all frames the reader is.          *)
(***************************************************************************)
EXTENDS Framing, SequenceTheorems, TLAPS

FrameLen(m) == Prefix + Size[m]

\* The bytes of the frames begun that were not parsed or thrown away.
Pending == got \o wire \o writing

\* Where in the bytes of all frames those of each message begin, and where the
\* next frame will.
Offsets(s) ==
  /\ s \in [1 .. Len(sent) + 1 -> Nat]
  /\ \A j \in 1 .. Len(sent) : s[j + 1] = s[j] + FrameLen(sent[j])
  /\ \A j, k \in 1 .. Len(sent) + 1 : j < k => s[j] < s[k]

\* How many bytes have left Pending.
Gone(s) == s[Len(sent) + 1] - Len(Pending)

\* The byte at place p of the bytes of all frames, if q are their messages.
Belongs(b, p, q, s) ==
  \E k \in 1 .. Len(q) :
    s[k] < p /\ p <= s[k + 1] /\ b = [msg |-> q[k], at |-> p - s[k]]

\* The reader is at the beginning of the frame that is next, or, once a read was
\* dropped, somewhere behind it.
InFlight(s) ==
  /\ Gone(s) >= s[Len(delivered) + 1]
  /\ ~ torn => Gone(s) = s[Len(delivered) + 1]
  /\ \A i \in 1 .. Len(Pending) : Belongs(Pending[i], Gone(s) + i, sent, s)

Writing == writing # <<>> => sent # <<>> /\ Len(writing) <= FrameLen(sent[Len(sent)])

\* How far the reader is in a frame; its size is that of the next message.
Reading ==
  /\ phase = "length" => Len(got) < Prefix
  /\ phase = "body" => Prefix <= Len(got) /\ Len(got) <= Prefix + size
  /\ phase = "body" /\ ~ torn =>
       Len(delivered) < Len(sent) /\ size = Size[sent[Len(delivered) + 1]]

FramingInv ==
  /\ TypeOK
  /\ Len(delivered) <= Len(sent)
  /\ \E s : Offsets(s) /\ InFlight(s)
  /\ Writing /\ Reading
  /\ OnlyOversizeRefused

----------------------------------------------------------------------------
(* Frames and pieces of sequences.                                         *)

\* A frame is as long as its message says, and is never empty.
LEMMA FrameFacts ==
  ASSUME NEW m \in Messages
  PROVE  /\ FrameLen(m) \in Nat \ {0} /\ Prefix \in Nat \ {0} /\ Size[m] \in Nat \ {0}
         /\ FrameLen(m) > Prefix
         /\ Frame(m) \in Seq(Bytes) /\ Len(Frame(m)) = FrameLen(m)
         /\ \A i \in 1 .. FrameLen(m) : Frame(m)[i] = [msg |-> m, at |-> i]
<1>1. Prefix \in Nat \ {0} /\ Size[m] \in Nat \ {0}
  BY FramingAssumption DEF FramingAssumption
<1>2. FrameLen(m) \in Nat \ {0} /\ FrameLen(m) > Prefix
  BY <1>1 DEF FrameLen
<1>3. Frame(m) = [i \in 1 .. FrameLen(m) |-> [msg |-> m, at |-> i]]
  BY DEF Frame, FrameLen
<1>4. \A i \in 1 .. FrameLen(m) : [msg |-> m, at |-> i] \in Bytes
  BY <1>2 DEF Bytes
<1> QED
  BY <1>1, <1>2, <1>3, <1>4, IsASeq

LEMMA LeastFacts ==
  ASSUME NEW m \in Int, NEW n \in Int
  PROVE  \A i \in 1 .. Least(m, n) : i \in Nat \ {0} /\ i <= m /\ i <= n
BY DEF Least

LEMMA FrontFacts ==
  ASSUME NEW S, NEW q \in Seq(S), NEW n \in 0 .. Len(q)
  PROVE  /\ Front(q, n) \in Seq(S) /\ Len(Front(q, n)) = n
         /\ \A i \in 1 .. n : Front(q, n)[i] = q[i]
         /\ Rest(q, n) \in Seq(S) /\ Len(Rest(q, n)) = Len(q) - n
         /\ \A i \in 1 .. Len(q) - n : Rest(q, n)[i] = q[n + i]
BY SMT DEF Front, Rest

LEMMA Cut ==
  ASSUME NEW S, NEW q \in Seq(S), NEW n \in 0 .. Len(q)
  PROVE  Front(q, n) \o Rest(q, n) = q
<1> DEFINE f == Front(q, n)
           r == Rest(q, n)
<1>1. /\ f \in Seq(S) /\ Len(f) = n /\ \A i \in 1 .. n : f[i] = q[i]
      /\ r \in Seq(S) /\ Len(r) = Len(q) - n /\ \A i \in 1 .. Len(q) - n : r[i] = q[n + i]
  BY FrontFacts
<1> HIDE DEF f, r
<1>2. f \o r \in Seq(S) /\ Len(f \o r) = Len(q)
  BY <1>1, SMT
<1>3. \A i \in 1 .. Len(q) : (f \o r)[i] = q[i]
  BY <1>1, SMT
<1>4. f \o r = q
  BY <1>2, <1>3, SeqEqual
<1> QED
  BY <1>4 DEF f, r

\* Bytes that are read, or written, are in the same place of the whole as before.
LEMMA ReadInPlace ==
  \A a, b, c \in Seq(Bytes) : \A n \in 1 .. Len(b) :
    ((a \o Front(b, n)) \o Rest(b, n)) \o c = (a \o b) \o c
<1> SUFFICES ASSUME NEW a \in Seq(Bytes), NEW b \in Seq(Bytes), NEW c \in Seq(Bytes),
                    NEW n \in 1 .. Len(b)
             PROVE  ((a \o Front(b, n)) \o Rest(b, n)) \o c = (a \o b) \o c
  OBVIOUS
<1> DEFINE f == Front(b, n)
           r == Rest(b, n)
<1>1. f \in Seq(Bytes) /\ r \in Seq(Bytes)
  BY FrontFacts
<1>2. f \o r = b
  BY Cut
<1> HIDE DEF f, r
<1>3. (a \o f) \o r = a \o (f \o r)
  BY <1>1, SMT
<1> QED
  BY <1>2, <1>3 DEF f, r

LEMMA WriteInPlace ==
  \A a, b, c \in Seq(Bytes) : \A n \in 1 .. Len(c) :
    (a \o (b \o Front(c, n))) \o Rest(c, n) = (a \o b) \o c
<1> SUFFICES ASSUME NEW a \in Seq(Bytes), NEW b \in Seq(Bytes), NEW c \in Seq(Bytes),
                    NEW n \in 1 .. Len(c)
             PROVE  (a \o (b \o Front(c, n))) \o Rest(c, n) = (a \o b) \o c
  OBVIOUS
<1> DEFINE f == Front(c, n)
           r == Rest(c, n)
<1>1. f \in Seq(Bytes) /\ r \in Seq(Bytes)
  BY FrontFacts
<1>2. f \o r = c
  BY Cut
<1> HIDE DEF f, r
<1>3. (a \o (b \o f)) \o r = ((a \o b) \o f) \o r
  BY <1>1, SMT
<1>4. ((a \o b) \o f) \o r = (a \o b) \o (f \o r)
  <2>1. a \o b \in Seq(Bytes)
    OBVIOUS
  <2> QED
    BY <1>1, <2>1, SMT
<1> QED
  BY <1>2, <1>3, <1>4 DEF f, r

\* Three pieces, byte by byte.
LEMMA Pieces ==
  ASSUME NEW g \in Seq(Bytes), NEW w \in Seq(Bytes), NEW x \in Seq(Bytes)
  PROVE  /\ g \o w \o x \in Seq(Bytes)
         /\ Len(g \o w \o x) = Len(g) + Len(w) + Len(x)
         /\ \A i \in 1 .. Len(g) : (g \o w \o x)[i] = g[i]
         /\ \A i \in 1 .. Len(w) : (g \o w \o x)[Len(g) + i] = w[i]
         /\ \A i \in 1 .. Len(x) : (g \o w \o x)[Len(g) + Len(w) + i] = x[i]
BY SMT

LEMMA PendingFacts ==
  ASSUME TypeOK
  PROVE  /\ Pending \in Seq(Bytes)
         /\ got \in Seq(Bytes) /\ wire \in Seq(Bytes) /\ writing \in Seq(Bytes)
         /\ Len(got) \in Nat /\ Len(wire) \in Nat /\ Len(writing) \in Nat
         /\ Len(sent) \in Nat /\ Len(delivered) \in Nat
         /\ Len(Pending) = Len(got) + Len(wire) + Len(writing)
         /\ \A i \in 1 .. Len(got) : Pending[i] = got[i]
BY Pieces DEF TypeOK, Pending

\* What has been read is a piece of what was written, so one read moves bytes only.
LEMMA ReadMoves ==
  ASSUME TypeOK, NEW n \in 1 .. Len(wire),
         got' = got \o Front(wire, n), wire' = Rest(wire, n), writing' = writing
  PROVE  /\ Pending' = Pending
         /\ got' \in Seq(Bytes) /\ Len(got') = Len(got) + n
         /\ wire' \in Seq(Bytes) /\ Len(wire') = Len(wire) - n
         /\ \A i \in 1 .. Len(got') : got'[i] = Pending[i]
<1>1. got \in Seq(Bytes) /\ wire \in Seq(Bytes) /\ writing \in Seq(Bytes)
  BY DEF TypeOK
<1>2. /\ Front(wire, n) \in Seq(Bytes) /\ Len(Front(wire, n)) = n
      /\ Rest(wire, n) \in Seq(Bytes) /\ Len(Rest(wire, n)) = Len(wire) - n
  <2>1. n \in 0 .. Len(wire)
    BY <1>1
  <2> QED
    BY <1>1, <2>1, FrontFacts, Zenon
<1>3. Pending' = Pending
  <2>1. ((got \o Front(wire, n)) \o Rest(wire, n)) \o writing = (got \o wire) \o writing
    BY <1>1, ReadInPlace, Zenon
  <2> QED
    BY <2>1, Zenon DEF Pending
<1>4. got' \in Seq(Bytes) /\ Len(got') = Len(got) + n
  BY <1>1, <1>2, ConcatProperties
<1>5. \A i \in 1 .. Len(got') : (got' \o wire' \o writing')[i] = got'[i]
  BY <1>1, <1>2, <1>4, Pieces
<1> QED
  BY <1>2, <1>3, <1>4, <1>5 DEF Pending

LEMMA WriteMoves ==
  ASSUME TypeOK, NEW n \in 1 .. Len(writing),
         wire' = wire \o Front(writing, n), writing' = Rest(writing, n), got' = got
  PROVE  /\ Pending' = Pending
         /\ wire' \in Seq(Bytes) /\ Len(wire') = Len(wire) + n
         /\ writing' \in Seq(Bytes) /\ Len(writing') = Len(writing) - n
<1>1. got \in Seq(Bytes) /\ wire \in Seq(Bytes) /\ writing \in Seq(Bytes)
  BY DEF TypeOK
<1>2. /\ Front(writing, n) \in Seq(Bytes) /\ Len(Front(writing, n)) = n
      /\ Rest(writing, n) \in Seq(Bytes) /\ Len(Rest(writing, n)) = Len(writing) - n
  <2>1. n \in 0 .. Len(writing)
    BY <1>1
  <2> QED
    BY <1>1, <2>1, FrontFacts, Zenon
<1>3. Pending' = Pending
  <2>1. (got \o (wire \o Front(writing, n))) \o Rest(writing, n) = (got \o wire) \o writing
    BY <1>1, WriteInPlace, ZenonT(40)
  <2> QED
    BY <2>1, Zenon DEF Pending
<1> QED
  BY <1>1, <1>2, <1>3, ConcatProperties

----------------------------------------------------------------------------
(* Where the bytes are.                                                    *)

LEMMA OffsetFacts ==
  ASSUME TypeOK, NEW s, Offsets(s), NEW k \in 1 .. Len(sent)
  PROVE  /\ sent[k] \in Messages /\ FrameLen(sent[k]) \in Nat \ {0}
         /\ k \in 1 .. Len(sent) + 1 /\ k + 1 \in 1 .. Len(sent) + 1
         /\ s[k] \in Nat /\ s[k + 1] \in Nat /\ s[Len(sent) + 1] \in Nat
         /\ s[k + 1] = s[k] + FrameLen(sent[k])
         /\ s[k + 1] <= s[Len(sent) + 1]
<1>1. Len(sent) \in Nat /\ sent[k] \in Messages
  BY DEF TypeOK
<1>2. FrameLen(sent[k]) \in Nat \ {0}
  BY <1>1, FrameFacts
<1>3. k \in 1 .. Len(sent) + 1 /\ k + 1 \in 1 .. Len(sent) + 1 /\ Len(sent) + 1 \in 1 .. Len(sent) + 1
  BY <1>1
<1>4. s[k + 1] <= s[Len(sent) + 1]
  BY <1>1, <1>3 DEF Offsets
<1> QED
  BY <1>1, <1>2, <1>3, <1>4 DEF Offsets

\* The frames lie behind each other.
LEMMA OffsetsGrow ==
  ASSUME TypeOK, NEW s, Offsets(s),
         NEW j \in 1 .. Len(sent) + 1, NEW k \in 1 .. Len(sent) + 1
  PROVE  s[j] \in Nat /\ s[k] \in Nat /\ (j <= k <=> s[j] <= s[k])
<1>1. s[j] \in Nat /\ s[k] \in Nat
  BY DEF Offsets
<1>2. j \in Nat /\ k \in Nat
  BY PendingFacts
<1>3. (j < k => s[j] < s[k]) /\ (k < j => s[k] < s[j])
  BY DEF Offsets
<1> QED
  BY <1>1, <1>2, <1>3

LEMMA GoneIsNat ==
  ASSUME TypeOK, Len(delivered) <= Len(sent), NEW s, Offsets(s), InFlight(s)
  PROVE  /\ Len(delivered) + 1 \in 1 .. Len(sent) + 1
         /\ Gone(s) \in Nat /\ s[Len(delivered) + 1] \in Nat /\ s[Len(sent) + 1] \in Nat
         /\ Gone(s) = s[Len(sent) + 1] - Len(Pending)
<1>1. /\ Len(delivered) + 1 \in 1 .. Len(sent) + 1 /\ Len(sent) + 1 \in 1 .. Len(sent) + 1
      /\ Len(Pending) \in Nat
  BY PendingFacts
<1>2. s[Len(delivered) + 1] \in Nat /\ s[Len(sent) + 1] \in Nat
  BY <1>1 DEF Offsets
<1> QED
  BY <1>1, <1>2 DEF InFlight, Gone

\* What only moves stays in its place.
LEMMA KeepInFlight ==
  ASSUME NEW s, Offsets(s), InFlight(s), Pending' = Pending, UNCHANGED <<sent, delivered, torn>>
  PROVE  Offsets(s)' /\ InFlight(s)'
<1>1. Gone(s)' = Gone(s)
  BY DEF Gone
<1>2. Offsets(s)'
  BY DEF Offsets
<1> QED
  BY <1>1, <1>2 DEF InFlight

\* A reader that was never dropped has the bytes of the next message before it.
LEMMA NextFrame ==
  ASSUME TypeOK, Len(delivered) <= Len(sent), NEW s, Offsets(s), InFlight(s), ~ torn,
         Len(Pending) > 0
  PROVE  LET d == Len(delivered) + 1
         IN  /\ Len(delivered) < Len(sent) /\ sent[d] \in Messages
             /\ Len(Pending) >= FrameLen(sent[d])
             /\ \A i \in 1 .. FrameLen(sent[d]) : Pending[i] = [msg |-> sent[d], at |-> i]
<1> DEFINE d == Len(delivered) + 1
<1>1. /\ d \in 1 .. Len(sent) + 1 /\ Gone(s) \in Nat /\ s[d] \in Nat /\ s[Len(sent) + 1] \in Nat
      /\ Gone(s) = s[Len(sent) + 1] - Len(Pending) /\ Gone(s) = s[d]
      /\ Len(Pending) \in Nat /\ Len(sent) \in Nat /\ Len(delivered) \in Nat
  BY GoneIsNat, PendingFacts DEF InFlight
<1>2. d \in 1 .. Len(sent)
  <2>1. d # Len(sent) + 1
    BY <1>1
  <2> QED
    BY <1>1, <2>1
<1>3. /\ sent[d] \in Messages /\ FrameLen(sent[d]) \in Nat \ {0} /\ d + 1 \in 1 .. Len(sent) + 1
      /\ s[d + 1] = s[d] + FrameLen(sent[d]) /\ s[d + 1] <= s[Len(sent) + 1] /\ s[d + 1] \in Nat
  BY <1>2, OffsetFacts
<1> HIDE DEF d
<1>4. Len(Pending) >= FrameLen(sent[d])
  BY <1>1, <1>3
<1>5. ASSUME NEW i \in 1 .. FrameLen(sent[d])
      PROVE  Pending[i] = [msg |-> sent[d], at |-> i]
  <2>1. i \in 1 .. Len(Pending) /\ i \in Nat \ {0} /\ i <= FrameLen(sent[d])
    BY <1>1, <1>3, <1>4
  <2>2. PICK k \in 1 .. Len(sent) :
          /\ s[k] < Gone(s) + i /\ Gone(s) + i <= s[k + 1]
          /\ Pending[i] = [msg |-> sent[k], at |-> (Gone(s) + i) - s[k]]
    <3>1. Belongs(Pending[i], Gone(s) + i, sent, s)
      BY <2>1 DEF InFlight
    <3> QED
      BY <3>1 DEF Belongs
  <2>3. k \in 1 .. Len(sent) + 1 /\ k + 1 \in 1 .. Len(sent) + 1 /\ s[k] \in Nat /\ s[k + 1] \in Nat
    BY OffsetFacts
  <2>4. s[d] < s[k + 1]
    <3>1. Gone(s) + i <= s[k + 1]
      BY <2>2
    <3>2. Gone(s) = s[d] /\ s[d] \in Nat
      BY <1>1
    <3> QED
      BY <2>1, <2>3, <3>1, <3>2, SMT
  <2>5. s[k] < s[d + 1]
    <3>1. s[k] < Gone(s) + i
      BY <2>2
    <3>2. Gone(s) = s[d] /\ s[d] \in Nat
      BY <1>1
    <3> QED
      BY <1>3, <2>1, <2>3, <3>1, <3>2, SMT
  <2>6. ~ (k + 1 <= d)
    BY <1>1, <2>3, <2>4, OffsetsGrow, SMTT(30)
  <2>7. ~ (d + 1 <= k)
    <3>1. d + 1 <= k <=> s[d + 1] <= s[k]
      BY <1>3, <2>3, OffsetsGrow
    <3> QED
      BY <1>3, <2>3, <2>5, <3>1
  <2>8. k = d
    BY <1>1, <2>3, <2>6, <2>7
  <2>9. (Gone(s) + i) - s[k] = i
    BY <1>1, <2>1, <2>8
  <2> QED
    BY <2>2, <2>8, <2>9
<1> QED
  BY <1>1, <1>2, <1>3, <1>4, <1>5 DEF d

\* A frame that was read whole is that of a message behind those delivered, and
\* of the next one if no read was dropped.
LEMMA WholeFrame ==
  ASSUME TypeOK, Len(delivered) <= Len(sent), NEW s, Offsets(s), InFlight(s),
         NEW m \in Messages, got = Frame(m)
  PROVE  \E k \in Len(delivered) + 1 .. Len(sent) :
           /\ k = Len(delivered) + 1 \/ torn
           /\ sent[k] = m /\ Gone(s) = s[k]
<1> DEFINE d == Len(delivered) + 1
<1>1. /\ d \in 1 .. Len(sent) + 1 /\ Gone(s) \in Nat /\ s[d] \in Nat
      /\ Len(Pending) \in Nat /\ Len(sent) \in Nat /\ Len(delivered) \in Nat
      /\ Gone(s) >= s[d] /\ (~ torn => Gone(s) = s[d])
  BY GoneIsNat, PendingFacts DEF InFlight
<1>2. 1 \in 1 .. Len(got) /\ got[1] = [msg |-> m, at |-> 1]
  BY FrameFacts
<1>3. 1 \in 1 .. Len(Pending) /\ Pending[1] = [msg |-> m, at |-> 1]
  BY <1>2, PendingFacts
<1>4. PICK k \in 1 .. Len(sent) : Pending[1] = [msg |-> sent[k], at |-> (Gone(s) + 1) - s[k]]
  <2>1. Belongs(Pending[1], Gone(s) + 1, sent, s)
    BY <1>3 DEF InFlight
  <2> QED
    BY <2>1 DEF Belongs
<1>5. k \in 1 .. Len(sent) + 1 /\ s[k] \in Nat
  BY OffsetFacts
<1>6. sent[k] = m /\ (Gone(s) + 1) - s[k] = 1
  BY <1>3, <1>4
<1>7. Gone(s) = s[k]
  BY <1>1, <1>5, <1>6
<1>8. d <= k
  BY <1>1, <1>5, <1>7, OffsetsGrow
<1>9. ~ torn => k <= d
  BY <1>1, <1>5, <1>7, OffsetsGrow
<1>10. k \in d .. Len(sent) /\ (k = d \/ torn)
  BY <1>1, <1>5, <1>8, <1>9
<1> QED
  BY <1>6, <1>7, <1>10

\* What was parsed or thrown away leaves the rest in its place.
LEMMA Skipped ==
  ASSUME TypeOK, NEW s, s[Len(sent) + 1] \in Nat, got' = <<>>, UNCHANGED <<sent, wire, writing>>,
         InFlight(s)
  PROVE  /\ Gone(s)' = Gone(s) + Len(got)
         /\ \A i \in 1 .. Len(Pending') : Belongs(Pending'[i], Gone(s)' + i, sent, s)
<1>1. /\ got \in Seq(Bytes) /\ wire \in Seq(Bytes) /\ writing \in Seq(Bytes)
      /\ <<>> \in Seq(Bytes) /\ Len(<<>>) = 0
      /\ Len(got) \in Nat /\ Len(wire) \in Nat /\ Len(writing) \in Nat
  BY DEF TypeOK
<1>2. /\ Len(Pending) = Len(got) + Len(wire) + Len(writing)
      /\ \A i \in 1 .. Len(wire) : Pending[Len(got) + i] = wire[i]
      /\ \A i \in 1 .. Len(writing) : Pending[Len(got) + Len(wire) + i] = writing[i]
  <2> DEFINE p == got \o wire \o writing
  <2>1. /\ Len(p) = Len(got) + Len(wire) + Len(writing)
        /\ \A i \in 1 .. Len(wire) : p[Len(got) + i] = wire[i]
        /\ \A i \in 1 .. Len(writing) : p[Len(got) + Len(wire) + i] = writing[i]
    <3>1. got \in Seq(Bytes) /\ wire \in Seq(Bytes) /\ writing \in Seq(Bytes)
      BY <1>1
    <3> QED
      BY ONLY <3>1, Pieces, Zenon
  <2>2. Pending = p
    BY DEF Pending
  <2> QED
    BY ONLY <2>1, <2>2, Zenon
<1>3. Pending' = <<>> \o wire \o writing
  BY DEF Pending
<1>4. /\ Len(Pending') = Len(wire) + Len(writing)
      /\ \A i \in 1 .. Len(wire) : Pending'[i] = wire[i]
      /\ \A i \in 1 .. Len(writing) : Pending'[Len(wire) + i] = writing[i]
  BY <1>1, <1>3, SMT
<1>5. Gone(s)' = Gone(s) + Len(got) /\ Gone(s) \in Int
  BY <1>1, <1>2, <1>4 DEF Gone
<1>6. ASSUME NEW i \in 1 .. Len(Pending')
      PROVE  Belongs(Pending'[i], Gone(s)' + i, sent, s)
  <2>1. Len(got) + i \in 1 .. Len(Pending) /\ i \in Nat
    BY <1>1, <1>2, <1>4
  <2>2. Pending'[i] = Pending[Len(got) + i]
    <3>1. CASE i <= Len(wire)
      BY <1>1, <1>2, <1>4, <3>1
    <3>2. CASE i > Len(wire)
      <4>1. i - Len(wire) \in 1 .. Len(writing) /\ Len(wire) + (i - Len(wire)) = i
            /\ Len(got) + Len(wire) + (i - Len(wire)) = Len(got) + i
        BY <1>1, <1>4, <2>1, <3>2
      <4> QED
        BY <1>2, <1>4, <4>1
    <3> QED
      BY <1>1, <2>1, <3>1, <3>2
  <2>3. Gone(s)' + i = Gone(s) + (Len(got) + i)
    BY <1>1, <1>5, <2>1
  <2> QED
    BY <2>1, <2>2, <2>3 DEF InFlight
<1> QED
  BY <1>5, <1>6

----------------------------------------------------------------------------
(* The invariant, action by action.                                        *)

LEMMA InitInv == Init => FramingInv
<1> SUFFICES ASSUME Init
             PROVE  FramingInv
  OBVIOUS
<1>1. TypeOK
  <2>1. <<>> \in Seq(Messages) /\ <<>> \in Seq(Bytes) /\ Len(<<>>) = 0
    OBVIOUS
  <2>2. 0 <= Capacity /\ 0 \in 0 .. MaxMessage
    BY FramingAssumption DEF FramingAssumption
  <2> QED
    BY <2>1, <2>2 DEF Init, TypeOK
<1>2. Len(sent) = 0 /\ Len(delivered) = 0 /\ Len(got) = 0 /\ Len(Pending) = 0
  BY <1>1, PendingFacts DEF Init
<1> DEFINE z == [i \in 1 .. 1 |-> 0]
<1>3. Offsets(z)
  <2>1. z \in [1 .. Len(sent) + 1 -> Nat]
    BY <1>2
  <2> QED
    BY <1>2, <2>1 DEF Offsets
<1>4. Gone(z) = 0 /\ InFlight(z)
  BY <1>2 DEF Gone, InFlight
<1>5. Writing /\ Reading /\ OnlyOversizeRefused
  BY <1>2, FramingAssumption DEF Init, Writing, Reading, OnlyOversizeRefused, FramingAssumption
<1> QED
  BY <1>1, <1>2, <1>3, <1>4, <1>5 DEF FramingInv

LEMMA TypeStep ==
  ASSUME TypeOK, Reading, [Next]_vars
  PROVE  TypeOK'
<1>1. /\ got \in Seq(Bytes) /\ wire \in Seq(Bytes) /\ writing \in Seq(Bytes)
      /\ sent \in Seq(Messages) /\ delivered \in Seq(Messages)
      /\ Len(wire) \in Nat /\ Len(writing) \in Nat /\ Len(got) \in Nat
      /\ Len(wire) <= Capacity /\ size \in 0 .. MaxMessage
      /\ Capacity \in Nat /\ MaxMessage \in Nat /\ Prefix \in Nat \ {0}
  BY FramingAssumption DEF TypeOK, FramingAssumption
<1>2. ASSUME NEW m \in Messages, Send(m)
      PROVE  TypeOK'
  <2>1. writing' \in Seq(Bytes) /\ sent' \in Seq(Messages)
    BY <1>1, <1>2, FrameFacts DEF Send
  <2> QED
    BY <1>2, <2>1 DEF TypeOK, Send, reader
<1>3. CASE Write
  <2>1. PICK n \in 1 .. Least(Len(writing), Capacity - Len(wire)) :
          wire' = wire \o Front(writing, n) /\ writing' = Rest(writing, n)
    BY <1>3 DEF Write
  <2>2. n \in 1 .. Len(writing) /\ n <= Capacity - Len(wire)
    BY <1>1, LeastFacts
  <2>3. /\ wire' \in Seq(Bytes) /\ Len(wire') = Len(wire) + n
        /\ writing' \in Seq(Bytes)
    BY <1>3, <2>1, <2>2, WriteMoves DEF Write, reader
  <2>4. Len(wire') <= Capacity
    BY <1>1, <2>2, <2>3
  <2> QED
    BY <1>3, <2>3, <2>4 DEF TypeOK, Write, reader
<1>4. CASE Close
  BY <1>4 DEF TypeOK, Close, reader
<1>5. CASE ReadLength
  <2>1. PICK n \in 1 .. Least(Prefix - Len(got), Len(wire)) :
          /\ wire' = Rest(wire, n)
          /\ got' = got \o Front(wire, n)
          /\ IF Len(got) + n < Prefix
             THEN UNCHANGED <<phase, size>>
             ELSE \E len \in Lengths(got') :
                    IF Within(len)
                    THEN phase' = "body" /\ size' = len
                    ELSE phase' = "failed" /\ UNCHANGED size
    BY <1>5 DEF ReadLength
  <2>2. n \in 1 .. Len(wire) /\ n \in Nat \ {0}
    BY <1>1, LeastFacts
  <2>3. /\ got' \in Seq(Bytes) /\ Len(got') = Len(got) + n
        /\ wire' \in Seq(Bytes) /\ Len(wire') <= Capacity
    <3>1. writing' = writing
      BY <1>5 DEF ReadLength, writer
    <3>2. /\ got' \in Seq(Bytes) /\ Len(got') = Len(got) + n
          /\ wire' \in Seq(Bytes) /\ Len(wire') = Len(wire) - n
      BY <2>1, <2>2, <3>1, ReadMoves, Zenon
    <3> QED
      BY <1>1, <2>2, <3>2
  <2>4. got'[1].msg \in Messages
    <3>1. 1 \in 1 .. Len(got')
      BY <1>1, <2>2, <2>3
    <3>2. got'[1] \in Bytes
      BY <2>3, <3>1
    <3> QED
      BY <3>2 DEF Bytes
  <2>5. \A len \in Lengths(got') : len \in Nat
    BY <1>1, <2>4, FrameFacts DEF Lengths
  <2>6. phase' \in {"length", "body", "failed"} /\ size' \in 0 .. MaxMessage
    BY <1>1, <1>5, <2>1, <2>5 DEF Within, ReadLength
  <2> QED
    BY <1>5, <2>3, <2>6 DEF TypeOK, ReadLength, writer
<1>6. CASE ReadBody
  <2>1. PICK n \in 1 .. MayTake : wire' = Rest(wire, n) /\ got' = got \o Front(wire, n)
    BY <1>6 DEF ReadBody
  <2>2. n \in 1 .. Len(wire)
    BY <1>1, LeastFacts DEF MayTake, Remaining
  <2>3. got' \in Seq(Bytes) /\ wire' \in Seq(Bytes) /\ Len(wire') <= Capacity
    <3>1. writing' = writing
      BY <1>6 DEF ReadBody, writer
    <3>2. got' \in Seq(Bytes) /\ wire' \in Seq(Bytes) /\ Len(wire') = Len(wire) - n
      BY <2>1, <2>2, <3>1, ReadMoves, Zenon
    <3> QED
      BY <1>1, <2>2, <3>2
  <2> QED
    BY <1>6, <2>3 DEF TypeOK, ReadBody, writer
<1>7. CASE Parse
  <2>1. ASSUME NEW m \in Messages, delivered' = Append(delivered, m)
        PROVE  delivered' \in Seq(Messages)
    BY <1>1, <2>1
  <2>2. <<>> \in Seq(Bytes)
    OBVIOUS
  <2> QED
    BY <1>7, <2>1, <2>2 DEF TypeOK, Parse, Fails, writer
<1>8. CASE EndOfStream
  BY <1>8 DEF TypeOK, EndOfStream, Fails, writer
<1>9. CASE DropRead
  <2>1. <<>> \in Seq(Bytes)
    OBVIOUS
  <2> QED
    BY <1>9, <2>1 DEF TypeOK, DropRead, writer
<1>10. CASE Quiet \/ UNCHANGED vars
  BY <1>10 DEF TypeOK, Quiet, vars, writer, reader
<1> QED
  BY <1>2, <1>3, <1>4, <1>5, <1>6, <1>7, <1>8, <1>9, <1>10 DEF Next

\* What the actions take from the invariant.
LEMMA Facts ==
  ASSUME FramingInv
  PROVE  /\ TypeOK /\ Writing /\ Reading /\ OnlyOversizeRefused
         /\ Len(delivered) <= Len(sent)
         /\ Len(sent) \in Nat /\ Len(delivered) \in Nat /\ Len(got) \in Nat
         /\ Len(wire) \in Nat /\ Len(writing) \in Nat /\ size \in Nat /\ size <= MaxMessage
         /\ MaxMessage \in Nat /\ Prefix \in Nat \ {0}
BY PendingFacts, FramingAssumption DEF FramingInv, FramingAssumption, TypeOK

\* A new frame lies behind the others.
LEMMA SendInFlight ==
  ASSUME FramingInv, NEW m \in Messages, Send(m)
  PROVE  \E t : Offsets(t)' /\ InFlight(t)'
<1>1. PICK s : Offsets(s) /\ InFlight(s)
  BY DEF FramingInv
<1>2. /\ TypeOK /\ Len(delivered) <= Len(sent) /\ Len(sent) \in Nat /\ Len(delivered) \in Nat
      /\ sent \in Seq(Messages) /\ got \in Seq(Bytes) /\ wire \in Seq(Bytes)
  BY Facts DEF TypeOK
<1>3. /\ Gone(s) \in Nat /\ s[Len(delivered) + 1] \in Nat /\ s[Len(sent) + 1] \in Nat
      /\ Gone(s) = s[Len(sent) + 1] - Len(Pending)
  BY <1>1, <1>2, GoneIsNat
<1> DEFINE n == Len(sent)
           l == FrameLen(m)
<1>4. l \in Nat \ {0} /\ Frame(m) \in Seq(Bytes) /\ Len(Frame(m)) = l
      /\ \A i \in 1 .. l : Frame(m)[i] = [msg |-> m, at |-> i]
  BY FrameFacts
<1>5. /\ sent' = Append(sent, m) /\ writing' = Frame(m) /\ writing = <<>>
      /\ UNCHANGED <<wire, got, delivered, torn>>
  BY DEF Send, reader
<1>6. Len(sent') = n + 1 /\ sent'[n + 1] = m /\ \A j \in 1 .. n : sent'[j] = sent[j]
  BY <1>2, <1>5, AppendProperties
<1>7. \A j \in 1 .. n + 1 : s[j] \in Nat
  BY <1>1 DEF Offsets
<1> HIDE DEF n, l
<1>8. PICK t : /\ t \in [1 .. n + 2 -> Nat] /\ t[n + 2] = s[n + 1] + l
               /\ \A j \in 1 .. n + 1 : t[j] = s[j]
  <2> DEFINE u == [j \in 1 .. n + 2 |-> IF j <= n + 1 THEN s[j] ELSE s[n + 1] + l]
  <2>1. n \in Nat /\ s[n + 1] + l \in Nat /\ n + 2 \in 1 .. n + 2 /\ ~ (n + 2 <= n + 1)
    BY <1>2, <1>3, <1>4 DEF n
  <2>2. ASSUME NEW j \in 1 .. n + 2
        PROVE  u[j] = (IF j <= n + 1 THEN s[j] ELSE s[n + 1] + l) /\ (j <= n + 1 => j \in 1 .. n + 1)
    BY <2>1
  <2>3. u \in [1 .. n + 2 -> Nat]
    BY <1>7, <2>1, <2>2
  <2>4. u[n + 2] = s[n + 1] + l
    BY <2>1
  <2>5. \A j \in 1 .. n + 1 : u[j] = s[j]
    <3>1. \A j \in 1 .. n + 1 : j \in 1 .. n + 2 /\ j <= n + 1
      BY <2>1
    <3> QED
      BY <2>2, <3>1
  <2> QED
    BY <2>3, <2>4, <2>5
<1>9. Offsets(t)'
  <2>1. \A j \in 1 .. n : s[j + 1] = s[j] + FrameLen(sent[j])
    BY <1>1 DEF Offsets, n
  <2>2. ASSUME NEW j \in 1 .. n + 1
        PROVE  t[j + 1] = t[j] + FrameLen(sent'[j])
    <3>1. CASE j = n + 1
      BY <1>2, <1>6, <1>8, <3>1 DEF n, l
    <3>2. CASE j # n + 1
      <4>1. j \in 1 .. n /\ j + 1 \in 1 .. n + 1 /\ j \in 1 .. n + 1
        BY <1>2, <3>2 DEF n
      <4>2. sent'[j] = sent[j] /\ t[j] = s[j] /\ t[j + 1] = s[j + 1]
        BY <1>6, <1>8, <4>1
      <4> QED
        BY <2>1, <4>1, <4>2
    <3> QED
      BY <3>1, <3>2
  <2>3. ASSUME NEW j \in 1 .. n + 2, NEW k \in 1 .. n + 2, j < k
        PROVE  t[j] < t[k]
    <3>1. j \in 1 .. n + 1 /\ n + 1 \in 1 .. n + 1
      BY <1>2, <2>3 DEF n
    <3>2. \A a, b \in 1 .. n + 1 : a < b => s[a] < s[b]
      BY <1>1 DEF Offsets, n
    <3>3. s[j] <= s[n + 1]
      BY <1>7, <3>1, <3>2, <1>2 DEF n
    <3>4. CASE k = n + 2
      BY <1>4, <1>7, <1>8, <3>1, <3>3, <3>4
    <3>5. CASE k # n + 2
      <4>1. k \in 1 .. n + 1
        BY <1>2, <3>5 DEF n
      <4> QED
        BY <1>8, <2>3, <3>1, <3>2, <4>1
    <3> QED
      BY <3>4, <3>5
  <2>4. (n + 1) + 1 = n + 2
    BY <1>2 DEF n
  <2> QED
    BY <1>6, <1>8, <2>2, <2>3, <2>4 DEF Offsets
<1> DEFINE p == Len(got) + Len(wire)
<1>10. /\ Len(Pending) = p /\ Len(Pending') = p + l
       /\ \A i \in 1 .. p : Pending'[i] = Pending[i]
       /\ \A i \in 1 .. l : Pending'[p + i] = [msg |-> m, at |-> i]
  <2>1. Pending = got \o wire \o <<>> /\ Pending' = got \o wire \o Frame(m)
    BY <1>5 DEF Pending
  <2>2. /\ Len(Pending) = p /\ \A i \in 1 .. Len(got) : Pending[i] = got[i]
        /\ \A i \in 1 .. Len(wire) : Pending[Len(got) + i] = wire[i]
    BY <1>2, <2>1, SMT
  <2>3. /\ Len(Pending') = p + l /\ \A i \in 1 .. Len(got) : Pending'[i] = got[i]
        /\ \A i \in 1 .. Len(wire) : Pending'[Len(got) + i] = wire[i]
        /\ \A i \in 1 .. l : Pending'[p + i] = Frame(m)[i]
    <3> DEFINE f == Frame(m)
    <3>1. f \in Seq(Bytes) /\ Len(f) = l
      BY <1>4
    <3> HIDE DEF f
    <3>2. /\ Len(got \o wire \o f) = p + Len(f)
          /\ \A i \in 1 .. Len(got) : (got \o wire \o f)[i] = got[i]
          /\ \A i \in 1 .. Len(wire) : (got \o wire \o f)[Len(got) + i] = wire[i]
          /\ \A i \in 1 .. Len(f) : (got \o wire \o f)[p + i] = f[i]
      BY <1>2, <3>1, Pieces, Zenon
    <3> QED
      BY <2>1, <3>1, <3>2 DEF f
  <2>4. ASSUME NEW i \in 1 .. p
        PROVE  Pending'[i] = Pending[i]
    <3>1. CASE i <= Len(got)
      BY <1>2, <2>2, <2>3, <3>1
    <3>2. CASE i > Len(got)
      <4>1. i - Len(got) \in 1 .. Len(wire) /\ Len(got) + (i - Len(got)) = i
        BY <1>2, <3>2
      <4> QED
        BY <2>2, <2>3, <4>1
    <3> QED
      BY <1>2, <3>1, <3>2
  <2> QED
    BY <1>4, <2>2, <2>3, <2>4
<1>11. p \in Nat
  BY <1>2
<1> HIDE DEF p
<1>12. Gone(t)' = Gone(s)
  <2>1. Gone(t)' = t[n + 2] - Len(Pending')
    <3>1. Len(sent') + 1 = n + 2
      BY <1>2, <1>6 DEF n
    <3> QED
      BY <3>1 DEF Gone
  <2> QED
    BY <1>3, <1>4, <1>8, <1>10, <1>11, <2>1 DEF n
<1>13. ASSUME NEW i \in 1 .. Len(Pending')
       PROVE  Belongs(Pending'[i], Gone(t)' + i, sent', t)
  <2>1. CASE i <= p
    <3>1. i \in 1 .. Len(Pending) /\ Pending'[i] = Pending[i]
      BY <1>10, <1>11, <1>4, <2>1
    <3>2. PICK k \in 1 .. n :
            /\ s[k] < Gone(s) + i /\ Gone(s) + i <= s[k + 1]
            /\ Pending[i] = [msg |-> sent[k], at |-> (Gone(s) + i) - s[k]]
      BY <1>1, <3>1 DEF InFlight, Belongs, n
    <3>3. k \in 1 .. n + 1 /\ k + 1 \in 1 .. n + 1 /\ k \in 1 .. Len(sent')
      BY <1>2, <1>6 DEF n
    <3>4. sent'[k] = sent[k] /\ t[k] = s[k] /\ t[k + 1] = s[k + 1]
      BY <1>6, <1>8, <3>3
    <3> QED
      BY <1>12, <3>1, <3>2, <3>3, <3>4 DEF Belongs
  <2>2. CASE i > p
    <3>1. i - p \in 1 .. l /\ p + (i - p) = i /\ i \in Nat
      BY <1>10, <1>11, <1>4, <2>2
    <3>2. Pending'[i] = [msg |-> m, at |-> i - p]
      BY <1>10, <3>1
    <3>3. n + 1 \in 1 .. n + 1 /\ (n + 1) + 1 = n + 2 /\ n + 1 \in 1 .. Len(sent')
      BY <1>2, <1>6 DEF n
    <3>4. t[n + 1] = s[n + 1] /\ t[(n + 1) + 1] = s[n + 1] + l
      BY <1>8, <3>3
    <3>5. s[n + 1] = Gone(s) + p /\ s[n + 1] \in Nat
      BY <1>3, <1>10, <1>11 DEF n
    <3>6. /\ t[n + 1] < Gone(s) + i /\ Gone(s) + i <= t[(n + 1) + 1]
          /\ (Gone(s) + i) - t[n + 1] = i - p
      <4> HIDE DEF Gone
      <4>1. Gone(s) \in Nat /\ l \in Nat \ {0} /\ p \in Nat /\ i - p >= 1 /\ i - p <= l
        BY <1>3, <1>4, <1>11, <3>1
      <4> QED
        BY ONLY <4>1, <3>1, <3>4, <3>5, SMT
    <3> QED
      BY <1>6, <1>12, <3>2, <3>3, <3>6 DEF Belongs
  <2> QED
    BY <1>10, <1>11, <1>4, <2>1, <2>2
<1>14. InFlight(t)'
  <2>1. Len(delivered) + 1 \in 1 .. n + 1
    BY <1>2 DEF n
  <2>2. t[Len(delivered) + 1] = s[Len(delivered) + 1]
    BY <1>8, <2>1
  <2> QED
    BY <1>1, <1>5, <1>12, <1>13, <2>2 DEF InFlight
<1> QED
  BY <1>9, <1>14

LEMMA SendInv ==
  ASSUME FramingInv, TypeOK', NEW m \in Messages, Send(m)
  PROVE  FramingInv'
<1>1. /\ TypeOK /\ Writing /\ Reading /\ OnlyOversizeRefused
      /\ Len(delivered) <= Len(sent) /\ Len(sent) \in Nat /\ Len(delivered) \in Nat
      /\ sent \in Seq(Messages)
  BY Facts DEF TypeOK
<1>2. /\ sent' = Append(sent, m) /\ writing' = Frame(m) /\ ~ closed /\ ~ closed'
      /\ UNCHANGED <<got, delivered, torn, phase, size>>
  BY DEF Send, reader
<1>3. Len(sent') = Len(sent) + 1 /\ sent'[Len(sent) + 1] = m /\ \A j \in 1 .. Len(sent) : sent'[j] = sent[j]
  BY <1>1, <1>2, AppendProperties
<1>4. Len(delivered') <= Len(sent') /\ (Len(delivered) < Len(sent) => Len(delivered') < Len(sent'))
  BY <1>1, <1>2, <1>3
<1>5. Len(delivered) < Len(sent) => sent'[Len(delivered) + 1] = sent[Len(delivered) + 1]
  BY <1>1, <1>3
<1>6. Writing'
  <2>1. sent' # <<>>
    BY <1>1, <1>3
  <2>2. Len(writing') <= FrameLen(sent'[Len(sent')])
    BY <1>2, <1>3, FrameFacts
  <2> QED
    BY <2>1, <2>2 DEF Writing
<1>7. Reading'
  BY <1>1, <1>2, <1>4, <1>5 DEF Reading
<1>8. OnlyOversizeRefused'
  BY <1>1, <1>2, <1>4, <1>5 DEF OnlyOversizeRefused
<1> QED
  BY <1>4, <1>6, <1>7, <1>8, SendInFlight DEF FramingInv

LEMMA WriteInv ==
  ASSUME FramingInv, TypeOK', Write
  PROVE  FramingInv'
<1>1. /\ TypeOK /\ Writing /\ Reading /\ OnlyOversizeRefused
      /\ Len(delivered) <= Len(sent) /\ Len(wire) \in Nat /\ Len(writing) \in Nat
      /\ writing \in Seq(Bytes) /\ Capacity \in Nat
  BY Facts, FramingAssumption DEF TypeOK, FramingAssumption
<1>2. ~ closed /\ ~ closed' /\ UNCHANGED <<sent, got, delivered, torn, phase, size>>
  BY DEF Write, reader
<1>3. PICK n \in 1 .. Least(Len(writing), Capacity - Len(wire)) :
        wire' = wire \o Front(writing, n) /\ writing' = Rest(writing, n)
  BY DEF Write
<1>4. n \in 1 .. Len(writing)
  BY <1>1, LeastFacts
<1>5. Pending' = Pending /\ Len(writing') = Len(writing) - n
  BY <1>1, <1>2, <1>3, <1>4, WriteMoves, Zenon
<1>6. Writing'
  <2>1. writing # <<>> /\ Len(writing') <= Len(writing)
    BY <1>1, <1>4, <1>5
  <2>2. sent # <<>> /\ Len(writing) <= FrameLen(sent[Len(sent)])
    BY <1>1, <2>1 DEF Writing
  <2>3. FrameLen(sent[Len(sent)]) \in Nat
    <3>1. sent[Len(sent)] \in Messages
      BY <1>1, <2>2 DEF TypeOK
    <3> QED
      BY <3>1, FrameFacts
  <2>4. Len(writing') <= FrameLen(sent[Len(sent)])
    BY <1>1, <1>4, <1>5, <2>1, <2>2, <2>3
  <2> QED
    BY <1>2, <2>2, <2>4 DEF Writing
<1>7. Reading' /\ OnlyOversizeRefused'
  BY <1>1, <1>2 DEF Reading, OnlyOversizeRefused
<1>8. \E s : Offsets(s)' /\ InFlight(s)'
  BY <1>2, <1>5, KeepInFlight DEF FramingInv
<1> QED
  BY <1>1, <1>2, <1>6, <1>7, <1>8 DEF FramingInv

\* The writer's end closing does not touch the reader.
LEMMA CloseInv ==
  ASSUME FramingInv, TypeOK', Close
  PROVE  FramingInv'
<1>1. /\ ~ closed /\ Pending' = Pending
      /\ UNCHANGED <<sent, writing, wire, got, delivered, torn, phase, size>>
  BY DEF Close, reader, Pending
<1>2. \E s : Offsets(s)' /\ InFlight(s)'
  BY <1>1, KeepInFlight DEF FramingInv
<1>3. Writing' /\ Reading' /\ OnlyOversizeRefused' /\ Len(delivered') <= Len(sent')
  BY <1>1, Facts DEF Writing, Reading, OnlyOversizeRefused
<1> QED
  BY <1>2, <1>3 DEF FramingInv

\* The reader finds the length of the next message, or, if a read was dropped,
\* whatever stands there.
LEMMA ReadLengthInv ==
  ASSUME FramingInv, TypeOK', ReadLength
  PROVE  FramingInv'
<1>1. /\ TypeOK /\ Writing /\ Reading /\ OnlyOversizeRefused
      /\ Len(delivered) <= Len(sent) /\ Len(wire) \in Nat /\ Len(got) \in Nat
      /\ Len(writing) \in Nat /\ wire \in Seq(Bytes) /\ Prefix \in Nat \ {0} /\ MaxMessage \in Nat
  BY Facts DEF TypeOK
<1>2. phase = "length" /\ UNCHANGED <<sent, writing, closed, delivered, torn>>
  BY DEF ReadLength, writer
<1>3. PICK n \in 1 .. Least(Prefix - Len(got), Len(wire)) :
        /\ wire' = Rest(wire, n)
        /\ got' = got \o Front(wire, n)
        /\ IF Len(got) + n < Prefix
           THEN UNCHANGED <<phase, size>>
           ELSE \E len \in Lengths(got') :
                  IF Within(len)
                  THEN phase' = "body" /\ size' = len
                  ELSE phase' = "failed" /\ UNCHANGED size
  BY DEF ReadLength
<1>4. n \in 1 .. Len(wire) /\ n \in Nat \ {0} /\ n <= Prefix - Len(got)
  BY <1>1, LeastFacts
<1>5. /\ Pending' = Pending /\ got' \in Seq(Bytes) /\ Len(got') = Len(got) + n
      /\ \A i \in 1 .. Len(got') : got'[i] = Pending[i]
  BY <1>1, <1>2, <1>3, <1>4, ReadMoves, Zenon
<1>6. \E s : Offsets(s)' /\ InFlight(s)'
  BY <1>2, <1>5, KeepInFlight DEF FramingInv
<1>7. Writing'
  BY <1>1, <1>2 DEF Writing
<1>8. CASE Len(got) + n < Prefix
  <2>1. UNCHANGED <<phase, size>> /\ Len(got') < Prefix
    BY <1>3, <1>5, <1>8
  <2>2. Reading' /\ OnlyOversizeRefused'
    BY <1>1, <1>2, <2>1 DEF Reading, OnlyOversizeRefused, Whole
  <2> QED
    BY <1>1, <1>2, <1>6, <1>7, <2>2 DEF FramingInv
<1>9. CASE ~ (Len(got) + n < Prefix)
  <2>1. Len(got') = Prefix
    BY <1>1, <1>4, <1>5, <1>9
  <2>2. PICK len \in Lengths(got') :
          IF Within(len) THEN phase' = "body" /\ size' = len
                         ELSE phase' = "failed" /\ UNCHANGED size
    BY <1>3, <1>9
  <2> DEFINE d == Len(delivered) + 1
  <2>3. ~ torn => /\ Len(delivered) < Len(sent) /\ sent[d] \in Messages
                  /\ len = Size[sent[d]]
    <3>1. HAVE ~ torn
    <3>2. Len(Pending) > 0
      BY <1>1, <1>4, PendingFacts
    <3>3. PICK s : Offsets(s) /\ InFlight(s)
      BY DEF FramingInv
    <3>4. /\ Len(delivered) < Len(sent) /\ sent[d] \in Messages
          /\ \A i \in 1 .. FrameLen(sent[d]) : Pending[i] = [msg |-> sent[d], at |-> i]
      BY <1>1, <3>1, <3>2, <3>3, NextFrame
    <3> DEFINE m == sent[d]
    <3> HIDE DEF d
    <3>5. /\ FrameLen(m) \in Nat /\ FrameLen(m) > Prefix
          /\ Frame(m) \in Seq(Bytes) /\ Len(Frame(m)) = FrameLen(m)
          /\ \A i \in 1 .. FrameLen(m) : Frame(m)[i] = [msg |-> m, at |-> i]
      BY <3>4, FrameFacts
    <3> HIDE DEF m
    <3>6. Prefix \in 0 .. Len(Frame(m))
      BY <1>1, <3>5
    <3>7. /\ Front(Frame(m), Prefix) \in Seq(Bytes) /\ Len(Front(Frame(m), Prefix)) = Prefix
          /\ \A i \in 1 .. Prefix : Front(Frame(m), Prefix)[i] = Frame(m)[i]
      BY <3>5, <3>6, FrontFacts, Zenon
    <3>8. \A i \in 1 .. Prefix : i \in 1 .. FrameLen(m)
      BY <1>1, <3>5
    <3>9. \A i \in 1 .. Prefix : got'[i] = Front(Frame(m), Prefix)[i]
      BY <1>5, <2>1, <3>4, <3>5, <3>7, <3>8 DEF m
    <3>10. got' = Front(Frame(m), Prefix)
      BY <1>5, <2>1, <3>7, <3>9, SeqEqual
    <3>11. got'[1].msg = m
      <4>1. 1 \in 1 .. Prefix
        BY <1>1
      <4> QED
        BY <3>5, <3>7, <3>8, <3>10, <4>1
    <3>12. Lengths(got') = {Size[m]}
      BY <3>10, <3>11 DEF Lengths
    <3> QED
      BY <2>2, <3>4, <3>12 DEF m
  <2>4. len \in Nat
    <3>1. CASE got' = Front(Frame(got'[1].msg), Prefix)
      <4>1. 1 \in 1 .. Len(got')
        BY <1>1, <2>1
      <4>2. got'[1].msg \in Messages
        <5>1. got'[1] \in Bytes
          BY <1>5, <4>1
        <5> QED
          BY <5>1 DEF Bytes
      <4>3. Size[got'[1].msg] \in Nat
        BY <4>2, FrameFacts
      <4> QED
        BY <2>2, <3>1, <4>3 DEF Lengths
    <3>2. CASE got' # Front(Frame(got'[1].msg), Prefix)
      BY <1>1, <2>2, <3>2 DEF Lengths
    <3> QED
      BY <3>1, <3>2
  <2>5. Reading'
    BY <1>1, <1>2, <2>1, <2>2, <2>3, <2>4 DEF Reading
  <2>6. OnlyOversizeRefused'
    <3>1. phase' = "failed" /\ ~ torn => Size[sent[d]] > MaxMessage
      BY <1>1, <2>2, <2>3, <2>4 DEF Within
    <3> QED
      BY <1>1, <1>2, <2>3, <3>1 DEF OnlyOversizeRefused
  <2> QED
    BY <1>1, <1>2, <1>6, <1>7, <2>5, <2>6 DEF FramingInv
<1> QED
  BY <1>8, <1>9

\* Never more than this frame is taken.
LEMMA ReadBodyInv ==
  ASSUME FramingInv, TypeOK', ReadBody
  PROVE  FramingInv'
<1>1. /\ TypeOK /\ Writing /\ Reading /\ OnlyOversizeRefused
      /\ Len(delivered) <= Len(sent) /\ Len(wire) \in Nat /\ Len(got) \in Nat
      /\ wire \in Seq(Bytes) /\ Prefix \in Nat \ {0} /\ size \in Nat
  BY Facts DEF TypeOK
<1>2. phase = "body" /\ UNCHANGED <<sent, writing, closed, phase, size, delivered, torn>>
  BY DEF ReadBody, writer
<1>3. PICK n \in 1 .. MayTake : wire' = Rest(wire, n) /\ got' = got \o Front(wire, n)
  BY DEF ReadBody
<1>4. n \in 1 .. Len(wire) /\ n \in Nat \ {0} /\ n <= (Prefix + size) - Len(got)
  BY <1>1, LeastFacts DEF MayTake, Remaining
<1>5. Pending' = Pending /\ Len(got') = Len(got) + n
  BY <1>1, <1>2, <1>3, <1>4, ReadMoves, Zenon
<1>6. \E s : Offsets(s)' /\ InFlight(s)'
  BY <1>2, <1>5, KeepInFlight DEF FramingInv
<1>7. Writing' /\ OnlyOversizeRefused'
  BY <1>1, <1>2 DEF Writing, OnlyOversizeRefused
<1>8. Prefix <= Len(got') /\ Len(got') <= Prefix + size
  BY <1>1, <1>2, <1>4, <1>5 DEF Reading
<1>9. Reading'
  BY <1>1, <1>2, <1>8 DEF Reading
<1> QED
  BY <1>1, <1>2, <1>6, <1>7, <1>9 DEF FramingInv

\* The bytes of a message are that message, and the next, if no read was dropped.
LEMMA ParseInv ==
  ASSUME FramingInv, TypeOK', Parse
  PROVE  FramingInv'
<1>1. /\ TypeOK /\ Writing /\ Reading /\ OnlyOversizeRefused
      /\ Len(delivered) <= Len(sent) /\ Len(got) \in Nat /\ Len(sent) \in Nat
      /\ Len(delivered) \in Nat /\ delivered \in Seq(Messages) /\ got \in Seq(Bytes)
      /\ Prefix \in Nat \ {0} /\ size \in Nat /\ size <= MaxMessage /\ MaxMessage \in Nat
  BY Facts DEF TypeOK
<1>2. phase = "body" /\ UNCHANGED <<sent, writing, closed, wire, size, torn>>
  BY DEF Parse, Fails, writer
<1>3. Len(got) = Prefix + size
  BY <1>1, <1>2 DEF Parse, Complete, Remaining, Reading
<1>4. PICK s : Offsets(s) /\ InFlight(s)
  BY DEF FramingInv
<1>5. Writing'
  BY <1>1, <1>2 DEF Writing
<1> DEFINE d == Len(delivered) + 1
<1>6. CASE \E m \in Messages :
             got = Frame(m) /\ delivered' = Append(delivered, m) /\ phase' = "length" /\ got' = <<>>
  <2>1. PICK m \in Messages :
          got = Frame(m) /\ delivered' = Append(delivered, m) /\ phase' = "length" /\ got' = <<>>
    BY <1>6
  <2>2. PICK k \in d .. Len(sent) : (k = d \/ torn) /\ sent[k] = m /\ Gone(s) = s[k]
    BY <1>1, <1>4, <2>1, WholeFrame
  <2>3. k \in 1 .. Len(sent) /\ d < Len(sent) + 1 /\ d + 1 \in 1 .. Len(sent) + 1 /\ d + 1 <= k + 1
    BY <1>1
  <2>4. /\ s[k] \in Nat /\ s[k + 1] \in Nat /\ s[k + 1] = s[k] + FrameLen(m)
        /\ k + 1 \in 1 .. Len(sent) + 1 /\ s[Len(sent) + 1] \in Nat
    BY <1>1, <1>4, <2>2, <2>3, OffsetFacts
  <2>5. FrameLen(m) = Prefix + size /\ Len(got) = FrameLen(m) /\ Size[m] = size
    <3>1. Len(got) = FrameLen(m) /\ FrameLen(m) = Prefix + Size[m] /\ Size[m] \in Nat
      BY <2>1, FrameFacts DEF FrameLen
    <3> QED
      BY <1>1, <1>3, <3>1
  <2>6. /\ Gone(s)' = Gone(s) + Len(got)
        /\ \A i \in 1 .. Len(Pending') : Belongs(Pending'[i], Gone(s)' + i, sent, s)
    <3>1. got' = <<>> /\ UNCHANGED <<sent, wire, writing>>
      BY <1>2, <2>1
    <3> QED
      BY <1>1, <1>4, <2>4, <3>1, Skipped
  <2>7. Gone(s)' = s[k + 1]
    BY <2>2, <2>4, <2>5, <2>6
  <2>8. s[d + 1] <= s[k + 1]
    BY <1>1, <1>4, <2>3, <2>4, OffsetsGrow
  <2>9. /\ Len(delivered') = d /\ delivered'[d] = m
        /\ \A j \in 1 .. Len(delivered) : delivered'[j] = delivered[j]
    BY <1>1, <2>1, AppendProperties
  <2>10. InFlight(s)'
    <3>1. Gone(s)' >= s[d + 1] /\ (~ torn => Gone(s)' = s[d + 1])
      <4>1. s[d + 1] \in Nat
        BY <1>4, <2>3 DEF Offsets
      <4> QED
        BY <2>2, <2>4, <2>7, <2>8, <4>1
    <3> QED
      BY <1>2, <2>6, <2>9, <3>1 DEF InFlight
  <2>11. Offsets(s)'
    BY <1>2, <1>4 DEF Offsets
  <2>12. Reading'
    <3>1. Len(got') = 0
      BY <2>1
    <3> QED
      BY <1>1, <2>1, <3>1 DEF Reading
  <2>13. OnlyOversizeRefused'
    <3>1. ASSUME NEW j \in 1 .. d
          PROVE  Size[delivered'[j]] <= MaxMessage
      <4>1. CASE j = d
        BY <1>1, <2>5, <2>9, <4>1
      <4>2. CASE j # d
        <5>1. j \in 1 .. Len(delivered)
          BY <1>1, <4>2
        <5> QED
          BY <1>1, <2>9, <5>1 DEF OnlyOversizeRefused
      <4> QED
        BY <4>1, <4>2
    <3> QED
      BY <2>1, <2>9, <3>1 DEF OnlyOversizeRefused
  <2>14. Len(delivered') <= Len(sent')
    BY <1>1, <1>2, <2>3, <2>9
  <2> QED
    BY <1>5, <2>10, <2>11, <2>12, <2>13, <2>14 DEF FramingInv
<1>7. CASE (\A m \in Messages : got # Frame(m)) /\ Fails
  <2>1. Pending' = Pending /\ phase' = "failed" /\ UNCHANGED <<delivered, got>>
    BY <1>2, <1>7 DEF Fails, Pending
  <2>2. torn
    <3> SUFFICES ASSUME ~ torn
                 PROVE  FALSE
      OBVIOUS
    <3>1. Len(Pending) > 0 /\ Len(Pending) >= Len(got)
      BY <1>1, <1>3, PendingFacts
    <3>2. /\ sent[d] \in Messages
          /\ \A i \in 1 .. FrameLen(sent[d]) : Pending[i] = [msg |-> sent[d], at |-> i]
      BY <1>1, <1>4, <3>1, NextFrame
    <3>3. Len(got) = FrameLen(sent[d])
      BY <1>1, <1>2, <1>3 DEF Reading, FrameLen
    <3>4. \A i \in 1 .. Len(got) : got[i] = [msg |-> sent[d], at |-> i]
      BY <1>1, <3>2, <3>3, PendingFacts
    <3>5. got = Frame(sent[d])
      <4> DEFINE f == Frame(sent[d])
      <4>1. /\ f \in Seq(Bytes) /\ Len(f) = Len(got)
            /\ \A i \in 1 .. Len(got) : f[i] = [msg |-> sent[d], at |-> i]
        BY <3>2, <3>3, FrameFacts
      <4> HIDE DEF f
      <4>2. \A i \in 1 .. Len(got) : f[i] = got[i]
        BY <3>4, <4>1
      <4>3. got = f
        BY <1>1, <4>1, <4>2, SeqEqual
      <4> QED
        BY <4>3 DEF f
    <3> QED
      BY <1>7, <3>2, <3>5
  <2>3. Offsets(s)' /\ InFlight(s)'
    BY <1>2, <1>4, <2>1, KeepInFlight
  <2>4. Reading' /\ OnlyOversizeRefused'
    BY <1>1, <1>2, <2>1, <2>2 DEF Reading, OnlyOversizeRefused
  <2> QED
    BY <1>1, <1>2, <1>5, <2>1, <2>3, <2>4 DEF FramingInv
<1> QED
  BY <1>6, <1>7 DEF Parse

\* When the connection ends, a reader that was never dropped has returned every
\* message that was written whole.
LEMMA EndInv ==
  ASSUME FramingInv, TypeOK', EndOfStream
  PROVE  FramingInv'
<1>1. /\ TypeOK /\ Writing /\ Reading /\ OnlyOversizeRefused
      /\ Len(delivered) <= Len(sent) /\ Len(got) \in Nat /\ Len(sent) \in Nat
      /\ Len(delivered) \in Nat /\ Len(writing) \in Nat /\ Prefix \in Nat \ {0} /\ size \in Nat
  BY Facts
<1>2. /\ closed /\ wire = <<>> /\ phase' = "failed" /\ Pending' = Pending
      /\ UNCHANGED <<sent, writing, closed, wire, size, got, delivered, torn>>
  BY DEF EndOfStream, Fails, writer, Pending
<1>3. PICK s : Offsets(s) /\ InFlight(s)
  BY DEF FramingInv
<1> DEFINE d == Len(delivered) + 1
           n == Len(sent)
<1>4. ~ torn => Len(delivered) = Whole
  <2>1. HAVE ~ torn
  <2>2. /\ d \in 1 .. n + 1 /\ s[d] \in Nat /\ s[n + 1] \in Nat
        /\ s[d] = s[n + 1] - Len(Pending)
    BY <1>1, <1>3, <2>1, GoneIsNat DEF InFlight
  <2>3. Len(Pending) = Len(got) + Len(writing)
    BY <1>1, <1>2, PendingFacts
  <2>4. writing = <<>> <=> Len(writing) = 0
    BY <1>1 DEF TypeOK
  <2>5. CASE Len(Pending) = 0
    <3>1. n + 1 <= d
      <4>1. n + 1 \in 1 .. n + 1 /\ s[n + 1] <= s[d]
        BY <1>1, <2>2, <2>5
      <4> QED
        BY <1>1, <1>3, <2>2, <4>1, OffsetsGrow
    <3>2. writing = <<>>
      BY <1>1, <2>3, <2>4, <2>5
    <3> QED
      BY <1>1, <3>1, <3>2 DEF Whole
  <2>6. CASE Len(Pending) > 0
    <3>1. /\ Len(delivered) < n /\ sent[d] \in Messages /\ Len(Pending) >= FrameLen(sent[d])
      BY <1>1, <1>3, <2>1, <2>6, NextFrame
    <3>2. FrameLen(sent[d]) \in Nat /\ FrameLen(sent[d]) > Prefix /\ FrameLen(sent[d]) = Prefix + Size[sent[d]]
      BY <3>1, FrameFacts DEF FrameLen
    <3>3. Len(got) < FrameLen(sent[d])
      <4>1. CASE phase = "length"
        BY <1>1, <3>2, <4>1 DEF Reading
      <4>2. CASE phase = "body" /\ ~ Complete
        BY <1>1, <2>1, <3>2, <4>2 DEF Reading, Complete, Remaining
      <4> QED
        BY <4>1, <4>2 DEF EndOfStream
    <3>4. writing # <<>>
      BY <1>1, <2>3, <2>4, <3>1, <3>2, <3>3
    <3>5. Len(writing) <= FrameLen(sent[n])
      BY <1>1, <3>4 DEF Writing
    <3>6. d \in 1 .. n /\ n \in 1 .. n /\ n \in 1 .. n + 1 /\ d + 1 \in 1 .. n + 1
      BY <1>1, <3>1
    <3>7. s[d + 1] = s[d] + FrameLen(sent[d]) /\ s[d + 1] \in Nat
      BY <1>1, <1>3, <3>6, OffsetFacts
    <3>8. s[n + 1] = s[n] + FrameLen(sent[n]) /\ s[n] \in Nat /\ FrameLen(sent[n]) \in Nat
      BY <1>1, <1>3, <3>6, OffsetFacts
    <3>9. ~ (s[d + 1] <= s[n])
      <4>1. s[n + 1] = s[d] + (Len(got) + Len(writing))
        BY <1>1, <2>2, <2>3
      <4>2. Len(got) \in Nat /\ Len(writing) \in Nat /\ s[d] \in Nat
        BY <1>1, <2>2
      <4> QED
        BY ONLY <3>2, <3>3, <3>5, <3>7, <3>8, <4>1, <4>2, SMT
    <3>10. ~ (d + 1 <= n)
      BY <1>1, <1>3, <3>6, <3>9, OffsetsGrow
    <3> QED
      BY <1>1, <3>1, <3>4, <3>10 DEF Whole
  <2> QED
    BY <1>1, <2>3, <2>5, <2>6
<1>5. Offsets(s)' /\ InFlight(s)'
  BY <1>2, <1>3, KeepInFlight
<1>6. Writing' /\ Reading'
  BY <1>1, <1>2 DEF Writing, Reading
<1>7. OnlyOversizeRefused'
  BY <1>1, <1>2, <1>4 DEF OnlyOversizeRefused, Whole
<1> QED
  BY <1>1, <1>2, <1>5, <1>6, <1>7 DEF FramingInv

\* A dropped read leaves the reader behind the bytes it threw away.
LEMMA DropReadInv ==
  ASSUME FramingInv, TypeOK', DropRead
  PROVE  FramingInv'
<1>1. /\ TypeOK /\ Writing /\ OnlyOversizeRefused /\ Len(delivered) <= Len(sent)
      /\ Len(got) \in Nat /\ Prefix \in Nat \ {0}
  BY Facts
<1>2. /\ got' = <<>> /\ phase' = "length" /\ torn'
      /\ UNCHANGED <<sent, writing, closed, wire, size, delivered>>
  BY DEF DropRead, writer
<1>3. PICK s : Offsets(s) /\ InFlight(s)
  BY DEF FramingInv
<1>4. /\ Gone(s) \in Nat /\ s[Len(delivered) + 1] \in Nat /\ s[Len(sent) + 1] \in Nat
      /\ Gone(s) >= s[Len(delivered) + 1]
  BY <1>1, <1>3, GoneIsNat DEF InFlight
<1>5. /\ Gone(s)' = Gone(s) + Len(got)
      /\ \A i \in 1 .. Len(Pending') : Belongs(Pending'[i], Gone(s)' + i, sent, s)
  BY <1>1, <1>2, <1>3, <1>4, Skipped
<1>6. Gone(s)' >= s[Len(delivered) + 1]
  BY <1>1, <1>4, <1>5
<1>7. Offsets(s)' /\ InFlight(s)'
  BY <1>2, <1>3, <1>5, <1>6 DEF Offsets, InFlight
<1>8. Reading'
  <2>1. Len(got') = 0
    BY <1>2
  <2> QED
    BY <1>1, <1>2, <2>1 DEF Reading
<1>9. Writing' /\ OnlyOversizeRefused'
  BY <1>1, <1>2 DEF Writing, OnlyOversizeRefused
<1> QED
  BY <1>1, <1>2, <1>7, <1>8, <1>9 DEF FramingInv

LEMMA InvStep == FramingInv /\ [Next]_vars => FramingInv'
<1> SUFFICES ASSUME FramingInv, [Next]_vars
             PROVE  FramingInv'
  OBVIOUS
<1>1. TypeOK'
  BY Facts, TypeStep
<1>2. CASE Quiet \/ UNCHANGED vars
  <2>1. UNCHANGED <<sent, writing, wire, closed, phase, size, got, delivered, torn>>
    BY <1>2 DEF Quiet, vars, writer, reader
  <2>2. Pending' = Pending
    BY <2>1 DEF Pending
  <2>3. \E s : Offsets(s)' /\ InFlight(s)'
    BY <2>1, <2>2, KeepInFlight DEF FramingInv
  <2>4. Writing' /\ Reading' /\ OnlyOversizeRefused' /\ Len(delivered') <= Len(sent')
    BY <2>1, Facts DEF Writing, Reading, OnlyOversizeRefused, Whole
  <2> QED
    BY <1>1, <2>3, <2>4 DEF FramingInv
<1>3. ASSUME NEW m \in Messages, Send(m)
      PROVE  FramingInv'
  BY <1>1, <1>3, SendInv
<1> QED
  BY <1>1, <1>2, <1>3, WriteInv, CloseInv, ReadLengthInv, ReadBodyInv, ParseInv, EndInv,
     DropReadInv DEF Next

----------------------------------------------------------------------------
(* The theorems.                                                           *)

\* The reader is always where the writer's frames say it is: its bytes, the
\* sockets' and the writer's are, in this order, what is left of the frames begun
\* (read_u32, take and read_to_end of net_utils.rs; write_all).
THEOREM FramingInvariance == Spec => []FramingInv
BY InitInv, InvStep, PTL DEF Spec

\* The state of a connection and of its reader has its type; the sockets never
\* hold more than they can and no size above the limit is accepted.
THEOREM FramingTypes == Spec => []TypeOK
<1>1. FramingInv => TypeOK
  BY DEF FramingInv
<1> QED
  BY <1>1, FramingInvariance, PTL

\* A reader that was never dropped keeps step with the frames however they
\* arrive: it fails at an oversize message, or when the writer closed and every
\* message written whole came out; and no oversize message comes out at all.
THEOREM ReadersKeepStep == Spec => []OnlyOversizeRefused
<1>1. FramingInv => OnlyOversizeRefused
  BY DEF FramingInv
<1> QED
  BY <1>1, FramingInvariance, PTL

----------------------------------------------------------------------------
(* The promise of a connection.                                            *)

QueueNext == Queue!Put \/ Queue!Take \/ Queue!Interrupt \/ Queue!Fail

LEMMA QueueStarts == Init => Queue!QueueInit
BY DEF Init, Queue!QueueInit

LEMMA QueueStep == FramingInv /\ [Next]_vars => [QueueNext]_(Queue!queueVars)
<1> SUFFICES ASSUME FramingInv, [Next]_vars
             PROVE  [QueueNext]_(Queue!queueVars)
  OBVIOUS
<1>1. /\ TypeOK /\ Len(delivered) <= Len(sent) /\ Len(sent) \in Nat /\ Len(delivered) \in Nat
      /\ sent \in Seq(Messages)
  BY Facts DEF TypeOK
<1>2. ASSUME NEW m \in Messages, Send(m)
      PROVE  Queue!Put
  <2>1. sent' = Append(sent, m) /\ UNCHANGED <<delivered, torn, phase>>
    BY <1>2 DEF Send, reader
  <2>2. Len(sent') = Len(sent) + 1 /\ sent'[Len(sent')] = m
    BY <1>1, <2>1, AppendProperties
  <2>3. sent' # <<>>
    BY <1>1, <2>2
  <2> QED
    BY <2>1, <2>2, <2>3 DEF Queue!Put
<1>3. CASE Parse
  <2>1. phase = "body" /\ UNCHANGED <<sent, torn>>
    BY <1>3 DEF Parse, Fails, writer
  <2>2. CASE \E m \in Messages : got = Frame(m) /\ delivered' = Append(delivered, m) /\ phase' = "length"
    <3>1. PICK m \in Messages : got = Frame(m) /\ delivered' = Append(delivered, m) /\ phase' = "length"
      BY <2>2
    <3>2. PICK s : Offsets(s) /\ InFlight(s)
      BY DEF FramingInv
    <3>3. PICK k \in Len(delivered) + 1 .. Len(sent) :
            (k = Len(delivered) + 1 \/ torn) /\ sent[k] = m
      BY <1>1, <3>1, <3>2, WholeFrame
    <3>4. Queue!Take
      BY <2>1, <3>1, <3>3 DEF Queue!Take
    <3> QED
      BY <3>4 DEF QueueNext
  <2>3. CASE Fails
    BY <2>1, <2>3 DEF Fails, QueueNext, Queue!Fail
  <2> QED
    BY <1>3, <2>2, <2>3 DEF Parse
<1>4. CASE EndOfStream
  BY <1>4 DEF EndOfStream, Fails, writer, QueueNext, Queue!Fail
<1>5. CASE DropRead
  BY <1>5 DEF DropRead, writer, QueueNext, Queue!Interrupt
<1>6. CASE ReadLength
  <2>1. phase = "length" /\ UNCHANGED <<sent, delivered, torn>>
    BY <1>6 DEF ReadLength, writer
  <2>2. phase' \in {"length", "body"} \/ phase' = "failed"
    BY <1>6, <2>1 DEF ReadLength
  <2> QED
    BY <2>1, <2>2 DEF QueueNext, Queue!Fail, Queue!queueVars
<1>7. CASE Write \/ Close \/ ReadBody \/ Quiet \/ UNCHANGED vars
  BY <1>7 DEF Write, Close, ReadBody, Quiet, vars, writer, reader, Queue!queueVars
<1> QED
  BY <1>2, <1>3, <1>4, <1>5, <1>6, <1>7 DEF Next, QueueNext

\* Framing implements MessageQueue: messages come out whole, in order and each
\* once until a read fails, whatever parts their frames arrive in; a dropped read
\* (select! in controller.rs) may skip messages, but none is made up.
THEOREM QueueImplemented == Spec => ImplementsQueue
BY QueueStarts, QueueStep, FramingInvariance, PTL
   DEF Spec, ImplementsQueue, Queue!QueueSpec, QueueNext

============================================================================
