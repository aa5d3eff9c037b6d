----------------------------- MODULE Pm4Proofs -----------------------------
(***************************************************************************)
(* Proofs about the PM4 decoder, for any submissions and dumps.            *)
(***************************************************************************)
EXTENDS Pm4Decoder, Induction, FunctionTheorems, SequenceTheorems

-----------------------------------------------------------------------------
(* Headers *)

\* The parity is a bit.
LEMMA ParityIsBit == \A n \in Nat : CalcParity(n) \in {0, 1}
<1> SUFFICES ASSUME NEW n \in Nat PROVE CalcParity(n) \in {0, 1}
  OBVIOUS
<1>1. \A x \in Int : x % 2 \in {0, 1}
  OBVIOUS
<1> DEFINE nibble == FoldedBit(n, 0) + 2 * FoldedBit(n, 1)
                       + 4 * FoldedBit(n, 2) + 8 * FoldedBit(n, 3)
<1>2. nibble \in 0 .. 15
  <2>1. \A b \in 0 .. 3 : FoldedBit(n, b) \in {0, 1}
    <3> SUFFICES ASSUME NEW b \in 0 .. 3 PROVE FoldedBit(n, b) \in {0, 1}
      OBVIOUS
    <3> DEFINE bit(m) == Bits(Bits(n, 4 * m, 4), b, 1)
    <3>1. \A m \in 0 .. 7 : bit(m) \in Nat
      <4> USE DEF Bits
      <4>1. QED OBVIOUS
    <3> HIDE DEF bit
    <3>2. (bit(0) + bit(1) + bit(2) + bit(3) + bit(4) + bit(5) + bit(6) + bit(7)) \in Nat
      BY <3>1
    <3>3. QED BY <1>1, <3>2 DEF FoldedBit, bit
  <2>2. QED BY <2>1
<1> HIDE DEF nibble
<1>3. CalcParity(n) = (\h9669 \div 2^nibble) % 2^1
  BY DEF CalcParity, Bits, nibble
<1>4. QED BY <1>1, <1>2, <1>3

\* A type-4 header is read back: the decoder takes it for one, with the register
\* and the count it was built from.
LEMMA Header4IsRead ==
  ASSUME NEW reg \in RegsOfHeader, NEW count \in CountsOfHeader4
  PROVE  /\ Pkt4Header(reg, count) \in Nat
         /\ IsType4(Pkt4Header(reg, count))
         /\ RegOffset(Pkt4Header(reg, count)) = reg
         /\ RegCount(Pkt4Header(reg, count)) = count
<1> DEFINE p == CalcParity(count)
           q == CalcParity(reg)
           h == Pkt4Header(reg, count)
<1>1. /\ reg \in Nat /\ reg <= 65535
      /\ count \in Nat /\ count <= 127
  BY DEF RegsOfHeader, CountsOfHeader4
<1>2. p \in {0, 1} /\ q \in {0, 1}
  BY <1>1, ParityIsBit
<1>3. h = 1073741824 + count + p * 128 + reg * 256 + q * 134217728
  <2>1. reg % 262144 = reg
    BY <1>1
  <2> HIDE DEF p, q
  <2>2. QED BY <1>1, <1>2, <2>1 DEF Pkt4Header, Type4, p, q
<1> HIDE DEF p, q, h
<1>4. h \in Nat
  BY <1>1, <1>2, <1>3
<1>5. (h \div 268435456) % 16 = 4
  BY <1>1, <1>2, <1>3
<1>6. (h \div 134217728) % 2 = q
  BY <1>1, <1>2, <1>3
<1>7. (h \div 128) % 2 = p
  BY <1>1, <1>2, <1>3
<1>8. (h \div 256) % 524288 = reg
  BY <1>1, <1>2, <1>3
<1>9. h % 128 = count
  BY <1>1, <1>2, <1>3
<1>10. RegOffset(h) = reg /\ RegCount(h) = count
  BY <1>4, <1>8, <1>9 DEF RegOffset, RegCount, Bits
<1>11. IsType4(h)
  BY <1>4, <1>5, <1>6, <1>7, <1>10 DEF IsType4, Bits, p, q
<1>12. QED BY <1>4, <1>10, <1>11 DEF h

\* So is a type-7 header, which the decoder does not take for a type-4 one.
LEMMA Header7IsRead ==
  ASSUME NEW op \in 0 .. 127, NEW count \in CountsOfHeader7
  PROVE  /\ Pkt7Header(op, count) \in Nat
         /\ ~IsType4(Pkt7Header(op, count))
         /\ IsType7(Pkt7Header(op, count))
         /\ Opcode(Pkt7Header(op, count)) = op
         /\ PayloadSize(Pkt7Header(op, count)) = count
<1> DEFINE p == CalcParity(count)
           q == CalcParity(op)
           h == Pkt7Header(op, count)
<1>1. /\ op \in Nat /\ op <= 127
      /\ count \in Nat /\ count <= 16383
  BY DEF CountsOfHeader7
<1>2. p \in {0, 1} /\ q \in {0, 1}
  BY <1>1, ParityIsBit
<1>3. h = 1879048192 + count + p * 32768 + op * 65536 + q * 8388608
  <2>1. op % 128 = op
    BY <1>1
  <2> HIDE DEF p, q
  <2>2. QED BY <1>1, <1>2, <2>1 DEF Pkt7Header, Type7, p, q
<1> HIDE DEF p, q, h
<1>4. h \in Nat
  BY <1>1, <1>2, <1>3
<1>5. (h \div 268435456) % 16 = 7 /\ (h \div 16777216) % 256 = 112
  BY <1>1, <1>2, <1>3
<1>6. (h \div 8388608) % 2 = q
  BY <1>1, <1>2, <1>3
<1>7. (h \div 32768) % 2 = p
  BY <1>1, <1>2, <1>3
<1>8. (h \div 65536) % 128 = op
  BY <1>1, <1>2, <1>3
<1>9. h % 16384 = count
  BY <1>1, <1>2, <1>3
<1>10. Opcode(h) = op /\ PayloadSize(h) = count
  BY <1>4, <1>8, <1>9 DEF Opcode, PayloadSize, Bits
<1>11. IsType7(h)
  BY <1>4, <1>5, <1>6, <1>7, <1>10 DEF IsType7, Bits, p, q
<1>12. ~IsType4(h)
  BY <1>4, <1>5 DEF IsType4, Bits
<1>13. QED BY <1>4, <1>10, <1>11, <1>12 DEF h

\* What the decoder reads are numbers, whatever the dword.
LEMMA FieldTypes ==
  \A h \in Nat : /\ RegOffset(h) \in Nat /\ RegCount(h) \in Nat
                 /\ Opcode(h) \in 0 .. 127 /\ PayloadSize(h) \in Nat
  BY DEF RegOffset, RegCount, Opcode, PayloadSize, Bits

-----------------------------------------------------------------------------
(* Streams *)

\* The concatenations of the first sequences, one after the other.
Joins(seqs, Z) ==
  {f \in [0 .. Len(seqs) -> Seq(Z)] :
      /\ f[0] = <<>>
      /\ \A n \in 1 .. Len(seqs) : f[n] = f[n - 1] \o seqs[n]}

\* They exist, ...
LEMMA JoinsExist ==
  ASSUME NEW Z, NEW seqs \in Seq(Seq(Z))
  PROVE  Joins(seqs, Z) # {}
<1> DEFINE N == Len(seqs)
           X == Seq(Z)
           step == [n \in 1 .. N |-> [q \in X |-> q \o seqs[n]]]
<1>1. N \in Nat /\ \A n \in 1 .. N : seqs[n] \in X
  BY LenProperties, ElementOfSeq
<1>2. step \in [1 .. N -> [X -> X]]
  <2>1. \A n \in 1 .. N, q \in X : q \o seqs[n] \in X
    BY <1>1, ConcatProperties
  <2> HIDE DEF X, N
  <2>2. QED BY <2>1
<1>3. <<>> \in X
  BY EmptySeq
<1>4. PICK f \in [0 .. N -> X] : IsIteration(f, N, <<>>, step)
  <2> HIDE DEF X, N, step
  <2>1. QED BY <1>1, <1>2, <1>3, IterationExists
<1> HIDE DEF X
<1>5. ASSUME NEW n \in 1 .. N PROVE f[n] = f[n - 1] \o seqs[n]
  <2>1. n - 1 \in 0 .. N
    BY <1>1
  <2>2. f[n - 1] \in X /\ f[n] = step[n][f[n - 1]]
    BY <1>4, <2>1 DEF IsIteration
  <2>3. QED BY <2>2
<1>6. f[0] = <<>>
  BY <1>4 DEF IsIteration
<1>7. QED BY <1>4, <1>5, <1>6 DEF Joins, X

\* ... and the last one is what FlattenSeq gives.
LEMMA FlattenJoins ==
  ASSUME NEW Z, NEW seqs \in Seq(Seq(Z)), NEW f \in Joins(seqs, Z)
  PROVE  FlattenSeq(seqs) = f[Len(seqs)]
<1> DEFINE N == Len(seqs)
           Flat(g) == g = [n \in 1 .. N |-> IF n = 1 THEN seqs[n] ELSE g[n - 1] \o seqs[n]]
           flat == CHOOSE g : Flat(g)
           h == [n \in 1 .. N |-> f[n]]
<1>1. /\ N \in Nat
      /\ \A n \in 1 .. N : seqs[n] \in Seq(Z)
      /\ f \in [0 .. N -> Seq(Z)] /\ f[0] = <<>>
      /\ \A n \in 1 .. N : f[n] = f[n - 1] \o seqs[n]
  BY LenProperties, ElementOfSeq DEF Joins
<1>2. CASE N = 0
  <2>1. seqs = <<>>
    BY <1>2, EmptySeq
  <2>2. QED BY <1>1, <1>2, <2>1 DEF FlattenSeq
<1>3. CASE N # 0
  <2>1. Flat(h)
    <3>1. ASSUME NEW n \in 1 .. N
          PROVE  h[n] = IF n = 1 THEN seqs[n] ELSE h[n - 1] \o seqs[n]
      <4>1. CASE n = 1
        <5>1. f[1] = <<>> \o seqs[1]
          <6>1. 1 \in 1 .. N /\ 1 - 1 = 0
            BY <4>1
          <6>2. f[1] = f[1 - 1] \o seqs[1]
            BY <1>1, <6>1
          <6>3. QED BY <1>1, <6>1, <6>2
        <5>2. <<>> \o seqs[1] = seqs[1]
          BY <1>1, <4>1, ConcatEmptySeq
        <5>3. QED BY <4>1, <5>1, <5>2
      <4>2. CASE n # 1
        <5>1. n - 1 \in 1 .. N
          BY <1>1, <4>2
        <5>2. QED BY <1>1, <4>2, <5>1
      <4>3. QED BY <4>1, <4>2
    <3>2. QED BY <3>1
  <2>2. Flat(flat)
    <3> HIDE DEF Flat, h
    <3>1. QED BY <2>1
  <2>3. FlattenSeq(seqs) = flat[N]
    BY <1>3 DEF FlattenSeq
  <2> HIDE DEF flat
  <2>4. \A n \in 1 .. N : flat[n] = IF n = 1 THEN seqs[n] ELSE flat[n - 1] \o seqs[n]
    BY <2>2
  <2> DEFINE S == {n \in Nat : n + 1 <= N => flat[n + 1] = f[n + 1]}
  <2>5. 0 \in S
    <3>1. 1 \in 1 .. N
      BY <1>1, <1>3
    <3>2. flat[1] = seqs[1] /\ h[1] = seqs[1] /\ h[1] = f[1]
      BY <2>1, <2>4, <3>1
    <3>3. QED BY <3>2
  <2>6. ASSUME NEW n \in Nat, n \in S PROVE n + 1 \in S
    <3>1. SUFFICES ASSUME (n + 1) + 1 <= N PROVE flat[(n + 1) + 1] = f[(n + 1) + 1]
      OBVIOUS
    <3> DEFINE m == (n + 1) + 1
    <3>2. m \in 1 .. N /\ m # 1 /\ m - 1 = n + 1 /\ n + 1 <= N
      BY <1>1, <3>1
    <3>3. flat[n + 1] = f[n + 1]
      BY <2>6, <3>2
    <3> HIDE DEF m
    <3>4. flat[m] = flat[m - 1] \o seqs[m] /\ f[m] = f[m - 1] \o seqs[m]
      BY <1>1, <2>4, <3>2
    <3>5. flat[m] = f[m]
      BY <3>2, <3>3, <3>4
    <3>6. QED BY <3>5 DEF m
  <2>7. \A n \in Nat : n \in S
    <3> HIDE DEF S
    <3>1. QED BY <2>5, <2>6, NatSetInduction
  <2>8. N - 1 \in S /\ (N - 1) + 1 = N
    <3>1. N - 1 \in Nat /\ (N - 1) + 1 = N
      BY <1>1, <1>3
    <3> HIDE DEF S
    <3>2. QED BY <2>7, <3>1
  <2>9. QED BY <1>1, <2>3, <2>8
<1>4. QED BY <1>2, <1>3

\* A prefix that is one sequence longer flattens to that sequence more.
LEMMA FlattenGrows ==
  ASSUME NEW Z, NEW seqs \in Seq(Seq(Z))
  PROVE  /\ FlattenSeq(seqs) \in Seq(Z)
         /\ FlattenSeq(SubSeq(seqs, 1, 0)) = <<>>
         /\ \A n \in 1 .. Len(seqs) :
               /\ FlattenSeq(SubSeq(seqs, 1, n - 1)) \in Seq(Z)
               /\ FlattenSeq(SubSeq(seqs, 1, n)) = FlattenSeq(SubSeq(seqs, 1, n - 1)) \o seqs[n]
<1>1. PICK f \in Joins(seqs, Z) : TRUE
  BY JoinsExist
<1> DEFINE N == Len(seqs)
<1>2. /\ N \in Nat /\ DOMAIN seqs = 1 .. N
      /\ \A n \in 1 .. N : seqs[n] \in Seq(Z)
      /\ f \in [0 .. N -> Seq(Z)] /\ f[0] = <<>>
      /\ \A n \in 1 .. N : f[n] = f[n - 1] \o seqs[n]
  BY <1>1, LenProperties, ElementOfSeq DEF Joins
<1>3. ASSUME NEW n \in 0 .. N PROVE FlattenSeq(SubSeq(seqs, 1, n)) = f[n]
  <2> DEFINE P == SubSeq(seqs, 1, n)
             g == [k \in 0 .. n |-> f[k]]
  <2>1. n \in Nat /\ n <= N /\ \A k \in 1 .. n : seqs[k] \in Seq(Z)
    BY <1>2
  <2>2. /\ P \in Seq(Seq(Z)) /\ Len(P) = n
        /\ \A k \in 1 .. n : P[k] = seqs[k]
    <3>1. /\ P \in Seq(Seq(Z)) /\ Len(P) = (IF 1 <= n THEN n - 1 + 1 ELSE 0)
          /\ \A k \in 1 .. n - 1 + 1 : P[k] = seqs[1 + k - 1]
      BY <2>1, SubSeqProperties
    <3>2. n - 1 + 1 = n /\ (~(1 <= n) => n = 0) /\ \A k \in 1 .. n : 1 + k - 1 = k
      BY <2>1
    <3>3. QED BY <3>1, <3>2
  <2> HIDE DEF P
  <2>3. g \in [0 .. n -> Seq(Z)] /\ g[0] = <<>>
    <3>1. 0 \in 0 .. n /\ \A k \in 0 .. n : k \in 0 .. N
      BY <1>2, <2>1
    <3>2. \A k \in 0 .. n : f[k] \in Seq(Z)
      BY <1>2, <3>1
    <3>3. QED BY <1>2, <3>1, <3>2
  <2>4. ASSUME NEW k \in 1 .. n PROVE g[k] = g[k - 1] \o P[k]
    <3>1. k \in 1 .. N /\ k \in 0 .. n /\ k - 1 \in 0 .. n
      BY <1>2, <2>1
    <3>2. QED BY <1>2, <2>2, <3>1
  <2>5. g \in Joins(P, Z)
    <3> HIDE DEF g
    <3>1. QED BY <2>2, <2>3, <2>4 DEF Joins
  <2>6. FlattenSeq(P) = g[n]
    <3> HIDE DEF g
    <3>1. QED BY <2>2, <2>5, FlattenJoins
  <2>7. QED BY <2>1, <2>6 DEF P
<1>4. FlattenSeq(seqs) \in Seq(Z)
  <2>1. FlattenSeq(seqs) = f[N]
    BY <1>1, FlattenJoins
  <2>2. QED BY <1>2, <2>1
<1>5. ASSUME NEW n \in 1 .. N
      PROVE  /\ FlattenSeq(SubSeq(seqs, 1, n - 1)) \in Seq(Z)
             /\ FlattenSeq(SubSeq(seqs, 1, n)) = FlattenSeq(SubSeq(seqs, 1, n - 1)) \o seqs[n]
  <2>1. n - 1 \in 0 .. N /\ n \in 0 .. N
    BY <1>2
  <2>2. QED BY <1>2, <1>3, <2>1
<1>6. FlattenSeq(SubSeq(seqs, 1, 0)) = <<>>
  BY <1>2, <1>3
<1>7. QED BY <1>4, <1>5, <1>6

HeaderOf(p) ==
  IF p.type = "PKT4" THEN Pkt4Header(p.id, Len(p.payload)) ELSE Pkt7Header(p.id, Len(p.payload))

\* The dwords of a piece: a packet has a header and its payload.
LEMMA PieceWords ==
  ASSUME NEW p \in Piece
  PROVE  /\ p.type \in {"PKT4", "PKT7", "LOOSE"}
         /\ p.payload \in Seq(Nat) /\ Len(p.payload) \in Nat
         /\ Words(p) \in Seq(Nat) /\ Len(Words(p)) \in Nat
         /\ p.type = "LOOSE" => Words(p) = p.payload
         /\ p.type # "LOOSE" =>
               /\ Len(Words(p)) = Len(p.payload) + 1
               /\ Words(p)[1] = HeaderOf(p)
               /\ \A n \in 1 .. Len(p.payload) : Words(p)[n + 1] = p.payload[n]
<1>1. /\ p.type \in {"PKT4", "PKT7", "LOOSE"}
      /\ p.payload \in Seq(Nat)
      /\ p.type = "PKT4" => p.id \in RegsOfHeader /\ Len(p.payload) \in CountsOfHeader4
      /\ p.type = "PKT7" => p.id \in 0 .. 127 /\ Len(p.payload) \in CountsOfHeader7
  BY DEF Piece
<1>2. Len(p.payload) \in Nat
  BY <1>1, LenProperties
<1>3. CASE p.type = "LOOSE"
  BY <1>1, <1>2, <1>3 DEF Words
<1>4. CASE p.type # "LOOSE"
  <2> DEFINE h == HeaderOf(p)
  <2>1. Words(p) = <<h>> \o p.payload
    BY <1>1, <1>4 DEF Words, HeaderOf
  <2>2. h \in Nat
    BY <1>1, <1>4, Header4IsRead, Header7IsRead DEF HeaderOf
  <2> HIDE DEF h
  <2>3. <<h>> \in Seq(Nat) /\ Len(<<h>>) = 1 /\ <<h>>[1] = h
    BY <2>2
  <2> DEFINE one == <<h>>
             n == Len(p.payload)
             w == Words(p)
  <2> HIDE DEF one
  <2>4. one \in Seq(Nat) /\ Len(one) = 1 /\ one[1] = h
    BY <2>3 DEF one
  <2> HIDE DEF n, w
  <2>5. w = one \o p.payload /\ n = Len(p.payload) /\ n \in Nat
    BY <1>2, <2>1 DEF w, one, n
  <2>6. /\ w \in Seq(Nat) /\ Len(w) = 1 + n
        /\ \A k \in 1 .. 1 + n : w[k] = IF k <= 1 THEN one[k] ELSE p.payload[k - 1]
    <3> DEFINE q == p.payload
    <3>1. q \in Seq(Nat) /\ Len(q) = n
      BY <1>1, <2>5
    <3> HIDE DEF q
    <3>2. /\ one \o q \in Seq(Nat)
          /\ Len(one \o q) = Len(one) + Len(q)
          /\ \A k \in 1 .. Len(one) + Len(q) :
                (one \o q)[k] = IF k <= Len(one) THEN one[k] ELSE q[k - Len(one)]
      BY <2>4, <3>1, ConcatProperties
    <3>3. w = one \o q
      BY <2>5 DEF q
    <3>4. QED BY <2>4, <3>1, <3>2, <3>3 DEF q
  <2>7. w[1] = h /\ Len(w) = n + 1 /\ Len(w) \in Nat
    BY <2>4, <2>5, <2>6
  <2>8. ASSUME NEW k \in 1 .. n PROVE w[k + 1] = p.payload[k]
    <3>1. k + 1 \in 1 .. 1 + n /\ ~(k + 1 <= 1) /\ (k + 1) - 1 = k
      BY <2>5
    <3>2. QED BY <2>6, <3>1
  <2>9. QED BY <1>1, <1>2, <1>4, <2>5, <2>6, <2>7, <2>8 DEF w, n, h
<1>5. QED BY <1>3, <1>4

\* Where the pieces are: each begins where the one before it ends, and the words
\* of the stream from there are its own.
LEMMA StreamFacts ==
  ASSUME NEW s \in Seq(Piece)
  PROVE  /\ Stream(s) \in Seq(Nat)
         /\ Start(s, 1) = 0
         /\ \A k \in 1 .. Len(s) + 1 : Start(s, k) \in Nat
         /\ \A k \in 1 .. Len(s) : Start(s, k + 1) = Start(s, k) + Len(Words(s[k]))
         /\ Start(s, Len(s) + 1) = Len(Stream(s))
         /\ \A k \in 1 .. Len(s) :
               /\ Stream(SubSeq(s, 1, k - 1)) \in Seq(Nat)
               /\ Stream(SubSeq(s, 1, k)) = Stream(SubSeq(s, 1, k - 1)) \o Words(s[k])
<1> DEFINE N == Len(s)
           seqs == [k \in 1 .. N |-> Words(s[k])]
<1>1. N \in Nat /\ DOMAIN s = 1 .. N /\ \A k \in 1 .. N : s[k] \in Piece /\ Words(s[k]) \in Seq(Nat)
  BY LenProperties, ElementOfSeq, PieceWords
<1>2. seqs \in Seq(Seq(Nat)) /\ Len(seqs) = N /\ \A k \in 1 .. N : seqs[k] = Words(s[k])
  <2> HIDE DEF N
  <2>1. QED BY <1>1
<1>3. ASSUME NEW n \in 0 .. N
      PROVE  Stream(SubSeq(s, 1, n)) = FlattenSeq(SubSeq(seqs, 1, n))
  <2>1. n \in Int /\ n \in Nat /\ n <= N /\ \A k \in 1 .. n : k \in 1 .. N
    BY <1>1
  <2>2. /\ SubSeq(s, 1, n) = [k \in 1 .. n |-> s[k]]
        /\ SubSeq(seqs, 1, n) = [k \in 1 .. n |-> seqs[k]]
    <3> HIDE DEF seqs, N
    <3>1. QED BY <1>1, <1>2, <2>1
  <2> HIDE DEF seqs
  <2>3. [k \in DOMAIN SubSeq(s, 1, n) |-> Words(SubSeq(s, 1, n)[k])] = [k \in 1 .. n |-> seqs[k]]
    <3> DEFINE P == SubSeq(s, 1, n)
    <3> HIDE DEF P
    <3>1. DOMAIN P = 1 .. n /\ \A k \in 1 .. n : Words(P[k]) = seqs[k]
      BY <1>2, <2>1, <2>2 DEF P
    <3>2. [k \in DOMAIN P |-> Words(P[k])] = [k \in 1 .. n |-> seqs[k]]
      BY <3>1
    <3>3. QED BY <3>2 DEF P
  <2>4. QED BY <2>2, <2>3 DEF Stream
<1>4. /\ FlattenSeq(SubSeq(seqs, 1, 0)) = <<>>
      /\ \A n \in 1 .. N :
            /\ FlattenSeq(SubSeq(seqs, 1, n - 1)) \in Seq(Nat)
            /\ FlattenSeq(SubSeq(seqs, 1, n)) = FlattenSeq(SubSeq(seqs, 1, n - 1)) \o seqs[n]
  <2> HIDE DEF seqs
  <2>1. QED BY <1>2, FlattenGrows
<1> HIDE DEF seqs
<1>5. Start(s, 1) = 0
  <2>1. Stream(SubSeq(s, 1, 0)) = <<>>
    BY <1>1, <1>3, <1>4
  <2>2. QED BY <2>1 DEF Start
<1>6. ASSUME NEW n \in 1 .. N
      PROVE  /\ Stream(SubSeq(s, 1, n - 1)) \in Seq(Nat)
             /\ Stream(SubSeq(s, 1, n)) = Stream(SubSeq(s, 1, n - 1)) \o Words(s[n])
  <2>1. n \in 0 .. N /\ n - 1 \in 0 .. N
    BY <1>1
  <2>2. QED BY <1>2, <1>3, <1>4, <2>1
<1>7. ASSUME NEW k \in 1 .. N
      PROVE  /\ Start(s, k) \in Nat
             /\ Start(s, k + 1) = Start(s, k) + Len(Words(s[k]))
  <2> DEFINE a == Stream(SubSeq(s, 1, k - 1))
             b == Stream(SubSeq(s, 1, k))
  <2>1. a \in Seq(Nat) /\ b = a \o Words(s[k]) /\ Words(s[k]) \in Seq(Nat)
    BY <1>1, <1>6
  <2>2. (k + 1) - 1 = k
    BY <1>1
  <2>3. Start(s, k) = Len(a) /\ Start(s, k + 1) = Len(b)
    BY <2>2 DEF Start
  <2> HIDE DEF a, b
  <2>4. Len(a) \in Nat /\ Len(b) = Len(a) + Len(Words(s[k]))
    BY <2>1, LenProperties, ConcatProperties
  <2>5. QED BY <2>3, <2>4
<1>8. Start(s, N + 1) = Len(Stream(s)) /\ Stream(s) \in Seq(Nat)
  <2>1. SubSeq(s, 1, N) = s
    BY SubSeqFull
  <2>2. (N + 1) - 1 = N /\ N \in 0 .. N
    BY <1>1
  <2>3. Start(s, N + 1) = Len(Stream(s))
    BY <2>1, <2>2 DEF Start
  <2>4. Stream(s) = FlattenSeq(SubSeq(seqs, 1, N)) /\ SubSeq(seqs, 1, N) = seqs
    <3>1. SubSeq(seqs, 1, Len(seqs)) = seqs
      BY <1>2, SubSeqFull
    <3>2. Stream(SubSeq(s, 1, N)) = FlattenSeq(SubSeq(seqs, 1, N))
      BY <1>3, <2>2
    <3> HIDE DEF N
    <3>3. QED BY <1>2, <2>1, <3>1, <3>2
  <2>5. FlattenSeq(seqs) \in Seq(Nat)
    BY <1>2, FlattenGrows
  <2>6. QED BY <2>3, <2>4, <2>5
<1>9. ASSUME NEW k \in 1 .. N + 1 PROVE Start(s, k) \in Nat
  <2>1. CASE k \in 1 .. N
    BY <1>7, <2>1
  <2>2. CASE k = N + 1
    BY <1>8, <2>2, LenProperties
  <2>3. QED BY <1>1, <2>1, <2>2
<1>10. QED BY <1>5, <1>6, <1>7, <1>8, <1>9

\* Later pieces start later.
LEMMA StartsGrow ==
  ASSUME NEW s \in Seq(Piece), NEW j \in 1 .. Len(s) + 1, NEW k \in 1 .. Len(s) + 1, j <= k
  PROVE  Start(s, j) <= Start(s, k)
<1> DEFINE N == Len(s)
           at(n) == Start(s, n)
           S == {n \in Nat : j + n <= N + 1 => at(j) <= at(j + n)}
<1>1. N \in Nat /\ \A n \in 1 .. N : s[n] \in Piece
  BY LenProperties, ElementOfSeq
<1>2. ASSUME NEW n \in 1 .. N PROVE at(n) \in Nat /\ at(n + 1) \in Nat /\ at(n) <= at(n + 1)
  <2>1. Len(Words(s[n])) \in Nat
    BY <1>1, PieceWords
  <2> DEFINE a == at(n)
             b == at(n + 1)
  <2>2. a \in Nat /\ b = a + Len(Words(s[n]))
    <3>1. n \in 1 .. Len(s) + 1
      BY <1>1
    <3>2. QED BY <3>1, StreamFacts
  <2> HIDE DEF a, b
  <2>3. a \in Nat /\ b \in Nat /\ a <= b
    BY <2>1, <2>2
  <2>4. QED BY <2>3 DEF a, b
<1>3. \A n \in 1 .. N + 1 : at(n) \in Nat
  BY StreamFacts
<1> HIDE DEF at, N
<1>4. 0 \in S
  <2>1. j \in 1 .. N + 1 /\ j + 0 = j
    BY <1>1 DEF N
  <2>2. QED BY <1>3, <2>1
<1>5. ASSUME NEW n \in Nat, n \in S PROVE n + 1 \in S
  <2>1. SUFFICES ASSUME j + (n + 1) <= N + 1 PROVE at(j) <= at(j + (n + 1))
    OBVIOUS
  <2>2. /\ j \in 1 .. N + 1 /\ j + n \in 1 .. N /\ j + n <= N + 1
        /\ j + (n + 1) = (j + n) + 1 /\ (j + n) + 1 \in 1 .. N + 1
    BY <1>1, <2>1 DEF N
  <2>3. at(j) <= at(j + n) /\ at(j) \in Nat
    BY <1>3, <1>5, <2>2
  <2>4. at(j + n) \in Nat /\ at((j + n) + 1) \in Nat /\ at(j + n) <= at((j + n) + 1)
    BY <1>2, <2>2
  <2>5. at(j) <= at((j + n) + 1)
    BY <2>3, <2>4
  <2>6. QED BY <2>2, <2>5
<1>6. \A n \in Nat : n \in S
  <2> HIDE DEF S
  <2>1. QED BY <1>4, <1>5, NatSetInduction
<1>7. k - j \in Nat /\ j + (k - j) = k /\ k <= N + 1
  BY <1>1 DEF N
<1>8. QED BY <1>6, <1>7 DEF at

\* The words of a piece, where they are in the stream.
LEMMA WordsInStream ==
  ASSUME NEW s \in Seq(Piece), NEW k \in 1 .. Len(s), NEW n \in 1 .. Len(Words(s[k]))
  PROVE  Start(s, k) + n <= Len(Stream(s)) /\ Stream(s)[Start(s, k) + n] = Words(s[k])[n]
<1> DEFINE N == Len(s)
           w == Words(s[k])
           at == Start(s, k)
           part(m) == Stream(SubSeq(s, 1, m))
           S == {m \in Nat : k <= m /\ m <= N =>
                    at + n <= Len(part(m)) /\ part(m)[at + n] = w[n]}
<1>1. N \in Nat /\ k \in Nat /\ 1 <= k /\ k <= N /\ w \in Seq(Nat) /\ Len(w) \in Nat
  BY LenProperties, ElementOfSeq, PieceWords
<1>2. at \in Nat /\ Len(part(k - 1)) = at /\ Start(s, N + 1) = Len(Stream(s))
  BY <1>1, StreamFacts DEF Start
<1>3. ASSUME NEW m \in 1 .. N
      PROVE  /\ part(m - 1) \in Seq(Nat) /\ Words(s[m]) \in Seq(Nat)
             /\ part(m) = part(m - 1) \o Words(s[m])
  <2>1. s[m] \in Piece
    BY ElementOfSeq
  <2>2. QED BY <2>1, PieceWords, StreamFacts
<1>4. ASSUME NEW m \in 1 .. N
      PROVE  LET a == part(m - 1)
                 v == Words(s[m])
             IN  /\ Len(a) \in Nat /\ Len(v) \in Nat
                 /\ Len(part(m)) = Len(a) + Len(v)
                 /\ \A r \in 1 .. Len(a) + Len(v) :
                       part(m)[r] = IF r <= Len(a) THEN a[r] ELSE v[r - Len(a)]
  <2> DEFINE a == part(m - 1)
             v == Words(s[m])
             b == part(m)
  <2>1. a \in Seq(Nat) /\ v \in Seq(Nat) /\ b = a \o v
    BY <1>3
  <2> HIDE DEF a, v, b
  <2>2. /\ Len(a) \in Nat /\ Len(v) \in Nat
        /\ Len(b) = Len(a) + Len(v)
        /\ \A r \in 1 .. Len(a) + Len(v) : b[r] = IF r <= Len(a) THEN a[r] ELSE v[r - Len(a)]
    BY <2>1, LenProperties, ConcatProperties
  <2>3. QED BY <2>2 DEF a, v, b
<1> HIDE DEF N, at, part
<1>5. 0 \in S
  BY <1>1
<1>6. ASSUME NEW m \in Nat, m \in S PROVE m + 1 \in S
  <2>1. SUFFICES ASSUME k <= m + 1, m + 1 <= N
                 PROVE  at + n <= Len(part(m + 1)) /\ part(m + 1)[at + n] = w[n]
    OBVIOUS
  <2>2. m + 1 \in 1 .. N /\ (m + 1) - 1 = m
    BY <1>1, <2>1
  <2> DEFINE a == part(m)
             v == Words(s[m + 1])
             b == part(m + 1)
  <2>3. /\ Len(a) \in Nat /\ Len(v) \in Nat
        /\ Len(b) = Len(a) + Len(v)
        /\ \A r \in 1 .. Len(a) + Len(v) : b[r] = IF r <= Len(a) THEN a[r] ELSE v[r - Len(a)]
    BY <1>4, <2>2
  <2>4. CASE k <= m
    <3>1. at + n <= Len(a) /\ a[at + n] = w[n]
      BY <1>1, <1>6, <2>1, <2>4
    <3> HIDE DEF a, v, b, w
    <3>2. at + n \in 1 .. Len(a) + Len(v)
      BY <1>1, <1>2, <2>3, <3>1 DEF w
    <3>3. at + n <= Len(b) /\ b[at + n] = w[n]
      BY <2>3, <3>1, <3>2
    <3>4. QED BY <3>3 DEF a, b
  <2>5. CASE ~(k <= m)
    <3>1. k = m + 1
      BY <1>1, <2>1, <2>5
    <3>2. Len(a) = at /\ v = w
      BY <1>2, <2>2, <3>1
    <3> HIDE DEF a, v, b
    <3>3. at + n \in 1 .. Len(a) + Len(v) /\ ~(at + n <= Len(a)) /\ (at + n) - Len(a) = n
      BY <1>1, <1>2, <2>3, <3>2
    <3>4. at + n <= Len(b) /\ b[at + n] = w[n]
      BY <2>3, <3>2, <3>3
    <3>5. QED BY <3>4 DEF b
  <2>6. QED BY <2>4, <2>5
<1>7. \A m \in Nat : m \in S
  <2> HIDE DEF S
  <2>1. QED BY <1>5, <1>6, NatSetInduction
<1>8. at + n <= Len(part(N)) /\ part(N)[at + n] = w[n]
  BY <1>1, <1>7
<1>9. part(N) = Stream(s)
  BY SubSeqFull DEF part, N
<1>10. QED BY <1>8, <1>9 DEF at

\* Every word of the stream belongs to a piece.
LEMMA StreamIsCovered ==
  ASSUME NEW s \in Seq(Piece), NEW m \in Nat, m < Len(Stream(s))
  PROVE  \E k \in 1 .. Len(s) : Start(s, k) <= m /\ m < Start(s, k + 1)
<1> DEFINE N == Len(s)
           T == {k \in 1 .. N + 1 : Start(s, k) <= m}
<1>1. /\ N \in Nat /\ Start(s, 1) = 0 /\ Start(s, N + 1) = Len(Stream(s))
      /\ \A k \in 1 .. N + 1 : Start(s, k) \in Nat
  BY LenProperties, StreamFacts
<1>2. T \in SUBSET (0 .. N + 1) /\ N + 1 \in Nat /\ T # {}
  BY <1>1
<1>3. PICK x \in T : \A y \in T : y <= x
  <2> HIDE DEF T
  <2>1. QED BY <1>2, GreatestExists
<1>4. x # N + 1
  BY <1>1, <1>3
<1>5. x \in 1 .. N /\ x + 1 \in 1 .. N + 1 /\ ~(x + 1 <= x)
  BY <1>1, <1>3, <1>4
<1>6. x + 1 \notin T
  <2> HIDE DEF T
  <2>1. QED BY <1>3, <1>5
<1>7. ~(Start(s, x + 1) <= m)
  BY <1>5, <1>6
<1>8. QED BY <1>1, <1>3, <1>5, <1>7

-----------------------------------------------------------------------------
(* Types, and the decoder in step with the stream *)

PacketType ==
  [type : {"PKT4", "PKT7", "IB"}, id : Nat, named : BOOLEAN, count : Nat, payload : Seq(Nat)]

StatsType ==
  [TotalDwords : Nat, TotalPackets : Nat, PKT4Count : Nat, PKT7Count : Nat, RegWrites : Nat,
   A8XXRegWrites : Nat, BarrierPackets : Nat, DrawPackets : Nat, NOPPackets : Nat,
   UnknownOpcodes : [0 .. 127 -> Nat]]

Types ==
  /\ submission \in Submissions
  /\ dumps \in Seq(Seq(Nat))
  /\ Len(dumps) \in 1 .. Len(submission)
  /\ \A e \in 1 .. Len(dumps) : dumps[e] \in Dumps(submission[e])
  /\ i \in Nat
  /\ packets \in Seq(PacketType)
  /\ \A k \in 1 .. Len(packets) : Len(packets[k].payload) <= packets[k].count
  /\ stats \in StatsType
  /\ total \in StatsType
  /\ returned \in BOOLEAN
  /\ merged \in BOOLEAN

\* The decoder is never inside a packet, at any round, and does not leave the
\* stream; a dump that ends in mid-packet is left behind.
InStep ==
  /\ i <= Len(Stream(program))
  /\ \A k \in DOMAIN program :
        program[k].type # "LOOSE" => ~(Start(program, k) < i /\ i < Start(program, k + 1))
  /\ returned => i >= Len(dwords)
  /\ merged => returned

\* A dump is the beginning of its stream.
LEMMA DumpFacts ==
  ASSUME NEW s \in Seq(Piece), NEW d \in Dumps(s)
  PROVE  /\ d \in Seq(Nat) /\ Len(d) \in Nat
         /\ Len(d) <= Len(Stream(s))
         /\ \A n \in 1 .. Len(d) : d[n] = Stream(s)[n]
<1> DEFINE t == Stream(s)
<1>1. t \in Seq(Nat) /\ Len(t) \in Nat
  BY StreamFacts, LenProperties
<1>2. PICK n \in 0 .. Len(t) : d = SubSeq(t, 1, n)
  BY DEF Dumps
<1> HIDE DEF t
<1>3. \A k \in 1 .. n : t[k] \in Nat
  BY <1>1, <1>2, ElementOfSeq
<1>4. d \in Seq(Nat) /\ Len(d) = n /\ \A k \in 1 .. n : d[k] = t[k]
  BY <1>1, <1>2, <1>3
<1>5. QED BY <1>1, <1>2, <1>4 DEF t

\* The entry that is being decoded, its program and its dump.
LEMMA EntryFacts ==
  ASSUME Types
  PROVE  /\ submission \in Seq(Seq(Piece)) /\ Len(submission) \in Nat
         /\ Len(dumps) \in Nat /\ Len(dumps) >= 1
         /\ \A e \in 1 .. Len(dumps) : submission[e] \in Seq(Piece) /\ dumps[e] \in Seq(Nat)
         /\ program \in Seq(Piece) /\ Len(program) \in Nat /\ DOMAIN program = 1 .. Len(program)
         /\ \A k \in 1 .. Len(program) : program[k] \in Piece
         /\ dwords \in Dumps(program) /\ dwords \in Seq(Nat) /\ Len(dwords) \in Nat
<1>1. submission \in Seq(Seq(Piece)) /\ Len(submission) \in Nat
  BY DecoderAssumption, LenProperties DEF DecoderAssumption, Types
<1>2. Len(dumps) \in 1 .. Len(submission) /\ Len(dumps) \in Nat /\ Len(dumps) >= 1
  BY <1>1 DEF Types
<1>3. \A e \in 1 .. Len(dumps) : submission[e] \in Seq(Piece) /\ dumps[e] \in Seq(Nat)
  <2>1. \A e \in 1 .. Len(dumps) : e \in 1 .. Len(submission)
    BY <1>1, <1>2
  <2>2. QED BY <1>1, <2>1, ElementOfSeq DEF Types
<1>4. Len(dumps) \in 1 .. Len(dumps)
  BY <1>2
<1>5. program \in Seq(Piece) /\ dwords \in Seq(Nat) /\ dwords \in Dumps(program)
  BY <1>3, <1>4 DEF program, dwords, Types
<1>6. QED BY <1>1, <1>2, <1>3, <1>5, LenProperties, ElementOfSeq

\* A packet takes a dword at least.
LEMMA PacketsTakeRoom ==
  ASSUME NEW s \in Seq(Piece), NEW k \in 1 .. Len(s), s[k].type # "LOOSE"
  PROVE  /\ Start(s, k) \in Nat
         /\ Start(s, k + 1) = Start(s, k) + 1 + Len(s[k].payload)
         /\ Len(s[k].payload) \in Nat
<1>1. s[k] \in Piece
  BY ElementOfSeq
<1> DEFINE a == Start(s, k)
           b == Start(s, k + 1)
           n == Len(s[k].payload)
<1>2. n \in Nat /\ Len(Words(s[k])) = n + 1
  BY <1>1, PieceWords
<1>3. k \in 1 .. Len(s) + 1
  BY LenProperties
<1>4. a \in Nat /\ b = a + Len(Words(s[k]))
  BY <1>3, StreamFacts
<1> HIDE DEF a, b, n
<1>5. b = a + 1 + n
  BY <1>2, <1>4
<1>6. QED BY <1>2, <1>4, <1>5 DEF a, b, n

\* What is at the decoder's place: a loose dword, or the first of a packet.
LEMMA HeaderHere ==
  ASSUME Types, InStep, i < Len(dwords)
  PROVE  \E k \in 1 .. Len(program) :
            /\ Start(program, k) <= i
            /\ i < Start(program, k + 1)
            /\ program[k].type = "LOOSE" => ~IsType4(Header) /\ ~IsType7(Header)
            /\ program[k].type # "LOOSE" => Start(program, k) = i /\ Header = HeaderOf(program[k])
<1> DEFINE t == Stream(program)
<1>1. /\ program \in Seq(Piece) /\ Len(program) \in Nat /\ DOMAIN program = 1 .. Len(program)
      /\ dwords \in Dumps(program) /\ Len(dwords) \in Nat /\ i \in Nat
  BY EntryFacts DEF Types
<1>2. Len(dwords) <= Len(t) /\ \A n \in 1 .. Len(dwords) : dwords[n] = t[n]
  BY <1>1, DumpFacts
<1>3. Len(t) \in Nat
  BY <1>1, StreamFacts, LenProperties
<1>4. i < Len(t) /\ i + 1 \in 1 .. Len(dwords)
  BY <1>1, <1>2, <1>3
<1>5. PICK k \in 1 .. Len(program) : Start(program, k) <= i /\ i < Start(program, k + 1)
  BY <1>1, <1>4, StreamIsCovered
<1>6. program[k] \in Piece /\ k \in 1 .. Len(program) + 1
  BY <1>1, ElementOfSeq
<1> DEFINE a == Start(program, k)
           w == Words(program[k])
           n == i - a + 1
<1>7. a \in Nat /\ Start(program, k + 1) = a + Len(w) /\ Len(w) \in Nat
  BY <1>1, <1>6, StreamFacts, PieceWords
<1>8. n \in 1 .. Len(w) /\ a + n = i + 1
  <2> HIDE DEF a, w
  <2>1. a <= i /\ i < a + Len(w)
    BY <1>5, <1>7 DEF a
  <2>2. QED BY <1>1, <1>7, <2>1
<1>9. t[a + n] = w[n]
  BY <1>1, <1>8, WordsInStream
<1>10. Header = w[n]
  BY <1>2, <1>4, <1>8, <1>9 DEF Header
<1>11. CASE program[k].type = "LOOSE"
  <2>1. w = program[k].payload
    BY <1>6, <1>11, PieceWords
  <2>2. \A m \in DOMAIN program[k].payload :
           ~IsType4(program[k].payload[m]) /\ ~IsType7(program[k].payload[m])
    BY <1>6, <1>11 DEF Piece
  <2>3. n \in DOMAIN program[k].payload
    <3>1. program[k].payload \in Seq(Nat)
      BY <1>6, PieceWords
    <3>2. QED BY <1>8, <2>1, <3>1, LenProperties
  <2>4. QED BY <1>5, <1>10, <1>11, <2>1, <2>2, <2>3
<1>12. CASE program[k].type # "LOOSE"
  <2>1. ~(a < i)
    BY <1>1, <1>5, <1>12 DEF InStep
  <2>2. a = i
    BY <1>1, <1>5, <1>7, <2>1
  <2>3. n = 1
    BY <1>1, <2>2
  <2>4. w[1] = HeaderOf(program[k])
    BY <1>6, <1>12, PieceWords
  <2>5. QED BY <1>5, <1>10, <1>12, <2>2, <2>3, <2>4
<1>13. QED BY <1>11, <1>12

\* The lesser of two, as Min has it.
LEMMA MinOfTwo ==
  ASSUME NEW a \in Int, NEW b \in Int
  PROVE  Min({a, b}) = IF a <= b THEN a ELSE b
<1>1. ASSUME NEW x, x \in {a, b}, \A y \in {a, b} : x <= y
      PROVE  x = IF a <= b THEN a ELSE b
  BY <1>1
<1>2. \E x \in {a, b} : \A y \in {a, b} : x <= y
  <2>1. a <= b \/ b <= a
    OBVIOUS
  <2>2. QED BY <2>1
<1>3. QED BY <1>1, <1>2 DEF Min

\* The payload that is cut out of the dump is that of the piece, short of what
\* the dump lacks.
LEMMA PayloadHere ==
  ASSUME Types, NEW k \in 1 .. Len(program), program[k].type # "LOOSE",
         Start(program, k) = i, i < Len(dwords)
  PROVE  LET n == Len(program[k].payload)
             m == Min({n, Len(dwords) - Start(program, k) - 1})
         IN  /\ SafeSlice(i + 1, n) = SubSeq(program[k].payload, 1, m)
             /\ SafeSlice(i + 1, n) \in Seq(Nat)
             /\ Len(SafeSlice(i + 1, n)) = IF n <= Len(dwords) - i - 1 THEN n
                                                                      ELSE Len(dwords) - i - 1
<1> DEFINE q == program[k].payload
           n == Len(q)
           w == Words(program[k])
           L == Len(dwords)
           m == Min({n, L - Start(program, k) - 1})
           d == dwords
           e == Min({(i + 1) + n, L})
<1>1. /\ program \in Seq(Piece) /\ Len(program) \in Nat /\ program[k] \in Piece
      /\ d \in Dumps(program) /\ d \in Seq(Nat) /\ L \in Nat /\ i \in Nat
  BY EntryFacts DEF Types
<1>2. /\ q \in Seq(Nat) /\ n \in Nat /\ Len(w) = n + 1
      /\ \A r \in 1 .. n : w[r + 1] = q[r]
  BY <1>1, PieceWords
<1>3. \A r \in 1 .. L : d[r] = Stream(program)[r]
  BY <1>1, DumpFacts
<1>4. ASSUME NEW r \in 1 .. n, i + 1 + r <= L PROVE d[i + 1 + r] = q[r]
  <2>1. r + 1 \in 1 .. Len(w) /\ i + 1 + r \in 1 .. L /\ i + 1 + r = i + (r + 1)
    BY <1>1, <1>2, <1>4
  <2>2. Stream(program)[i + (r + 1)] = w[r + 1]
    BY <1>1, <2>1, WordsInStream
  <2>3. QED BY <1>2, <1>3, <2>1, <2>2
<1>5. m = IF n <= L - i - 1 THEN n ELSE L - i - 1
  <2>1. L - Start(program, k) - 1 = L - i - 1 /\ L - i - 1 \in Int
    BY <1>1
  <2>2. m = Min({n, L - i - 1})
    BY <2>1
  <2> HIDE DEF m, n, L
  <2>3. QED BY <1>2, <2>1, <2>2, MinOfTwo
<1>6. e = i + 1 + m
  <2> DEFINE f == (i + 1) + n
  <2>1. f \in Int /\ L \in Int
    BY <1>1, <1>2
  <2>2. e = Min({f, L})
    OBVIOUS
  <2> HIDE DEF e, f, L
  <2>3. e = IF f <= L THEN f ELSE L
    BY <2>1, <2>2, MinOfTwo
  <2> HIDE DEF m, n
  <2>4. QED BY <1>1, <1>2, <1>5, <2>3 DEF f
<1>7. SafeSlice(i + 1, n) = SubSeq(d, (i + 1) + 1, e)
  BY DEF SafeSlice
<1> HIDE DEF q, n, w, L, m, d, e
<1>8. m \in Nat /\ m <= n /\ i + 1 + m <= L
  <2>1. i < L
    BY DEF L
  <2>2. n \in Nat /\ L \in Nat /\ i \in Nat
    BY <1>1, <1>2
  <2>3. CASE n <= L - i - 1
    BY <1>5, <2>1, <2>2, <2>3
  <2>4. CASE ~(n <= L - i - 1)
    BY <1>5, <2>1, <2>2, <2>4
  <2>5. QED BY <2>3, <2>4
<1>9. /\ SubSeq(d, (i + 1) + 1, e) \in Seq(Nat)
      /\ Len(SubSeq(d, (i + 1) + 1, e)) = m
      /\ \A r \in 1 .. m : SubSeq(d, (i + 1) + 1, e)[r] = d[i + 1 + r]
  <2> DEFINE a == (i + 1) + 1
             z == SubSeq(d, a, e)
  <2>1. a \in Int /\ e \in Int /\ e - a + 1 = m /\ (a <= e <=> m # 0) /\ a >= 1 /\ e <= L
    BY <1>1, <1>6, <1>8
  <2>2. \A r \in a .. e : d[r] \in Nat
    <3>1. \A r \in a .. e : r \in 1 .. Len(d)
      BY <1>1, <2>1 DEF L, d
    <3>2. QED BY <1>1, <3>1, ElementOfSeq
  <2>3. \A r \in 1 .. m : a + r - 1 = i + 1 + r
    BY <1>1, <1>8
  <2> HIDE DEF a
  <2>4. /\ z \in Seq(Nat)
        /\ Len(z) = IF a <= e THEN e - a + 1 ELSE 0
        /\ \A r \in 1 .. e - a + 1 : z[r] = d[a + r - 1]
    BY <2>1, <2>2, SubSeqProperties
  <2> HIDE DEF z
  <2>5. Len(z) = m /\ \A r \in 1 .. m : z[r] = d[i + 1 + r]
    BY <1>8, <2>1, <2>3, <2>4
  <2>6. QED BY <2>4, <2>5 DEF z, a
<1>10. /\ SubSeq(q, 1, m) \in Seq(Nat)
       /\ Len(SubSeq(q, 1, m)) = m
       /\ \A r \in 1 .. m : SubSeq(q, 1, m)[r] = q[r]
  <2>1. \A r \in 1 .. m : q[r] \in Nat
    BY <1>2, <1>8, ElementOfSeq DEF n
  <2>2. QED BY <1>2, <1>8, <2>1
<1>11. SubSeq(d, (i + 1) + 1, e) = SubSeq(q, 1, m)
  <2>1. \A r \in 1 .. m : d[i + 1 + r] = q[r]
    BY <1>1, <1>2, <1>4, <1>8
  <2> DEFINE y == SubSeq(d, (i + 1) + 1, e)
             z == SubSeq(q, 1, m)
  <2>2. \A r \in 1 .. Len(y) : y[r] = z[r]
    BY <1>9, <1>10, <2>1
  <2>3. y \in Seq(Nat) /\ z \in Seq(Nat) /\ Len(y) = Len(z)
    BY <1>9, <1>10
  <2> HIDE DEF y, z
  <2>4. y = z
    BY <2>2, <2>3, SeqEqual
  <2>5. QED BY <2>4 DEF y, z
<1>12. QED BY <1>5, <1>7, <1>9, <1>11 DEF m, q, n, L

\* The packet at the decoder's place is taken, as it was built.
Takes(k) ==
  /\ program[k].type # "LOOSE"
  /\ Start(program, k) = i
  /\ i < Len(dwords)
  /\ i' = Start(program, k + 1)
  /\ packets' = Append(packets, Intended(k))
  /\ stats' = IF program[k].type = "PKT4" THEN Count4(Intended(k)) ELSE Count7(Intended(k))
  /\ Intended(k) \in PacketType
  /\ Len(Intended(k).payload) =
        IF Len(program[k].payload) <= Len(dwords) - i - 1 THEN Len(program[k].payload)
                                                          ELSE Len(dwords) - i - 1
  /\ UNCHANGED <<submission, dumps, returned, total, merged>>

LEMMA TakeFacts ==
  ASSUME Types, InStep, TakeType4 \/ TakeType7
  PROVE  \E k \in 1 .. Len(program) : Takes(k)
<1>1. /\ i < Len(dwords) /\ i \in Nat
      /\ IsType4(Header) \/ IsType7(Header)
      /\ UNCHANGED <<submission, dumps, returned, total, merged>>
  BY DEF TakeType4, TakeType7, Types
<1>2. PICK k \in 1 .. Len(program) :
         /\ Start(program, k) <= i
         /\ i < Start(program, k + 1)
         /\ program[k].type = "LOOSE" => ~IsType4(Header) /\ ~IsType7(Header)
         /\ program[k].type # "LOOSE" => Start(program, k) = i /\ Header = HeaderOf(program[k])
  BY <1>1, HeaderHere
<1> DEFINE p == program[k]
           n == Len(p.payload)
           slice == SafeSlice(i + 1, n)
<1>3. p.type # "LOOSE" /\ Start(program, k) = i /\ Header = HeaderOf(p)
  BY <1>1, <1>2
<1>4. p \in Piece /\ program \in Seq(Piece)
  BY EntryFacts
<1>5. p.type \in {"PKT4", "PKT7"}
  BY <1>3, <1>4, PieceWords
<1>6. /\ n \in Nat /\ Start(program, k + 1) = i + 1 + n
  BY <1>3, <1>4, PacketsTakeRoom
<1>7. /\ slice = SubSeq(p.payload, 1, Min({n, Len(dwords) - Start(program, k) - 1}))
      /\ slice \in Seq(Nat)
      /\ Len(slice) = IF n <= Len(dwords) - i - 1 THEN n ELSE Len(dwords) - i - 1
  BY <1>1, <1>3, PayloadHere
<1> HIDE DEF n, slice
<1>8. CASE p.type = "PKT4"
  <2>1. p.id \in RegsOfHeader /\ Len(p.payload) \in CountsOfHeader4
    BY <1>4, <1>8 DEF Piece
  <2>2. Header = Pkt4Header(p.id, n)
    BY <1>3, <1>8 DEF HeaderOf, n
  <2>3. IsType4(Header) /\ RegOffset(Header) = p.id /\ RegCount(Header) = n
    BY <2>1, <2>2, Header4IsRead DEF n
  <2> DEFINE pkt == Packet("PKT4", p.id, p.id \in RegNameByOffset, n, slice)
  <2>4. DecodeType4(Header) = pkt
    BY <2>3 DEF DecodeType4, slice
  <2>5. Intended(k) = pkt
    BY <1>7, <1>8 DEF Intended, n
  <2>6. pkt \in PacketType /\ pkt.payload = slice /\ pkt.count = n
    <3> DEFINE id == p.id
               known == p.id \in RegNameByOffset
    <3>1. id \in Nat /\ known \in BOOLEAN
      BY <2>1 DEF RegsOfHeader
    <3> HIDE DEF id, known
    <3>2. pkt = [type |-> "PKT4", id |-> id, named |-> known, count |-> n, payload |-> slice]
      BY DEF Packet, id, known
    <3> HIDE DEF pkt
    <3>3. QED BY <1>6, <1>7, <3>1, <3>2 DEF PacketType
  <2>7. TakeType4
    BY <2>3 DEF TakeType4, TakeType7
  <2>8. /\ packets' = Append(packets, pkt)
        /\ stats' = Count4(pkt)
        /\ i' = i + 1 + pkt.count
    BY <2>4, <2>7 DEF TakeType4
  <2> HIDE DEF pkt
  <2>9. QED BY <1>1, <1>2, <1>3, <1>6, <1>7, <1>8, <2>5, <2>6, <2>8 DEF Takes, n
<1>9. CASE p.type = "PKT7"
  <2>1. p.id \in 0 .. 127 /\ Len(p.payload) \in CountsOfHeader7
    BY <1>4, <1>9 DEF Piece
  <2>2. Header = Pkt7Header(p.id, n)
    BY <1>3, <1>9 DEF HeaderOf, n
  <2>3. ~IsType4(Header) /\ Opcode(Header) = p.id /\ PayloadSize(Header) = n
    BY <2>1, <2>2, Header7IsRead DEF n
  <2> DEFINE pkt == Packet(IF p.id \in IndirectBuffers THEN "IB" ELSE "PKT7",
                           p.id, p.id \in OpcodeNames, n, slice)
  <2>4. DecodeType7(Header) = pkt
    BY <2>3 DEF DecodeType7, slice
  <2>5. Intended(k) = pkt
    BY <1>7, <1>9 DEF Intended, n
  <2>6. pkt \in PacketType /\ pkt.payload = slice /\ pkt.count = n
    <3> DEFINE id == p.id
               known == p.id \in OpcodeNames
               type == IF p.id \in IndirectBuffers THEN "IB" ELSE "PKT7"
    <3>1. id \in Nat /\ known \in BOOLEAN /\ type \in {"PKT4", "PKT7", "IB"}
      <4>1. id \in Nat
        <5> HIDE DEF type, known, p
        <5>1. \A x \in 0 .. 127 : x \in Nat
          OBVIOUS
        <5>2. QED BY <2>1, <5>1 DEF id
      <4>2. type \in {"PKT4", "PKT7", "IB"}
        OBVIOUS
      <4> HIDE DEF type, id
      <4>3. QED BY <4>1, <4>2
    <3> HIDE DEF id, known, type
    <3>2. pkt = [type |-> type, id |-> id, named |-> known, count |-> n, payload |-> slice]
      BY DEF Packet, id, known, type
    <3> HIDE DEF pkt
    <3>3. QED BY <1>6, <1>7, <3>1, <3>2 DEF PacketType
  <2>7. TakeType7
    BY <2>3 DEF TakeType4, TakeType7
  <2>8. /\ packets' = Append(packets, pkt)
        /\ stats' = Count7(pkt)
        /\ i' = i + 1 + pkt.count
    BY <2>4, <2>7 DEF TakeType7
  <2> HIDE DEF pkt
  <2>9. QED BY <1>1, <1>2, <1>3, <1>6, <1>7, <1>9, <2>5, <2>6, <2>8 DEF Takes, n
<1>10. QED BY <1>5, <1>8, <1>9

\* A dword that is skipped is a loose one.
LEMMA SkipFacts ==
  ASSUME Types, InStep, SkipWord
  PROVE  \E k \in 1 .. Len(program) :
            /\ program[k].type = "LOOSE"
            /\ Start(program, k) <= i
            /\ i < Start(program, k + 1)
<1>1. i < Len(dwords) /\ ~IsType4(Header) /\ ~IsType7(Header)
  BY DEF SkipWord
<1>2. PICK k \in 1 .. Len(program) :
         /\ Start(program, k) <= i
         /\ i < Start(program, k + 1)
         /\ program[k].type # "LOOSE" => Start(program, k) = i /\ Header = HeaderOf(program[k])
  BY <1>1, HeaderHere
<1>3. program[k].type = "LOOSE"
  <2>1. SUFFICES ASSUME program[k].type # "LOOSE" PROVE FALSE
    OBVIOUS
  <2> DEFINE p == program[k]
  <2>2. p \in Piece /\ p.type \in {"PKT4", "PKT7"} /\ Header = HeaderOf(p)
    BY <1>2, <2>1, EntryFacts, PieceWords
  <2>3. CASE p.type = "PKT4"
    <3>1. p.id \in RegsOfHeader /\ Len(p.payload) \in CountsOfHeader4
      BY <2>2, <2>3 DEF Piece
    <3>2. QED BY <1>1, <2>2, <2>3, <3>1, Header4IsRead DEF HeaderOf
  <2>4. CASE p.type = "PKT7"
    <3>1. p.id \in 0 .. 127 /\ Len(p.payload) \in CountsOfHeader7
      BY <2>2, <2>4 DEF Piece
    <3>2. QED BY <1>1, <2>2, <2>4, <3>1, Header7IsRead DEF HeaderOf
  <2>5. QED BY <2>2, <2>3, <2>4
<1>4. QED BY <1>2, <1>3

\* What a packet adds to the statistics.
LEMMA Count4Facts ==
  ASSUME stats \in StatsType, NEW pkt \in PacketType
  PROVE  /\ Count4(pkt) \in StatsType
         /\ Count4(pkt).TotalDwords = stats.TotalDwords
         /\ Count4(pkt).PKT4Count = stats.PKT4Count + 1
         /\ Count4(pkt).PKT7Count = stats.PKT7Count
         /\ Count4(pkt).RegWrites = stats.RegWrites + pkt.count
         /\ Count4(pkt).A8XXRegWrites =
               stats.A8XXRegWrites + IF pkt.id \in IsA8XXRegister THEN pkt.count ELSE 0
         /\ Count4(pkt).BarrierPackets = stats.BarrierPackets
         /\ Count4(pkt).DrawPackets = stats.DrawPackets
         /\ Count4(pkt).NOPPackets = stats.NOPPackets
         /\ Count4(pkt).UnknownOpcodes = stats.UnknownOpcodes
<1> DEFINE n == pkt.count
           m == IF pkt.id \in IsA8XXRegister THEN pkt.count ELSE 0
<1>1. n \in Nat /\ m \in Nat
  BY DEF PacketType
<1> HIDE DEF n, m
<1>2. Count4(pkt) = [stats EXCEPT !.PKT4Count = stats.PKT4Count + 1,
                                  !.RegWrites = stats.RegWrites + n,
                                  !.A8XXRegWrites = stats.A8XXRegWrites + m]
  BY DEF StatsType, Count4, n, m
<1>3. /\ stats.PKT4Count + 1 \in Nat
      /\ stats.RegWrites + n \in Nat
      /\ stats.A8XXRegWrites + m \in Nat
  BY <1>1 DEF StatsType
<1> DEFINE s == Count4(pkt)
           p1 == stats.PKT4Count + 1
           r1 == stats.RegWrites + n
           a1 == stats.A8XXRegWrites + m
<1>4. /\ s = [stats EXCEPT !.PKT4Count = p1, !.RegWrites = r1, !.A8XXRegWrites = a1]
      /\ p1 \in Nat /\ r1 \in Nat /\ a1 \in Nat
  BY <1>2, <1>3
<1> HIDE DEF s, p1, r1, a1
<1>5. /\ s \in StatsType
      /\ s.TotalDwords = stats.TotalDwords
      /\ s.PKT4Count = p1
      /\ s.PKT7Count = stats.PKT7Count
      /\ s.RegWrites = r1
      /\ s.A8XXRegWrites = a1
      /\ s.BarrierPackets = stats.BarrierPackets
      /\ s.DrawPackets = stats.DrawPackets
      /\ s.NOPPackets = stats.NOPPackets
      /\ s.UnknownOpcodes = stats.UnknownOpcodes
  BY <1>4 DEF StatsType
<1>6. QED BY <1>5 DEF s, p1, r1, a1, n, m

LEMMA Count7Facts ==
  ASSUME stats \in StatsType, NEW pkt \in PacketType
  PROVE  /\ Count7(pkt) \in StatsType
         /\ Count7(pkt).TotalDwords = stats.TotalDwords
         /\ Count7(pkt).PKT4Count = stats.PKT4Count
         /\ Count7(pkt).PKT7Count = stats.PKT7Count + 1
         /\ Count7(pkt).RegWrites = stats.RegWrites
         /\ Count7(pkt).A8XXRegWrites = stats.A8XXRegWrites
         /\ Count7(pkt).BarrierPackets = stats.BarrierPackets + One(pkt.id \in BarrierOpcodes)
         /\ Count7(pkt).DrawPackets = stats.DrawPackets + One(pkt.id \in DrawOpcodes)
         /\ Count7(pkt).NOPPackets = stats.NOPPackets + One(pkt.id = PM4.NOP)
         /\ \A op \in 0 .. 127 :
               Count7(pkt).UnknownOpcodes[op] =
                  stats.UnknownOpcodes[op] + One(pkt.id = op /\ op \notin OpcodeNames)
<1> DEFINE b == One(pkt.id \in BarrierOpcodes)
           d == One(pkt.id \in DrawOpcodes)
           n == One(pkt.id = PM4.NOP)
           u == One(pkt.id \notin OpcodeNames)
           U == [stats.UnknownOpcodes EXCEPT ![pkt.id] = stats.UnknownOpcodes[pkt.id] + u]
<1>1. b \in Nat /\ d \in Nat /\ n \in Nat /\ u \in Nat
  BY DEF One
<1> HIDE DEF b, d, n
<1>2. stats.UnknownOpcodes \in [0 .. 127 -> Nat]
  BY DEF StatsType
<1>3. \A op \in 0 .. 127 :
        U[op] = stats.UnknownOpcodes[op] + One(pkt.id = op /\ op \notin OpcodeNames)
  <2>1. SUFFICES ASSUME NEW op \in 0 .. 127
                 PROVE  U[op] = stats.UnknownOpcodes[op] + One(pkt.id = op /\ op \notin OpcodeNames)
    OBVIOUS
  <2>2. CASE pkt.id = op
    BY <1>2, <2>2 DEF One
  <2>3. CASE pkt.id # op
    BY <1>2, <2>3 DEF One
  <2>4. QED BY <2>2, <2>3
<1> HIDE DEF u
<1>4. U \in [0 .. 127 -> Nat]
  <2>1. \A op \in 0 .. 127 : U[op] \in Nat
    BY <1>1, <1>2, <1>3 DEF One
  <2>2. U = [op \in 0 .. 127 |-> U[op]]
    BY <1>2
  <2> HIDE DEF U
  <2>3. QED BY <2>1, <2>2
<1>5. Count7(pkt) = [stats EXCEPT !.PKT7Count = stats.PKT7Count + 1,
                                  !.BarrierPackets = stats.BarrierPackets + b,
                                  !.DrawPackets = stats.DrawPackets + d,
                                  !.NOPPackets = stats.NOPPackets + n,
                                  !.UnknownOpcodes = U]
  <2>1. Count7(pkt) = [stats EXCEPT !.PKT7Count = @ + 1,
                                    !.BarrierPackets = @ + b,
                                    !.DrawPackets = @ + d,
                                    !.NOPPackets = @ + n,
                                    !.UnknownOpcodes[pkt.id] = @ + u]
    BY DEF Count7, b, d, n, u
  <2>2. QED BY <2>1 DEF StatsType
<1>6. /\ stats.PKT7Count + 1 \in Nat
      /\ stats.BarrierPackets + b \in Nat
      /\ stats.DrawPackets + d \in Nat
      /\ stats.NOPPackets + n \in Nat
  BY <1>1 DEF StatsType
<1> HIDE DEF U
<1> DEFINE s == Count7(pkt)
           p1 == stats.PKT7Count + 1
           b1 == stats.BarrierPackets + b
           d1 == stats.DrawPackets + d
           n1 == stats.NOPPackets + n
<1>8. /\ s = [stats EXCEPT !.PKT7Count = p1, !.BarrierPackets = b1, !.DrawPackets = d1,
                           !.NOPPackets = n1, !.UnknownOpcodes = U]
      /\ p1 \in Nat /\ b1 \in Nat /\ d1 \in Nat /\ n1 \in Nat
  BY <1>5, <1>6
<1> HIDE DEF s, p1, b1, d1, n1
<1>9. /\ s \in StatsType
      /\ s.TotalDwords = stats.TotalDwords
      /\ s.PKT4Count = stats.PKT4Count
      /\ s.PKT7Count = p1
      /\ s.RegWrites = stats.RegWrites
      /\ s.A8XXRegWrites = stats.A8XXRegWrites
      /\ s.BarrierPackets = b1
      /\ s.DrawPackets = d1
      /\ s.NOPPackets = n1
      /\ s.UnknownOpcodes = U
  BY <1>4, <1>8 DEF StatsType
<1>10. QED BY <1>3, <1>9 DEF s, p1, b1, d1, n1, b, d, n

LEMMA SumType ==
  ASSUME NEW s \in StatsType, NEW t \in StatsType
  PROVE  /\ Sum(s, t) \in StatsType
         /\ \A c \in DOMAIN NoStats \ {"UnknownOpcodes"} : Sum(s, t)[c] = s[c] + t[c]
         /\ \A op \in 0 .. 127 :
               Sum(s, t).UnknownOpcodes[op] = s.UnknownOpcodes[op] + t.UnknownOpcodes[op]
<1> DEFINE U == [op \in 0 .. 127 |-> s.UnknownOpcodes[op] + t.UnknownOpcodes[op]]
           names == {"TotalDwords", "TotalPackets", "PKT4Count", "PKT7Count", "RegWrites",
                     "A8XXRegWrites", "BarrierPackets", "DrawPackets", "NOPPackets",
                     "UnknownOpcodes"}
           f == [c \in names |-> IF c = "UnknownOpcodes" THEN U ELSE s[c] + t[c]]
<1>1. DOMAIN s = names /\ DOMAIN s.UnknownOpcodes = 0 .. 127
  BY DEF StatsType
<1>2. DOMAIN NoStats = names
  BY DEF NoStats
<1>3. Sum(s, t) = f
  <2> HIDE DEF names
  <2>1. QED BY <1>1 DEF Sum
<1>4. U \in [0 .. 127 -> Nat]
  <2> DEFINE g == s.UnknownOpcodes
             h == t.UnknownOpcodes
  <2>1. g \in [0 .. 127 -> Nat] /\ h \in [0 .. 127 -> Nat]
    BY DEF StatsType
  <2>2. U = [op \in 0 .. 127 |-> g[op] + h[op]]
    OBVIOUS
  <2> HIDE DEF U, g, h
  <2>3. \A op \in 0 .. 127 : g[op] + h[op] \in Nat
    BY <2>1
  <2>4. QED BY <2>2, <2>3
<1>5. \A c \in names \ {"UnknownOpcodes"} : s[c] \in Nat /\ t[c] \in Nat
  BY DEF StatsType
<1> HIDE DEF U
<1>6. f.UnknownOpcodes = U /\ \A c \in names \ {"UnknownOpcodes"} : f[c] = s[c] + t[c]
  OBVIOUS
<1>7. f = [TotalDwords |-> f.TotalDwords, TotalPackets |-> f.TotalPackets,
           PKT4Count |-> f.PKT4Count, PKT7Count |-> f.PKT7Count, RegWrites |-> f.RegWrites,
           A8XXRegWrites |-> f.A8XXRegWrites, BarrierPackets |-> f.BarrierPackets,
           DrawPackets |-> f.DrawPackets, NOPPackets |-> f.NOPPackets,
           UnknownOpcodes |-> f.UnknownOpcodes]
  OBVIOUS
<1>8. \A c \in names \ {"UnknownOpcodes"} : f[c] \in Nat
  BY <1>5, <1>6
<1>9. f \in StatsType
  <2> DEFINE g(c) == f[c]
  <2>1. /\ f.TotalDwords \in Nat /\ f.TotalPackets \in Nat /\ f.PKT4Count \in Nat
        /\ f.PKT7Count \in Nat /\ f.RegWrites \in Nat /\ f.A8XXRegWrites \in Nat
        /\ f.BarrierPackets \in Nat /\ f.DrawPackets \in Nat /\ f.NOPPackets \in Nat
        /\ f.UnknownOpcodes \in [0 .. 127 -> Nat]
    BY <1>4, <1>6, <1>8
  <2> HIDE DEF f
  <2>2. QED BY <1>7, <2>1 DEF StatsType
<1>10. \A op \in 0 .. 127 : f.UnknownOpcodes[op] = s.UnknownOpcodes[op] + t.UnknownOpcodes[op]
  BY <1>6 DEF U
<1> HIDE DEF f, names
<1>11. QED BY <1>2, <1>3, <1>6, <1>9, <1>10

\* The statistics Decode and the submission begin with.
LEMMA FreshType ==
  ASSUME NEW d \in Seq(Nat)
  PROVE  NoStats \in StatsType /\ FreshStats(d) \in StatsType
<1>1. NoStats \in StatsType
  BY DEF NoStats, StatsType
<1>2. Len(d) \in Nat
  BY LenProperties
<1>3. ASSUME NEW n \in Nat PROVE [NoStats EXCEPT !.TotalDwords = n] \in StatsType
  BY <1>1 DEF StatsType
<1>4. QED BY <1>1, <1>2, <1>3 DEF FreshStats

\* A loose dword at the decoder's place is skipped.
Skips(k) ==
  /\ program[k].type = "LOOSE"
  /\ Start(program, k) <= i
  /\ i < Start(program, k + 1)
  /\ i < Len(dwords)
  /\ i' = i + 1
  /\ UNCHANGED <<submission, dumps, packets, stats, returned, total, merged>>

\* What a step does.
LEMMA Steps ==
  ASSUME Types, InStep, [Next]_vars
  PROVE  \/ \E k \in 1 .. Len(program) : Takes(k)
         \/ \E k \in 1 .. Len(program) : Skips(k)
         \/ Return
         \/ Merge
         \/ NextEntry
         \/ UNCHANGED vars
<1>1. CASE TakeType4 \/ TakeType7
  BY <1>1, TakeFacts
<1>2. CASE SkipWord
  <2>1. PICK k \in 1 .. Len(program) :
            /\ program[k].type = "LOOSE"
            /\ Start(program, k) <= i
            /\ i < Start(program, k + 1)
    BY <1>2, SkipFacts
  <2>2. Skips(k)
    BY <1>2, <2>1 DEF SkipWord, Skips
  <2>3. QED BY <2>2
<1>3. CASE UNCHANGED vars
  BY <1>3
<1>4. QED BY <1>1, <1>2, <1>3 DEF Next, Terminated

\* Only NextEntry changes what is decoded.
LEMMA SameEntry ==
  ASSUME UNCHANGED <<submission, dumps>>
  PROVE  program' = program /\ dwords' = dwords
  BY DEF program, dwords

\* The first dump of an entry, and the place it is decoded from.
LEMMA FreshEntry ==
  ASSUME NEW s \in Seq(Piece), NEW d \in Dumps(s)
  PROVE  /\ d \in Seq(Nat)
         /\ FreshStats(d) \in StatsType
         /\ NoStats \in StatsType
         /\ 0 <= Len(Stream(s))
         /\ \A k \in 1 .. Len(s) : Start(s, k) \in Nat
         /\ DOMAIN s = 1 .. Len(s)
<1>1. d \in Seq(Nat) /\ Len(Stream(s)) \in Nat
  BY DumpFacts, StreamFacts, LenProperties
<1>2. \A k \in 1 .. Len(s) : k \in 1 .. Len(s) + 1
  BY LenProperties
<1>3. QED BY <1>1, <1>2, FreshType, StreamFacts, LenProperties

LEMMA TypesInit == Init => Types /\ InStep
<1> SUFFICES ASSUME Init PROVE Types /\ InStep
  OBVIOUS
<1>1. PICK dump \in Dumps(submission[1]) : dumps = <<dump>> /\ stats = FreshStats(dump)
  BY DEF Init
<1>2. /\ submission \in Submissions /\ i = 0 /\ packets = <<>> /\ returned = FALSE
      /\ total = NoStats /\ merged = FALSE
  BY DEF Init
<1>3. submission \in Seq(Seq(Piece)) /\ submission # <<>>
  BY <1>2, DecoderAssumption DEF DecoderAssumption
<1>4. Len(submission) \in Nat /\ 1 \in 1 .. Len(submission) /\ submission[1] \in Seq(Piece)
  <2>1. Len(submission) \in Nat /\ Len(submission) # 0
    BY <1>3, EmptySeq, LenProperties
  <2>2. 1 \in 1 .. Len(submission)
    BY <2>1
  <2>3. QED BY <1>3, <2>1, <2>2, ElementOfSeq
<1> DEFINE s == submission[1]
<1>5. /\ dump \in Seq(Nat) /\ stats \in StatsType /\ total \in StatsType
      /\ 0 <= Len(Stream(s)) /\ \A k \in 1 .. Len(s) : Start(s, k) \in Nat
      /\ DOMAIN s = 1 .. Len(s)
  BY <1>1, <1>2, <1>4, FreshEntry
<1>6. dumps \in Seq(Seq(Nat)) /\ Len(dumps) = 1 /\ dumps[1] = dump
  BY <1>1, <1>5
<1>7. packets \in Seq(PacketType) /\ Len(packets) = 0
  BY <1>2, EmptySeq
<1>8. Types
  <2>1. \A e \in 1 .. Len(dumps) : dumps[e] \in Dumps(submission[e])
    BY <1>1, <1>6
  <2>2. i \in Nat
    BY <1>2
  <2>3. \A k \in 1 .. Len(packets) : Len(packets[k].payload) <= packets[k].count
    BY <1>7
  <2>4. QED BY <1>2, <1>4, <1>5, <1>6, <1>7, <2>1, <2>2, <2>3 DEF Types
<1>9. InStep
  <2>1. program = s
    BY <1>6 DEF program
  <2> HIDE DEF s
  <2>2. \A k \in 1 .. Len(s) : ~(Start(s, k) < 0)
    BY <1>5
  <2>3. QED BY <1>2, <1>5, <2>1, <2>2 DEF InStep
<1>10. QED BY <1>8, <1>9

LEMMA TypesNext == Types /\ InStep /\ [Next]_vars => Types' /\ InStep'
<1> SUFFICES ASSUME Types, InStep, [Next]_vars PROVE Types' /\ InStep'
  OBVIOUS
<1> DEFINE N == Len(program)
           at(k) == Start(program, k)
<1>1. /\ program \in Seq(Piece) /\ N \in Nat /\ DOMAIN program = 1 .. N
      /\ i \in Nat /\ Len(dwords) \in Nat
      /\ submission \in Seq(Seq(Piece)) /\ Len(submission) \in Nat
      /\ Len(dumps) \in Nat /\ Len(dumps) >= 1
  BY EntryFacts DEF Types
<1>2. /\ \A k \in 1 .. N + 1 : at(k) \in Nat
      /\ at(N + 1) = Len(Stream(program))
      /\ \A j, k \in 1 .. N + 1 : j <= k => at(j) <= at(k)
  BY <1>1, StreamFacts, StartsGrow
<1>3. ASSUME NEW k \in 1 .. N, Takes(k) PROVE Types' /\ InStep'
  <2> DEFINE pkt == Intended(k)
  <2>1. /\ program[k].type # "LOOSE" /\ at(k) = i /\ i < Len(dwords) /\ i' = at(k + 1)
        /\ packets' = Append(packets, pkt) /\ pkt \in PacketType
        /\ UNCHANGED <<submission, dumps, returned, total, merged>>
        /\ stats' \in {Count4(pkt), Count7(pkt)}
        /\ Len(pkt.payload) <= Len(program[k].payload)
    <3>1. Len(program[k].payload) \in Nat
      BY <1>1, <1>3, PacketsTakeRoom DEF Takes
    <3> HIDE DEF pkt
    <3>2. QED BY <1>1, <1>3, <3>1 DEF Takes, pkt
  <2>2. pkt.count = Len(program[k].payload)
    BY DEF Intended, Packet
  <2>3. k + 1 \in 1 .. N + 1 /\ k \in 1 .. N + 1
    BY <1>1
  <2> HIDE DEF pkt, at
  <2>4. packets' \in Seq(PacketType) /\ Len(packets') = Len(packets) + 1
        /\ \A j \in 1 .. Len(packets) : packets'[j] = packets[j]
        /\ packets'[Len(packets) + 1] = pkt
    BY <2>1, AppendProperties DEF Types
  <2>5. \A j \in 1 .. Len(packets') : Len(packets'[j].payload) <= packets'[j].count
    <3>1. SUFFICES ASSUME NEW j \in 1 .. Len(packets')
                   PROVE  Len(packets'[j].payload) <= packets'[j].count
      OBVIOUS
    <3>2. Len(packets) \in Nat
      BY LenProperties DEF Types
    <3>3. CASE j = Len(packets) + 1
      BY <2>1, <2>2, <2>4, <3>3
    <3>4. CASE j # Len(packets) + 1
      <4>1. j \in 1 .. Len(packets)
        BY <2>4, <3>2, <3>4
      <4>2. QED BY <2>4, <4>1 DEF Types
    <3>5. QED BY <3>3, <3>4
  <2>6. stats' \in StatsType
    BY <2>1, Count4Facts, Count7Facts DEF Types
  <2>7. i' \in Nat /\ i' <= Len(Stream(program))
    <3>1. k + 1 <= N + 1 /\ N + 1 \in 1 .. N + 1
      BY <1>1, <2>3
    <3>2. QED BY <1>2, <2>1, <2>3, <3>1
  <2>8. Types'
    BY <2>1, <2>4, <2>5, <2>6, <2>7 DEF Types
  <2>9. ASSUME NEW j \in 1 .. N, program[j].type # "LOOSE"
        PROVE  ~(at(j) < i' /\ i' < at(j + 1))
    <3>1. j + 1 \in 1 .. N + 1 /\ j \in 1 .. N + 1
      BY <1>1
    <3>2. CASE j <= k
      <4>1. j + 1 <= k + 1
        BY <1>1, <3>2
      <4>2. at(j + 1) <= at(k + 1)
        BY <1>2, <2>3, <3>1, <4>1
      <4>3. at(j + 1) \in Nat /\ at(k + 1) \in Nat
        BY <1>2, <2>3, <3>1
      <4>4. QED BY <2>1, <4>2, <4>3
    <3>3. CASE ~(j <= k)
      <4>1. k + 1 <= j
        BY <1>1, <3>3
      <4>2. at(k + 1) <= at(j)
        BY <1>2, <2>3, <3>1, <4>1
      <4>3. at(j) \in Nat /\ at(k + 1) \in Nat
        BY <1>2, <2>3, <3>1
      <4>4. QED BY <2>1, <4>2, <4>3
    <3>4. QED BY <3>2, <3>3
  <2>10. ~returned /\ ~merged
    BY <1>1, <2>1 DEF InStep
  <2>11. program' = program /\ dwords' = dwords
    BY <2>1, SameEntry
  <2>12. InStep'
    BY <1>1, <2>1, <2>7, <2>9, <2>10, <2>11 DEF InStep, at
  <2>13. QED BY <2>8, <2>12
<1>4. ASSUME NEW k \in 1 .. N, Skips(k) PROVE Types' /\ InStep'
  <2>1. /\ program[k].type = "LOOSE" /\ at(k) <= i /\ i < at(k + 1) /\ i < Len(dwords) /\ i' = i + 1
        /\ UNCHANGED <<submission, dumps, packets, stats, returned, total, merged>>
    BY <1>4 DEF Skips
  <2>2. k + 1 \in 1 .. N + 1 /\ k \in 1 .. N + 1
    BY <1>1
  <2> HIDE DEF at
  <2>3. i' \in Nat /\ i' <= Len(Stream(program))
    <3>1. k + 1 <= N + 1 /\ N + 1 \in 1 .. N + 1
      BY <1>1, <2>2
    <3>2. at(k + 1) <= at(N + 1)
      BY <1>2, <2>2, <3>1
    <3>3. QED BY <1>1, <1>2, <2>1, <2>2, <3>1, <3>2
  <2>4. Types'
    BY <2>1, <2>3 DEF Types
  <2>5. ASSUME NEW j \in 1 .. N, program[j].type # "LOOSE"
        PROVE  ~(at(j) < i' /\ i' < at(j + 1))
    <3>1. j + 1 \in 1 .. N + 1 /\ j \in 1 .. N + 1
      BY <1>1
    <3>2. CASE j < k
      <4>1. j + 1 <= k
        BY <1>1, <3>2
      <4>2. at(j + 1) <= at(k)
        BY <1>2, <2>2, <3>1, <4>1
      <4>3. at(j + 1) \in Nat /\ at(k) \in Nat
        BY <1>2, <2>2, <3>1
      <4>4. QED BY <1>1, <2>1, <4>2, <4>3
    <3>3. CASE k < j
      <4>1. k + 1 <= j
        BY <1>1, <3>3
      <4>2. at(k + 1) <= at(j)
        BY <1>2, <2>2, <3>1, <4>1
      <4>3. at(j) \in Nat /\ at(k + 1) \in Nat
        BY <1>2, <2>2, <3>1
      <4>4. QED BY <1>1, <2>1, <4>2, <4>3
    <3>4. j # k
      BY <2>1, <2>5
    <3>5. QED BY <1>1, <3>2, <3>3, <3>4
  <2>6. ~returned /\ ~merged
    BY <1>1, <2>1 DEF InStep
  <2>7. program' = program /\ dwords' = dwords
    BY <2>1, SameEntry
  <2>8. InStep'
    BY <1>1, <2>1, <2>3, <2>5, <2>6, <2>7 DEF InStep, at
  <2>9. QED BY <2>4, <2>8
<1>5. CASE Return
  <2>1. /\ stats' = [stats EXCEPT !.TotalPackets = Len(packets)]
        /\ returned' = TRUE /\ i >= Len(dwords)
        /\ UNCHANGED <<submission, dumps, i, packets, total, merged>>
    BY <1>5 DEF Return
  <2>2. stats' \in StatsType
    <3>1. Len(packets) \in Nat
      BY LenProperties DEF Types
    <3> DEFINE n == Len(packets)
    <3>2. n \in Nat /\ stats' = [stats EXCEPT !.TotalPackets = n]
      BY <2>1, <3>1
    <3> HIDE DEF n
    <3>3. QED BY <3>2 DEF Types, StatsType
  <2>3. program' = program /\ dwords' = dwords
    BY <2>1, SameEntry
  <2>4. Types'
    BY <2>1, <2>2 DEF Types
  <2>5. InStep'
    BY <2>1, <2>3 DEF InStep
  <2>6. QED BY <2>4, <2>5
<1>6. CASE Merge
  <2>1. /\ total' = Sum(total, stats) /\ merged' = TRUE /\ returned
        /\ UNCHANGED <<submission, dumps, i, packets, stats, returned>>
    BY <1>6 DEF Merge
  <2>2. total' \in StatsType
    BY <2>1, SumType DEF Types
  <2>3. program' = program /\ dwords' = dwords
    BY <2>1, SameEntry
  <2>4. Types'
    BY <2>1, <2>2 DEF Types
  <2>5. InStep'
    BY <2>1, <2>3 DEF InStep
  <2>6. QED BY <2>4, <2>5
<1>7. CASE NextEntry
  <2> DEFINE E == Len(dumps) + 1
             s == submission[E]
  <2>1. PICK dump \in Dumps(s) : dumps' = Append(dumps, dump) /\ stats' = FreshStats(dump)
    BY <1>7 DEF NextEntry
  <2>2. /\ Len(dumps) < Len(submission) /\ i' = 0 /\ packets' = <<>>
        /\ returned' = FALSE /\ merged' = FALSE
        /\ UNCHANGED <<submission, total>>
    BY <1>7 DEF NextEntry
  <2>3. E \in 1 .. Len(submission) /\ s \in Seq(Piece)
    <3>1. E \in 1 .. Len(submission)
      BY <1>1, <2>2
    <3>2. QED BY <1>1, <3>1, ElementOfSeq
  <2>4. /\ dump \in Seq(Nat) /\ stats' \in StatsType
        /\ 0 <= Len(Stream(s)) /\ \A k \in 1 .. Len(s) : Start(s, k) \in Nat
        /\ DOMAIN s = 1 .. Len(s)
    BY <2>1, <2>3, FreshEntry
  <2>5. /\ dumps' \in Seq(Seq(Nat)) /\ Len(dumps') = E
        /\ \A e \in 1 .. Len(dumps) : dumps'[e] = dumps[e]
        /\ dumps'[E] = dump
    BY <2>1, <2>4, AppendProperties DEF Types
  <2>6. \A e \in 1 .. Len(dumps') : dumps'[e] \in Dumps(submission[e])
    <3>1. \A e \in 1 .. Len(dumps') : e = E \/ e \in 1 .. Len(dumps)
      BY <1>1, <2>5
    <3>2. QED BY <2>1, <2>5, <3>1 DEF Types
  <2>7. packets' \in Seq(PacketType) /\ Len(packets') = 0
    BY <2>2, EmptySeq
  <2>8. program' = s
    BY <2>2, <2>5 DEF program
  <2> HIDE DEF s, E
  <2>9. Types'
    <3>1. i' \in Nat /\ returned' \in BOOLEAN /\ merged' \in BOOLEAN
      BY <2>2
    <3>2. \A k \in 1 .. Len(packets') : Len(packets'[k].payload) <= packets'[k].count
      BY <2>7
    <3>3. QED BY <2>2, <2>3, <2>4, <2>5, <2>6, <2>7, <3>1, <3>2 DEF Types
  <2>10. \A k \in 1 .. Len(s) : ~(Start(s, k) < 0)
    BY <2>4
  <2>11. InStep'
    BY <2>2, <2>4, <2>8, <2>10 DEF InStep
  <2>12. QED BY <2>9, <2>11
<1>8. CASE UNCHANGED vars
  BY <1>8 DEF Types, InStep, vars, program, dwords
<1>9. QED BY <1>3, <1>4, <1>5, <1>6, <1>7, <1>8, Steps

LEMMA TypesInvariant == Spec => [](Types /\ InStep)
  BY TypesInit, TypesNext, PTL DEF Spec

\* Whatever the dwords, the decoder's results have their types.
THEOREM DecoderTypeCorrect == Spec => []TypeOK
<1>1. Types => TypeOK
  <2> SUFFICES ASSUME Types PROVE TypeOK
    OBVIOUS
  <2>1. \A k \in DOMAIN packets : packets[k] \in PacketType /\ k \in 1 .. Len(packets)
    BY ElementOfSeq, LenProperties DEF Types
  <2>2. \A k \in DOMAIN packets :
           /\ packets[k].type \in {"PKT4", "PKT7", "IB"}
           /\ Len(packets[k].payload) <= packets[k].count
    BY <2>1 DEF PacketType, Types
  <2>3. \A c \in DOMAIN NoStats \ {"UnknownOpcodes"} : stats[c] \in Nat /\ total[c] \in Nat
    BY DEF Types, StatsType, NoStats
  <2>4. QED BY <2>2, <2>3 DEF Types, TypeOK
<1>2. QED BY <1>1, TypesInvariant, PTL

-----------------------------------------------------------------------------
(* Torn packets *)

\* Only the last packet can lack payload, and then the decoder has passed the
\* end of the dump.
Torn ==
  \A k \in 1 .. Len(packets) :
     Len(packets[k].payload) < packets[k].count => k = Len(packets) /\ i > Len(dwords)

LEMMA TornNext == Types /\ InStep /\ Torn /\ [Next]_vars => Torn'
<1> SUFFICES ASSUME Types, InStep, Torn, [Next]_vars PROVE Torn'
  OBVIOUS
<1>1. /\ Len(packets) \in Nat /\ Len(dwords) \in Nat /\ i \in Nat
      /\ \A k \in 1 .. Len(packets) : Len(packets[k].payload) <= packets[k].count
  BY EntryFacts, LenProperties DEF Types
<1>2. ASSUME NEW k \in 1 .. Len(program), Takes(k) PROVE Torn'
  <2> DEFINE pkt == Intended(k)
             n == Len(program[k].payload)
  <2>1. /\ i < Len(dwords) /\ packets' = Append(packets, pkt) /\ pkt \in PacketType
        /\ i' = Start(program, k + 1)
        /\ Len(pkt.payload) = IF n <= Len(dwords) - i - 1 THEN n ELSE Len(dwords) - i - 1
        /\ UNCHANGED <<submission, dumps>>
    BY <1>2 DEF Takes
  <2>2. i' = i + 1 + n /\ n \in Nat
    BY <1>2, EntryFacts, PacketsTakeRoom DEF Takes
  <2>3. pkt.count = n
    BY DEF Intended, Packet
  <2>4. dwords' = dwords
    BY <2>1, SameEntry
  <2> HIDE DEF pkt, n
  <2>5. /\ Len(packets') = Len(packets) + 1
        /\ \A j \in 1 .. Len(packets) : packets'[j] = packets[j]
        /\ packets'[Len(packets) + 1] = pkt
    BY <2>1, AppendProperties DEF Types
  <2>6. SUFFICES ASSUME NEW j \in 1 .. Len(packets'),
                        Len(packets'[j].payload) < packets'[j].count
                 PROVE  j = Len(packets') /\ i' > Len(dwords')
    BY DEF Torn
  <2>7. CASE j = Len(packets) + 1
    <3>1. Len(pkt.payload) < n
      BY <2>3, <2>5, <2>6, <2>7
    <3>2. ~(n <= Len(dwords) - i - 1)
      BY <2>1, <2>2, <3>1
    <3>3. i' > Len(dwords)
      BY <1>1, <2>2, <3>2
    <3>4. QED BY <2>4, <2>5, <2>7, <3>3
  <2>8. CASE j # Len(packets) + 1
    <3>1. j \in 1 .. Len(packets)
      BY <1>1, <2>5, <2>8
    <3>2. i > Len(dwords)
      BY <2>5, <2>6, <3>1 DEF Torn
    <3>3. QED BY <1>1, <2>1, <3>2
  <2>9. QED BY <2>7, <2>8
<1>3. ASSUME NEW k \in 1 .. Len(program), Skips(k) PROVE Torn'
  <2>1. i < Len(dwords) /\ i' = i + 1 /\ UNCHANGED <<submission, dumps, packets>>
    BY <1>3 DEF Skips
  <2>2. dwords' = dwords
    BY <2>1, SameEntry
  <2>3. \A j \in 1 .. Len(packets) : ~(Len(packets[j].payload) < packets[j].count)
    BY <1>1, <2>1 DEF Torn
  <2>4. QED BY <2>1, <2>2, <2>3 DEF Torn
<1>4. CASE Return \/ Merge \/ UNCHANGED vars
  <2>1. UNCHANGED <<submission, dumps, i, packets>>
    BY <1>4 DEF Return, Merge, vars
  <2>2. dwords' = dwords
    BY <2>1, SameEntry
  <2>3. QED BY <2>1, <2>2 DEF Torn
<1>5. CASE NextEntry
  <2>1. packets' = <<>>
    BY <1>5 DEF NextEntry
  <2>2. QED BY <2>1 DEF Torn
<1>6. QED BY <1>2, <1>3, <1>4, <1>5, Steps

LEMMA TornInvariant == Spec => []Torn
<1>1. Init => Torn
  BY DEF Init, Torn
<1>2. Spec => [](Types /\ InStep)
  BY TypesInvariant
<1>3. QED BY <1>1, <1>2, TornNext, PTL DEF Spec

\* Of what a submission decodes to, String panics for nothing but a write of one
\* register at the end of a dump that lacks its value.
THEOREM OnlyTornPanics == Spec => []OnlyTornPacketPanics
<1>1. Types /\ InStep /\ Torn => OnlyTornPacketPanics
  <2> SUFFICES ASSUME Types, InStep, Torn, NEW k \in DOMAIN packets, StringPanics(packets[k])
               PROVE  k = Len(packets) /\ i > Len(dwords) /\ Len(dwords) < Len(Stream(program))
    BY DEF OnlyTornPacketPanics
  <2>1. k \in 1 .. Len(packets)
    BY LenProperties DEF Types
  <2>2. Len(packets[k].payload) < packets[k].count
    BY DEF StringPanics
  <2>3. k = Len(packets) /\ i > Len(dwords)
    BY <2>1, <2>2 DEF Torn
  <2>4. /\ i <= Len(Stream(program)) /\ i \in Nat
        /\ Len(dwords) \in Nat /\ Len(Stream(program)) \in Nat
    BY EntryFacts, StreamFacts, LenProperties DEF InStep, Types
  <2>5. QED BY <2>3, <2>4
<1>2. QED BY <1>1, TypesInvariant, TornInvariant, PTL

-----------------------------------------------------------------------------
(* What is decoded is what was built *)

\* A packet that is taken follows those that were, and nothing else does.
LEMMA TakePasses ==
  ASSUME Types, InStep, NEW k \in 1 .. Len(program), Takes(k)
  PROVE  /\ Passed' = Passed \union {k}
         /\ k \notin Passed
         /\ \A j \in Passed : j < k
         /\ Passed \subseteq 1 .. Len(program)
<1> DEFINE N == Len(program)
           at(j) == Start(program, j)
<1>1. /\ program \in Seq(Piece) /\ N \in Nat /\ DOMAIN program = 1 .. N
      /\ i \in Nat /\ Len(dwords) \in Nat
  BY EntryFacts DEF Types
<1>2. /\ \A j \in 1 .. N + 1 : at(j) \in Nat
      /\ \A j, l \in 1 .. N + 1 : j <= l => at(j) <= at(l)
  BY <1>1, StreamFacts, StartsGrow
<1>3. \A j \in 1 .. N : program[j].type # "LOOSE" => at(j) < at(j + 1)
  <2>1. SUFFICES ASSUME NEW j \in 1 .. N, program[j].type # "LOOSE" PROVE at(j) < at(j + 1)
    OBVIOUS
  <2> DEFINE a == at(j)
             b == at(j + 1)
             n == Len(program[j].payload)
  <2>2. a \in Nat /\ n \in Nat /\ b = a + 1 + n
    BY <1>1, <2>1, PacketsTakeRoom
  <2> HIDE DEF a, b, n
  <2>3. a < b
    BY <2>2
  <2>4. QED BY <2>3 DEF a, b
<1>4. /\ program[k].type # "LOOSE" /\ at(k) = i /\ i < Len(dwords) /\ i' = at(k + 1)
      /\ program' = program /\ dwords' = dwords
  BY SameEntry DEF Takes
<1>5. Passed = {j \in 1 .. N : program[j].type # "LOOSE" /\ at(j) < i /\ at(j) < Len(dwords)}
  BY <1>1 DEF Passed
<1>6. Passed' = {j \in 1 .. N : /\ program[j].type # "LOOSE"
                                /\ at(j) < at(k + 1) /\ at(j) < Len(dwords)}
  BY <1>1, <1>4 DEF Passed
<1> HIDE DEF at
<1>7. k \in 1 .. N + 1 /\ k + 1 \in 1 .. N + 1
  BY <1>1
<1>8. at(k) < at(k + 1) /\ at(k + 1) \in Nat
  BY <1>2, <1>3, <1>4, <1>7
<1>9. ASSUME NEW j \in 1 .. N, program[j].type # "LOOSE"
      PROVE  /\ at(j) \in Nat
             /\ j < k => at(j) < i
             /\ k < j => ~(at(j) < at(k + 1)) /\ ~(at(j) < i)
  <2>1. j \in 1 .. N + 1 /\ j + 1 \in 1 .. N + 1
    BY <1>1
  <2>2. at(j) \in Nat /\ at(j + 1) \in Nat /\ at(j) < at(j + 1)
    BY <1>2, <1>3, <1>9, <2>1
  <2>3. ASSUME j < k PROVE at(j) < i
    <3>1. j + 1 <= k
      BY <1>1, <2>3
    <3>2. at(j + 1) <= at(k)
      BY <1>2, <1>7, <2>1, <3>1
    <3>3. QED BY <1>1, <1>4, <2>2, <3>2
  <2>4. ASSUME k < j PROVE ~(at(j) < at(k + 1)) /\ ~(at(j) < i)
    <3>1. k + 1 <= j
      BY <1>1, <2>4
    <3>2. at(k + 1) <= at(j)
      BY <1>2, <1>7, <2>1, <3>1
    <3>3. QED BY <1>1, <1>4, <1>8, <2>2, <3>2
  <2>5. QED BY <2>2, <2>3, <2>4
<1>10. k \notin Passed
  BY <1>1, <1>4, <1>5
<1>11. \A j \in Passed : j < k
  <2>1. SUFFICES ASSUME NEW j \in Passed PROVE j < k
    OBVIOUS
  <2>2. j \in 1 .. N /\ program[j].type # "LOOSE" /\ at(j) < i
    BY <1>5
  <2>3. j # k /\ ~(k < j)
    BY <1>9, <1>10, <2>2
  <2>4. QED BY <1>1, <2>2, <2>3
<1>12. Passed' = Passed \union {k}
  <2>1. ASSUME NEW j \in Passed' PROVE j \in Passed \union {k}
    <3>1. j \in 1 .. N /\ program[j].type # "LOOSE" /\ at(j) < at(k + 1) /\ at(j) < Len(dwords)
      BY <1>6, <2>1
    <3>2. ~(k < j)
      BY <1>9, <3>1
    <3>3. j < k \/ j = k
      BY <1>1, <3>1, <3>2
    <3>4. j < k => at(j) < i
      BY <1>9, <3>1
    <3>5. QED BY <1>5, <3>1, <3>3, <3>4
  <2>2. ASSUME NEW j \in Passed PROVE j \in Passed'
    <3>1. j \in 1 .. N /\ program[j].type # "LOOSE" /\ at(j) < i /\ at(j) < Len(dwords)
      BY <1>5, <2>2
    <3>2. at(j) < at(k + 1)
      BY <1>1, <1>4, <1>8, <1>9, <3>1
    <3>3. QED BY <1>6, <3>1, <3>2
  <2>3. k \in Passed'
    BY <1>4, <1>6, <1>8
  <2>4. QED BY <2>1, <2>2, <2>3
<1>13. QED BY <1>5, <1>10, <1>11, <1>12

\* No packet starts at a dword that is skipped.
LEMMA SkipPasses ==
  ASSUME Types, InStep, NEW k \in 1 .. Len(program), Skips(k)
  PROVE  Passed' = Passed
<1> DEFINE N == Len(program)
           at(j) == Start(program, j)
<1>1. /\ program \in Seq(Piece) /\ N \in Nat /\ DOMAIN program = 1 .. N
      /\ i \in Nat /\ Len(dwords) \in Nat
  BY EntryFacts DEF Types
<1>2. /\ \A j \in 1 .. N + 1 : at(j) \in Nat
      /\ \A j, l \in 1 .. N + 1 : j <= l => at(j) <= at(l)
  BY <1>1, StreamFacts, StartsGrow
<1>3. /\ program[k].type = "LOOSE" /\ at(k) <= i /\ i < at(k + 1) /\ i < Len(dwords) /\ i' = i + 1
      /\ program' = program /\ dwords' = dwords
  BY SameEntry DEF Skips
<1>4. Passed = {j \in 1 .. N : program[j].type # "LOOSE" /\ at(j) < i /\ at(j) < Len(dwords)}
  BY <1>1 DEF Passed
<1>5. Passed' = {j \in 1 .. N : program[j].type # "LOOSE" /\ at(j) < i + 1 /\ at(j) < Len(dwords)}
  BY <1>1, <1>3 DEF Passed
<1>6. ASSUME NEW j \in 1 .. N, program[j].type # "LOOSE" PROVE at(j) \in Nat /\ at(j) # i
  <2> DEFINE a == at(j)
             b == at(j + 1)
             n == Len(program[j].payload)
  <2>1. a \in Nat /\ n \in Nat /\ b = a + 1 + n
    BY <1>1, <1>6, PacketsTakeRoom
  <2> HIDE DEF a, b, n
  <2>2. a < b /\ a \in Nat /\ b \in Nat
    BY <2>1
  <2> HIDE DEF at
  <2>3. j \in 1 .. N + 1 /\ j + 1 \in 1 .. N + 1 /\ k \in 1 .. N + 1 /\ k + 1 \in 1 .. N + 1
    BY <1>1
  <2>4. j # k
    BY <1>3, <1>6
  <2>5. CASE j < k
    <3>1. j + 1 <= k
      BY <1>1, <2>5
    <3>2. b <= at(k) /\ at(k) \in Nat
      BY <1>2, <2>3, <3>1 DEF b
    <3>3. a # i
      BY <1>1, <1>3, <2>2, <3>2
    <3>4. QED BY <2>2, <3>3 DEF a
  <2>6. CASE k < j
    <3>1. k + 1 <= j
      BY <1>1, <2>6
    <3>2. at(k + 1) <= a /\ at(k + 1) \in Nat
      BY <1>2, <2>3, <3>1 DEF a
    <3>3. a # i
      BY <1>1, <1>3, <2>2, <3>2
    <3>4. QED BY <2>2, <3>3 DEF a
  <2>7. QED BY <2>4, <2>5, <2>6
<1> HIDE DEF at
<1>7. \A j \in 1 .. N : program[j].type # "LOOSE" => (at(j) < i + 1 <=> at(j) < i)
  BY <1>1, <1>6
<1>8. QED BY <1>4, <1>5, <1>7

\* Nothing of an entry is passed when it begins.
LEMMA NonePassed ==
  ASSUME NEW s \in Seq(Piece)
  PROVE  \A k \in DOMAIN s : ~(Start(s, k) < 0)
<1>1. \A k \in DOMAIN s : k \in 1 .. Len(s) + 1
  BY LenProperties
<1>2. \A k \in 1 .. Len(s) + 1 : Start(s, k) \in Nat
  BY StreamFacts
<1>3. QED BY <1>1, <1>2

LEMMA DecodedInit == Init => DecodesWhatWasBuilt
<1> SUFFICES ASSUME Init PROVE DecodesWhatWasBuilt
  OBVIOUS
<1>1. Types
  BY TypesInit
<1>2. i = 0 /\ packets = <<>>
  BY DEF Init
<1>3. Passed = {}
  BY <1>1, <1>2, EntryFacts, NonePassed DEF Passed
<1>4. QED BY <1>2, <1>3, FS_EmptySet DEF DecodesWhatWasBuilt

LEMMA DecodedNext ==
  Types /\ InStep /\ DecodesWhatWasBuilt /\ [Next]_vars => DecodesWhatWasBuilt'
<1> SUFFICES ASSUME Types, InStep, DecodesWhatWasBuilt, [Next]_vars PROVE DecodesWhatWasBuilt'
  OBVIOUS
<1> DEFINE rank(P, k) == Cardinality({j \in P : j <= k})
<1>1. ASSUME NEW k \in 1 .. Len(program), Takes(k) PROVE DecodesWhatWasBuilt'
  <2> DEFINE P == Passed
             Q == Passed'
             N == Len(program)
  <2>1. /\ Q = P \union {k} /\ k \notin P /\ P \subseteq 1 .. N
        /\ \A j \in P : j < k
    BY <1>1, TakePasses
  <2>2. packets' = Append(packets, Intended(k)) /\ Intended(k) \in PacketType
        /\ UNCHANGED <<submission, dumps>>
    BY <1>1 DEF Takes
  <2>3. \A j : Intended(j)' = Intended(j)
    <3>1. program' = program /\ dwords' = dwords
      BY <2>2, SameEntry
    <3>2. QED BY <3>1 DEF Intended
  <2>4. /\ Len(packets) = Cardinality(P)
        /\ \A j \in P : packets[rank(P, j)] = Intended(j)
    BY DEF DecodesWhatWasBuilt
  <2>5. N \in Nat
    BY EntryFacts
  <2>6. /\ Len(packets') = Len(packets) + 1
        /\ \A j \in 1 .. Len(packets) : packets'[j] = packets[j]
        /\ packets'[Len(packets) + 1] = Intended(k)
    BY <2>2, AppendProperties DEF Types
  <2> HIDE DEF P, Q, N
  <2>7. IsFiniteSet(P) /\ Cardinality(P) \in Nat /\ Cardinality(Q) = Cardinality(P) + 1
    <3>1. IsFiniteSet(1 .. N)
      BY <2>5, FS_Interval
    <3>2. IsFiniteSet(P)
      BY <2>1, <3>1, FS_Subset
    <3>3. QED BY <2>1, <3>2, FS_AddElement, FS_CardinalityType
  <2>8. ASSUME NEW j \in Q PROVE packets'[rank(Q, j)] = Intended(j)
    <3>1. \A l \in P : l \in Nat
      BY <2>1
    <3>2. CASE j = k
      <4>1. {l \in Q : l <= j} = Q
        <5>1. \A l \in Q : l <= j
          BY <2>1, <3>1, <3>2
        <5>2. QED BY <5>1
      <4>2. rank(Q, j) = Len(packets) + 1
        BY <2>4, <2>7, <4>1
      <4>3. QED BY <2>6, <3>2, <4>2
    <3>3. CASE j # k
      <4>1. j \in P
        BY <2>1, <2>8, <3>3
      <4>2. j < k /\ j \in Nat
        BY <2>1, <3>1, <4>1
      <4>3. {l \in Q : l <= j} = {l \in P : l <= j}
        <5>1. ~(k <= j)
          BY <4>2
        <5>2. QED BY <2>1, <5>1
      <4> DEFINE R == {l \in P : l <= j}
      <4>4. R \in SUBSET P /\ R # {}
        <5>1. j <= j
          BY <4>2
        <5>2. QED BY <4>1, <5>1
      <4>5. rank(Q, j) = Cardinality(R) /\ rank(P, j) = Cardinality(R)
        BY <4>3
      <4> HIDE DEF R
      <4>6. IsFiniteSet(R) /\ Cardinality(R) <= Cardinality(P)
        BY <2>7, <4>4, FS_Subset
      <4>7. Cardinality(R) \in Nat /\ Cardinality(R) # 0
        BY <4>4, <4>6, FS_EmptySet, FS_CardinalityType
      <4>8. Cardinality(R) \in 1 .. Len(packets)
        BY <2>4, <2>7, <4>6, <4>7
      <4>9. packets[Cardinality(R)] = Intended(j)
        BY <2>4, <4>1, <4>5
      <4>10. QED BY <2>6, <4>5, <4>8, <4>9
    <3>4. QED BY <3>2, <3>3
  <2>9. Len(packets') = Cardinality(Q)
    BY <2>4, <2>6, <2>7
  <2>10. QED BY <2>3, <2>8, <2>9 DEF DecodesWhatWasBuilt, Q
<1>2. CASE UNCHANGED <<submission, dumps, packets>> /\ Passed' = Passed
  <2>1. program' = program /\ dwords' = dwords
    BY <1>2, SameEntry
  <2>2. \A j : Intended(j)' = Intended(j)
    BY <2>1 DEF Intended
  <2>3. QED BY <1>2, <2>2 DEF DecodesWhatWasBuilt
<1>3. ASSUME NEW k \in 1 .. Len(program), Skips(k) PROVE DecodesWhatWasBuilt'
  BY <1>2, <1>3, SkipPasses DEF Skips
<1>4. CASE Return \/ Merge \/ UNCHANGED vars
  <2>1. UNCHANGED <<submission, dumps, packets, i>>
    BY <1>4 DEF Return, Merge, vars
  <2>2. program' = program /\ dwords' = dwords
    BY <2>1, SameEntry
  <2>3. Passed' = Passed
    BY <2>1, <2>2 DEF Passed
  <2>4. QED BY <1>2, <2>1, <2>3
<1>5. CASE NextEntry
  <2>1. i' = 0 /\ packets' = <<>>
    BY <1>5 DEF NextEntry
  <2>2. program' \in Seq(Piece)
    <3>1. PICK dump : dumps' = Append(dumps, dump)
      BY <1>5 DEF NextEntry
    <3>2. Len(dumps') = Len(dumps) + 1 /\ UNCHANGED submission /\ Len(dumps) < Len(submission)
      BY <1>5, <3>1, LenProperties DEF NextEntry, Types
    <3>3. Len(dumps) + 1 \in 1 .. Len(submission) /\ submission \in Seq(Seq(Piece))
      BY <3>2, EntryFacts
    <3>4. QED BY <3>2, <3>3, ElementOfSeq DEF program
  <2>3. Passed' = {}
    BY <2>1, <2>2, NonePassed DEF Passed
  <2>4. QED BY <2>1, <2>3, FS_EmptySet DEF DecodesWhatWasBuilt
<1>6. QED BY <1>1, <1>3, <1>4, <1>5, Steps

\* Whatever is submitted, wherever the dumps end: the packets found are those
\* the streams were built from.
THEOREM DecodingIsExact == Spec => []DecodesWhatWasBuilt
<1>1. Spec => [](Types /\ InStep)
  BY TypesInvariant
<1>2. QED BY <1>1, DecodedInit, DecodedNext, PTL DEF Spec

-----------------------------------------------------------------------------
(* Sums over the packets *)

\* The sums of the first numbers, one after the other.
PartialSums(nums) ==
  {f \in [0 .. Len(nums) -> Nat] :
      /\ f[0] = 0
      /\ \A n \in 1 .. Len(nums) : f[n] = f[n - 1] + nums[n]}

LEMMA SumsExist ==
  ASSUME NEW nums \in Seq(Nat)
  PROVE  PartialSums(nums) # {}
<1> DEFINE N == Len(nums)
           step == [n \in 1 .. N |-> [q \in Nat |-> q + nums[n]]]
<1>1. N \in Nat /\ \A n \in 1 .. N : nums[n] \in Nat
  BY LenProperties, ElementOfSeq
<1>2. step \in [1 .. N -> [Nat -> Nat]]
  <2>1. \A n \in 1 .. N, q \in Nat : q + nums[n] \in Nat
    BY <1>1
  <2> HIDE DEF N
  <2>2. QED BY <2>1
<1>3. PICK f \in [0 .. N -> Nat] : IsIteration(f, N, 0, step)
  <2> HIDE DEF N, step
  <2>1. QED BY <1>1, <1>2, IterationExists
<1>4. ASSUME NEW n \in 1 .. N PROVE f[n] = f[n - 1] + nums[n]
  <2>1. n - 1 \in 0 .. N
    BY <1>1
  <2>2. f[n - 1] \in Nat /\ f[n] = step[n][f[n - 1]]
    BY <1>3, <2>1 DEF IsIteration
  <2>3. QED BY <2>2
<1>5. f[0] = 0
  BY <1>3 DEF IsIteration
<1>6. QED BY <1>3, <1>4, <1>5 DEF PartialSums

LEMMA TotalIsLast ==
  ASSUME NEW nums \in Seq(Nat), NEW f \in PartialSums(nums)
  PROVE  Total(nums) = f[Len(nums)]
<1> DEFINE N == Len(nums)
           Sums(g) == g = [n \in 0 .. N |-> IF n = 0 THEN 0 ELSE g[n - 1] + nums[n]]
           sum == CHOOSE g : Sums(g)
<1>1. /\ N \in Nat
      /\ f \in [0 .. N -> Nat] /\ f[0] = 0
      /\ \A n \in 1 .. N : f[n] = f[n - 1] + nums[n]
  BY LenProperties DEF PartialSums
<1>2. Sums(f)
  <2>1. \A n \in 0 .. N : f[n] = IF n = 0 THEN 0 ELSE f[n - 1] + nums[n]
    <3>1. \A n \in 0 .. N : n = 0 \/ n \in 1 .. N
      BY <1>1
    <3>2. QED BY <1>1, <3>1
  <2>2. QED BY <1>1, <2>1
<1>3. Sums(sum)
  <2> HIDE DEF Sums
  <2>1. QED BY <1>2
<1>4. Total(nums) = sum[N]
  BY DEF Total
<1> HIDE DEF sum
<1>5. \A n \in 0 .. N : sum[n] = IF n = 0 THEN 0 ELSE sum[n - 1] + nums[n]
  BY <1>3
<1> DEFINE S == {n \in Nat : n <= N => sum[n] = f[n]}
<1>6. 0 \in S
  BY <1>1, <1>5
<1>7. ASSUME NEW n \in Nat, n \in S PROVE n + 1 \in S
  <2>1. SUFFICES ASSUME n + 1 <= N PROVE sum[n + 1] = f[n + 1]
    OBVIOUS
  <2>2. n + 1 \in 1 .. N /\ n + 1 \in 0 .. N /\ n + 1 # 0 /\ (n + 1) - 1 = n /\ n <= N
    BY <1>1, <2>1
  <2>3. sum[n] = f[n]
    BY <1>7, <2>2
  <2>4. sum[n + 1] = sum[n] + nums[n + 1]
    BY <1>5, <2>2
  <2>5. f[n + 1] = f[n] + nums[n + 1]
    BY <1>1, <2>2
  <2>6. QED BY <2>3, <2>4, <2>5
<1>8. \A n \in Nat : n \in S
  <2> HIDE DEF S
  <2>1. QED BY <1>6, <1>7, NatSetInduction
<1>9. QED BY <1>1, <1>4, <1>8

\* One number more adds just that.
LEMMA TotalGrows ==
  /\ Total(<<>>) = 0
  /\ \A nums \in Seq(Nat) : \A v \in Nat : Total(Append(nums, v)) = Total(nums) + v
<1>1. Total(<<>>) = 0
  <2> DEFINE nothing == <<>>
  <2>1. nothing \in Seq(Nat) /\ Len(nothing) = 0
    BY EmptySeq
  <2> HIDE DEF nothing
  <2>2. PICK f \in PartialSums(nothing) : TRUE
    BY <2>1, SumsExist
  <2>3. Total(nothing) = f[0]
    BY <2>1, TotalIsLast
  <2>4. QED BY <2>2, <2>3 DEF PartialSums, nothing
<1>2. ASSUME NEW nums \in Seq(Nat), NEW v \in Nat PROVE Total(Append(nums, v)) = Total(nums) + v
  <2> DEFINE N == Len(nums)
             more == Append(nums, v)
  <2>1. PICK f \in PartialSums(nums) : TRUE
    BY SumsExist
  <2>2. /\ N \in Nat
        /\ f \in [0 .. N -> Nat] /\ f[0] = 0
        /\ \A n \in 1 .. N : f[n] = f[n - 1] + nums[n]
    BY LenProperties DEF PartialSums
  <2> DEFINE g == [n \in 0 .. N + 1 |-> IF n <= N THEN f[n] ELSE f[N] + v]
  <2>3. /\ more \in Seq(Nat) /\ Len(more) = N + 1
        /\ \A n \in 1 .. N : more[n] = nums[n]
        /\ more[N + 1] = v
    BY AppendProperties
  <2>4. \A n \in 0 .. N : f[n] \in Nat
    BY <2>2
  <2>5. f[N] + v \in Nat /\ N \in 0 .. N
    BY <2>2, <2>4
  <2> HIDE DEF N, more
  <2>6. g \in [0 .. N + 1 -> Nat]
    <3>1. \A n \in 0 .. N + 1 : n <= N => n \in 0 .. N
      BY <2>2
    <3>2. QED BY <2>4, <2>5, <3>1
  <2>7. g[0] = 0 /\ g[N + 1] = f[N] + v
    <3>1. 0 \in 0 .. N + 1 /\ 0 <= N /\ N + 1 \in 0 .. N + 1 /\ ~(N + 1 <= N)
      BY <2>2
    <3>2. QED BY <2>2, <3>1
  <2>8. ASSUME NEW n \in 1 .. N + 1 PROVE g[n] = g[n - 1] + more[n]
    <3>1. n - 1 \in 0 .. N + 1 /\ n - 1 <= N /\ n \in 0 .. N + 1
      BY <2>2
    <3>2. g[n - 1] = f[n - 1]
      BY <3>1
    <3>3. CASE n <= N
      <4>1. n \in 1 .. N
        BY <2>2, <3>3
      <4>2. g[n] = f[n] /\ f[n] = f[n - 1] + nums[n] /\ more[n] = nums[n]
        BY <2>2, <2>3, <3>1, <3>3, <4>1
      <4>3. QED BY <3>2, <4>2
    <3>4. CASE ~(n <= N)
      <4>1. n = N + 1 /\ n - 1 = N
        BY <2>2, <3>4
      <4>2. QED BY <2>3, <2>7, <3>2, <4>1
    <3>5. QED BY <3>3, <3>4
  <2> HIDE DEF g
  <2>9. g \in PartialSums(more)
    BY <2>3, <2>6, <2>7, <2>8 DEF PartialSums
  <2>10. Total(more) = g[N + 1]
    BY <2>3, <2>9, TotalIsLast
  <2>11. Total(nums) = f[N]
    BY TotalIsLast DEF N
  <2>12. QED BY <2>7, <2>10, <2>11 DEF more
<1>3. QED BY <1>1, <1>2

\* The sum of what a function gives for each packet.
SumOver(F, ps) == Total([k \in DOMAIN ps |-> F[ps[k]]])

LEMMA SumGrows ==
  ASSUME NEW F \in [PacketType -> Nat]
  PROVE  /\ SumOver(F, <<>>) = 0
         /\ \A ps \in Seq(PacketType) : \A p \in PacketType :
               SumOver(F, Append(ps, p)) = SumOver(F, ps) + F[p]
<1>1. SumOver(F, <<>>) = 0
  <2>1. [k \in DOMAIN <<>> |-> F[<<>>[k]]] = <<>>
    OBVIOUS
  <2>2. QED BY <2>1, TotalGrows DEF SumOver
<1>2. ASSUME NEW ps \in Seq(PacketType), NEW p \in PacketType
      PROVE  SumOver(F, Append(ps, p)) = SumOver(F, ps) + F[p]
  <2> DEFINE N == Len(ps)
             nums == [k \in 1 .. N |-> F[ps[k]]]
             more == Append(ps, p)
             v == F[p]
  <2>1. N \in Nat /\ DOMAIN ps = 1 .. N /\ \A k \in 1 .. N : ps[k] \in PacketType
    BY LenProperties, ElementOfSeq
  <2>2. v \in Nat /\ \A k \in 1 .. N : F[ps[k]] \in Nat
    BY <2>1
  <2>3. nums \in Seq(Nat) /\ Len(nums) = N
    <3> HIDE DEF N
    <3>1. QED BY <2>1, <2>2
  <2>4. /\ more \in Seq(PacketType) /\ Len(more) = N + 1
        /\ \A k \in 1 .. N : more[k] = ps[k]
        /\ more[N + 1] = p
    BY AppendProperties
  <2> HIDE DEF more, N
  <2>5. DOMAIN more = 1 .. N + 1
    BY <2>4, LenProperties
  <2> DEFINE w == [k \in 1 .. N + 1 |-> F[more[k]]]
             z == Append(nums, v)
  <2>6. w \in Seq(Nat) /\ Len(w) = N + 1
    <3>1. \A k \in 1 .. N + 1 : F[more[k]] \in Nat
      BY <2>4, ElementOfSeq
    <3>2. QED BY <2>1, <3>1
  <2>7. /\ z \in Seq(Nat) /\ Len(z) = N + 1
        /\ \A k \in 1 .. N : z[k] = nums[k]
        /\ z[N + 1] = v
    <3> HIDE DEF nums, v
    <3>1. QED BY <2>2, <2>3, AppendProperties
  <2>8. \A k \in 1 .. N + 1 : w[k] = z[k]
    <3>1. SUFFICES ASSUME NEW k \in 1 .. N + 1 PROVE w[k] = z[k]
      OBVIOUS
    <3>2. k \in 1 .. N \/ k = N + 1
      BY <2>1
    <3> HIDE DEF z
    <3>3. QED BY <2>4, <2>7, <3>2
  <2>9. w = z
    <3> HIDE DEF w, z
    <3>1. QED BY <2>6, <2>7, <2>8, SeqEqual
  <2> HIDE DEF nums, v
  <2>10. Total(z) = Total(nums) + v
    BY <2>2, <2>3, TotalGrows
  <2>11. SumOver(F, more) = Total(w)
    BY <2>5 DEF SumOver
  <2>12. SumOver(F, ps) = Total(nums)
    BY <2>1 DEF SumOver, nums
  <2>13. QED BY <2>9, <2>10, <2>11, <2>12 DEF more, v
<1>3. QED BY <1>1, <1>2

-----------------------------------------------------------------------------
(* The statistics of Decode and the recount of Summary *)

\* The generated tables: gen8 registers have names.
LEMMA Gen8HaveNames == IsA8XXRegister \subseteq RegNameByOffset
<1>1. CP \subseteq UNION {From0800, From0880, From0900}
  BY DEF CP, From0800, From0880, From0900, Spans
<1>2. CX \subseteq UNION {From0000, From0400}
  BY DEF CX, From0000, From0400, Spans
<1>3. DBGC \subseteq UNION {From0700}
  BY DEF DBGC, From0700, Spans
<1>4. GBIF \subseteq UNION {From3c00}
  BY DEF GBIF, From3c00, Spans
<1>5. GRAS \subseteq UNION {From8000, From8100, From8600}
  BY DEF GRAS, From8000, From8100, From8600, Spans
<1>6. PC \subseteq UNION {From9800}
  BY DEF PC, From9800, Spans
<1>7. RBBM \subseteq UNION {From0000, From0100, From0200, From0300,
                        From0380, From0400, From0500}
  BY DEF RBBM, From0000, From0100, From0200, From0300,
         From0380, From0400, From0500, Spans
<1>8. RB \subseteq UNION {From8800, From8900}
  BY DEF RB, From8800, From8900, Spans
<1>9. SP \subseteq UNION {Froma800, Froma980, Fromab00, Fromab80, Fromacc0}
  BY DEF SP, Froma800, Froma980, Fromab00, Fromab80, Fromacc0, Spans
<1>10. TPL1 \subseteq UNION {Fromacc0, Fromb600}
  BY DEF TPL1, Fromacc0, Fromb600, Spans
<1>11. UCHE \subseteq UNION {From0e00}
  BY DEF UCHE, From0e00, Spans
<1>12. VFD \subseteq UNION {Froma000}
  BY DEF VFD, Froma000, Spans
<1>13. VPC \subseteq UNION {From8900, From9200}
  BY DEF VPC, From8900, From9200, Spans
<1>14. VSC \subseteq UNION {From0c00}
  BY DEF VSC, From0c00, Spans
<1>15. QED
  BY <1>1, <1>2, <1>3, <1>4, <1>5, <1>6, <1>7, <1>8, <1>9, <1>10, <1>11, <1>12, <1>13, <1>14
  DEF IsA8XXRegister, RegNameByOffset

\* No indirect buffer is a barrier or a draw.
LEMMA BuffersApart ==
  IndirectBuffers \cap BarrierOpcodes = {} /\ IndirectBuffers \cap DrawOpcodes = {}
  BY DEF IndirectBuffers, BarrierOpcodes, DrawOpcodes, PM4

RegWritesOf ==
  [p \in PacketType |-> IF p.type = "PKT4" THEN p.count ELSE 0]
Gen8WritesOf ==
  [p \in PacketType |->
     IF p.type = "PKT4" THEN IF p.id \in IsA8XXRegister THEN p.count ELSE 0 ELSE 0]
BarriersOf ==
  [p \in PacketType |-> IF p.type = "PKT7" THEN One(p.id \in BarrierOpcodes) ELSE 0]
DrawsOf ==
  [p \in PacketType |-> IF p.type = "PKT7" THEN One(p.id \in DrawOpcodes) ELSE 0]

\* The statistics are sums over the packets found so far.
Counted ==
  /\ stats.TotalDwords = Len(dwords)
  /\ stats.RegWrites = SumOver(RegWritesOf, packets)
  /\ stats.A8XXRegWrites = SumOver(Gen8WritesOf, packets)
  /\ stats.BarrierPackets = SumOver(BarriersOf, packets)
  /\ stats.DrawPackets = SumOver(DrawsOf, packets)
  /\ returned => stats.TotalPackets = Len(packets)

\* The names of the packets found so far, and the opcodes counted as unknown.
NamedBy(ps, unknown) ==
  /\ \A k \in 1 .. Len(ps) :
        IF ps[k].type = "PKT4"
        THEN ps[k].named <=> ps[k].id \in RegNameByOffset
        ELSE /\ ps[k].id \in 0 .. 127
             /\ ps[k].named <=> ps[k].id \in OpcodeNames
             /\ ps[k].id \notin OpcodeNames => unknown[ps[k].id] > 0
  /\ \A op \in 0 .. 127 : op \in OpcodeNames => unknown[op] = 0

Named == NamedBy(packets, stats.UnknownOpcodes)

\* A packet that is taken, by its type.
LEMMA TakenPacket ==
  ASSUME Types, InStep, NEW k \in 1 .. Len(program), Takes(k)
  PROVE  LET pkt == Intended(k) IN
         /\ pkt \in PacketType
         /\ \/ /\ program[k].type = "PKT4" /\ pkt.type = "PKT4" /\ stats' = Count4(pkt)
               /\ pkt.named <=> pkt.id \in RegNameByOffset
            \/ /\ program[k].type = "PKT7" /\ stats' = Count7(pkt)
               /\ pkt.type = IF pkt.id \in IndirectBuffers THEN "IB" ELSE "PKT7"
               /\ pkt.id \in 0 .. 127
               /\ pkt.named <=> pkt.id \in OpcodeNames
<1> DEFINE p == program[k]
           pkt == Intended(k)
<1>1. p \in Piece /\ p.type \in {"PKT4", "PKT7"}
  BY EntryFacts, PieceWords DEF Takes
<1>2. pkt \in PacketType
  BY DEF Takes
<1>3. stats' = IF p.type = "PKT4" THEN Count4(pkt) ELSE Count7(pkt)
  BY DEF Takes
<1>4. CASE p.type = "PKT4"
  <2>1. /\ pkt.type = "PKT4" /\ pkt.id = p.id
        /\ pkt.named = (p.id \in RegNameByOffset)
    BY <1>4 DEF Intended, Packet
  <2>2. pkt.named <=> pkt.id \in RegNameByOffset
    <3> HIDE DEF pkt
    <3>1. QED BY <2>1
  <2>3. QED BY <1>2, <1>3, <1>4, <2>1, <2>2
<1>5. CASE p.type = "PKT7"
  <2>1. /\ pkt.type = IF p.id \in IndirectBuffers THEN "IB" ELSE "PKT7"
        /\ pkt.id = p.id
        /\ pkt.named = (p.id \in OpcodeNames)
    BY <1>5 DEF Intended, Packet
  <2>2. p.id \in 0 .. 127
    BY <1>1, <1>5 DEF Piece
  <2>3. pkt.named <=> pkt.id \in OpcodeNames
    <3> HIDE DEF pkt
    <3>1. QED BY <2>1
  <2>4. QED BY <1>2, <1>3, <1>5, <2>1, <2>2, <2>3
<1>6. QED BY <1>1, <1>4, <1>5

LEMMA SumTypes ==
  /\ RegWritesOf \in [PacketType -> Nat] /\ Gen8WritesOf \in [PacketType -> Nat]
  /\ BarriersOf \in [PacketType -> Nat] /\ DrawsOf \in [PacketType -> Nat]
<1>1. \A p \in PacketType : p.count \in Nat
  BY DEF PacketType
<1>2. \A c : One(c) \in Nat
  BY DEF One
<1>3. RegWritesOf \in [PacketType -> Nat]
  BY <1>1 DEF RegWritesOf
<1>4. Gen8WritesOf \in [PacketType -> Nat]
  BY <1>1 DEF Gen8WritesOf
<1>5. BarriersOf \in [PacketType -> Nat]
  BY <1>2 DEF BarriersOf
<1>6. DrawsOf \in [PacketType -> Nat]
  BY <1>2 DEF DrawsOf
<1>7. QED BY <1>3, <1>4, <1>5, <1>6

\* What the statistics of an entry begin with.
LEMMA FreshFacts ==
  ASSUME NEW d \in Seq(Nat)
  PROVE  LET s == FreshStats(d) IN
         /\ s.TotalDwords = Len(d)
         /\ s.TotalPackets = 0 /\ s.PKT4Count = 0 /\ s.PKT7Count = 0 /\ s.RegWrites = 0
         /\ s.A8XXRegWrites = 0 /\ s.BarrierPackets = 0 /\ s.DrawPackets = 0 /\ s.NOPPackets = 0
         /\ \A op \in 0 .. 127 : s.UnknownOpcodes[op] = 0
<1> DEFINE n == Len(d)
           s == FreshStats(d)
           zeros == [op \in 0 .. 127 |-> 0]
<1> HIDE DEF n, zeros
<1>1. /\ NoStats = [TotalDwords |-> 0, TotalPackets |-> 0, PKT4Count |-> 0, PKT7Count |-> 0,
                     RegWrites |-> 0, A8XXRegWrites |-> 0, BarrierPackets |-> 0,
                     DrawPackets |-> 0, NOPPackets |-> 0, UnknownOpcodes |-> zeros]
      /\ s = [NoStats EXCEPT !.TotalDwords = n]
  BY DEF FreshStats, NoStats, n, zeros
<1> HIDE DEF s
<1>2. /\ s.TotalDwords = n
      /\ s.TotalPackets = 0 /\ s.PKT4Count = 0 /\ s.PKT7Count = 0 /\ s.RegWrites = 0
      /\ s.A8XXRegWrites = 0 /\ s.BarrierPackets = 0 /\ s.DrawPackets = 0 /\ s.NOPPackets = 0
      /\ s.UnknownOpcodes = zeros
  BY <1>1
<1>3. \A op \in 0 .. 127 : zeros[op] = 0
  BY DEF zeros
<1>4. QED BY <1>2, <1>3 DEF s, n

LEMMA NoSums ==
  /\ SumOver(RegWritesOf, <<>>) = 0 /\ SumOver(Gen8WritesOf, <<>>) = 0
  /\ SumOver(BarriersOf, <<>>) = 0 /\ SumOver(DrawsOf, <<>>) = 0
  BY SumTypes, SumGrows

LEMMA CountedInit == Init => Counted /\ Named
<1> SUFFICES ASSUME Init PROVE Counted /\ Named
  OBVIOUS
<1>1. PICK dump \in Dumps(submission[1]) : dumps = <<dump>> /\ stats = FreshStats(dump)
  BY DEF Init
<1>2. packets = <<>> /\ returned = FALSE
  BY DEF Init
<1>3. dwords = dump /\ dump \in Seq(Nat)
  <2>1. Types
    BY TypesInit
  <2>2. dwords \in Seq(Nat) /\ dwords = dump
    BY <1>1, <2>1, EntryFacts DEF dwords
  <2>3. QED BY <2>2
<1> DEFINE s == FreshStats(dump)
<1>4. /\ s.TotalDwords = Len(dump) /\ s.RegWrites = 0 /\ s.A8XXRegWrites = 0
      /\ s.BarrierPackets = 0 /\ s.DrawPackets = 0
      /\ \A op \in 0 .. 127 : s.UnknownOpcodes[op] = 0
  BY <1>3, FreshFacts
<1> HIDE DEF s
<1>5. stats = s
  BY <1>1 DEF s
<1>6. Counted
  BY <1>2, <1>3, <1>4, <1>5, NoSums DEF Counted
<1>7. Named
  BY <1>2, <1>4, <1>5 DEF Named, NamedBy
<1>8. QED BY <1>6, <1>7

LEMMA CountedNext ==
  Types /\ InStep /\ Counted /\ Named /\ [Next]_vars => Counted' /\ Named'
<1> SUFFICES ASSUME Types, InStep, Counted, Named, [Next]_vars PROVE Counted' /\ Named'
  OBVIOUS
<1>1. ASSUME NEW k \in 1 .. Len(program), Takes(k) PROVE Counted' /\ Named'
  <2> DEFINE pkt == Intended(k)
  <2>1. /\ pkt \in PacketType
        /\ \/ /\ pkt.type = "PKT4" /\ stats' = Count4(pkt)
              /\ pkt.named <=> pkt.id \in RegNameByOffset
           \/ /\ stats' = Count7(pkt)
              /\ pkt.type = IF pkt.id \in IndirectBuffers THEN "IB" ELSE "PKT7"
              /\ pkt.id \in 0 .. 127
              /\ pkt.named <=> pkt.id \in OpcodeNames
    BY <1>1, TakenPacket
  <2>2. /\ packets' = Append(packets, pkt)
        /\ UNCHANGED <<submission, dumps, returned>> /\ i < Len(dwords)
    BY <1>1 DEF Takes
  <2> HIDE DEF pkt
  <2>3. dwords' = dwords /\ ~returned
    <3>1. i \in Nat /\ Len(dwords) \in Nat
      BY EntryFacts DEF Types
    <3>2. QED BY <2>2, <3>1, SameEntry DEF InStep
  <2>4. /\ packets' \in Seq(PacketType) /\ Len(packets') = Len(packets) + 1
        /\ \A j \in 1 .. Len(packets) : packets'[j] = packets[j]
        /\ packets'[Len(packets) + 1] = pkt
        /\ Len(packets) \in Nat
    BY <2>1, <2>2, AppendProperties, LenProperties DEF Types
  <2>5. /\ SumOver(RegWritesOf, packets') = SumOver(RegWritesOf, packets) + RegWritesOf[pkt]
        /\ SumOver(Gen8WritesOf, packets') = SumOver(Gen8WritesOf, packets) + Gen8WritesOf[pkt]
        /\ SumOver(BarriersOf, packets') = SumOver(BarriersOf, packets) + BarriersOf[pkt]
        /\ SumOver(DrawsOf, packets') = SumOver(DrawsOf, packets) + DrawsOf[pkt]
    BY <2>1, <2>2, SumTypes, SumGrows DEF Types
  <2>6. stats \in StatsType
    BY DEF Types
  <2>7. /\ stats.RegWrites \in Nat /\ stats.A8XXRegWrites \in Nat /\ stats.BarrierPackets \in Nat
        /\ stats.DrawPackets \in Nat
        /\ \A op \in 0 .. 127 : stats.UnknownOpcodes[op] \in Nat
    BY <2>6 DEF StatsType
  <2>8. CASE pkt.type = "PKT4" /\ stats' = Count4(pkt) /\ (pkt.named <=> pkt.id \in RegNameByOffset)
    <3>1. /\ RegWritesOf[pkt] = pkt.count
          /\ Gen8WritesOf[pkt] = IF pkt.id \in IsA8XXRegister THEN pkt.count ELSE 0
          /\ BarriersOf[pkt] = 0 /\ DrawsOf[pkt] = 0
      BY <2>1, <2>8 DEF RegWritesOf, Gen8WritesOf, BarriersOf, DrawsOf
    <3> DEFINE s == stats'
    <3>2. /\ s.TotalDwords = stats.TotalDwords
          /\ s.RegWrites = stats.RegWrites + RegWritesOf[pkt]
          /\ s.A8XXRegWrites = stats.A8XXRegWrites + Gen8WritesOf[pkt]
          /\ s.BarrierPackets = stats.BarrierPackets
          /\ s.DrawPackets = stats.DrawPackets
          /\ s.UnknownOpcodes = stats.UnknownOpcodes
      BY <2>1, <2>6, <2>8, <3>1, Count4Facts
    <3> HIDE DEF s
    <3>3. Counted'
      <4>1. s.TotalDwords = Len(dwords')
        BY <2>3, <3>2 DEF Counted
      <4>2. /\ s.RegWrites = SumOver(RegWritesOf, packets')
            /\ s.A8XXRegWrites = SumOver(Gen8WritesOf, packets')
        BY <2>5, <3>2 DEF Counted
      <4>3. /\ s.BarrierPackets = SumOver(BarriersOf, packets')
            /\ s.DrawPackets = SumOver(DrawsOf, packets')
        BY <2>5, <2>7, <3>1, <3>2 DEF Counted
      <4>4. ~returned'
        BY <2>2, <2>3
      <4>5. QED BY <4>1, <4>2, <4>3, <4>4 DEF Counted, s
    <3>4. ASSUME NEW j \in 1 .. Len(packets')
          PROVE  LET q == packets'[j] IN
                 IF q.type = "PKT4"
                 THEN q.named <=> q.id \in RegNameByOffset
                 ELSE /\ q.id \in 0 .. 127
                      /\ q.named <=> q.id \in OpcodeNames
                      /\ q.id \notin OpcodeNames => s.UnknownOpcodes[q.id] > 0
      <4>1. CASE j = Len(packets) + 1
        BY <2>4, <2>8, <4>1
      <4>2. CASE j # Len(packets) + 1
        <5>1. j \in 1 .. Len(packets)
          BY <2>4, <4>2
        <5>2. packets'[j] = packets[j]
          BY <2>4, <5>1
        <5>3. QED BY <3>2, <5>1, <5>2 DEF Named, NamedBy
      <4>3. QED BY <4>1, <4>2
    <3>5. \A op \in 0 .. 127 : op \in OpcodeNames => s.UnknownOpcodes[op] = 0
      BY <3>2 DEF Named, NamedBy
    <3>6. Named'
      BY <3>4, <3>5 DEF Named, NamedBy, s
    <3>7. QED BY <3>3, <3>6
  <2>9. CASE /\ stats' = Count7(pkt)
             /\ pkt.type = IF pkt.id \in IndirectBuffers THEN "IB" ELSE "PKT7"
             /\ pkt.id \in 0 .. 127
             /\ pkt.named <=> pkt.id \in OpcodeNames
    <3>1. /\ RegWritesOf[pkt] = 0 /\ Gen8WritesOf[pkt] = 0
          /\ BarriersOf[pkt] = One(pkt.id \in BarrierOpcodes)
          /\ DrawsOf[pkt] = One(pkt.id \in DrawOpcodes)
      <4>1. CASE pkt.id \in IndirectBuffers
        <5>1. pkt.id \notin BarrierOpcodes /\ pkt.id \notin DrawOpcodes
          BY <4>1, BuffersApart
        <5>2. pkt.type = "IB"
          BY <2>9, <4>1
        <5>3. QED BY <2>1, <5>1, <5>2 DEF RegWritesOf, Gen8WritesOf, BarriersOf, DrawsOf, One
      <4>2. CASE pkt.id \notin IndirectBuffers
        <5>1. pkt.type = "PKT7"
          BY <2>9, <4>2
        <5>2. QED BY <2>1, <5>1 DEF RegWritesOf, Gen8WritesOf, BarriersOf, DrawsOf
      <4>3. QED BY <4>1, <4>2
    <3> DEFINE s == stats'
               unknown(op) == One(pkt.id = op /\ op \notin OpcodeNames)
    <3>2. /\ s.TotalDwords = stats.TotalDwords
          /\ s.RegWrites = stats.RegWrites
          /\ s.A8XXRegWrites = stats.A8XXRegWrites
          /\ s.BarrierPackets = stats.BarrierPackets + BarriersOf[pkt]
          /\ s.DrawPackets = stats.DrawPackets + DrawsOf[pkt]
          /\ \A op \in 0 .. 127 : s.UnknownOpcodes[op] = stats.UnknownOpcodes[op] + unknown(op)
      BY <2>1, <2>6, <2>9, <3>1, Count7Facts
    <3> HIDE DEF s
    <3>3. Counted'
      <4>1. s.TotalDwords = Len(dwords')
        BY <2>3, <3>2 DEF Counted
      <4>2. /\ s.RegWrites = SumOver(RegWritesOf, packets')
            /\ s.A8XXRegWrites = SumOver(Gen8WritesOf, packets')
        BY <2>5, <2>7, <3>1, <3>2 DEF Counted
      <4>3. /\ s.BarrierPackets = SumOver(BarriersOf, packets')
            /\ s.DrawPackets = SumOver(DrawsOf, packets')
        BY <2>5, <3>2 DEF Counted
      <4>4. ~returned'
        BY <2>2, <2>3
      <4>5. QED BY <4>1, <4>2, <4>3, <4>4 DEF Counted, s
    <3>4. \A op \in 0 .. 127 :
             /\ s.UnknownOpcodes[op] \in Nat
             /\ s.UnknownOpcodes[op] >= stats.UnknownOpcodes[op]
             /\ op \in OpcodeNames => s.UnknownOpcodes[op] = stats.UnknownOpcodes[op]
             /\ op \notin OpcodeNames /\ pkt.id = op => s.UnknownOpcodes[op] > 0
      <4>1. SUFFICES ASSUME NEW op \in 0 .. 127
                     PROVE  /\ s.UnknownOpcodes[op] \in Nat
                            /\ s.UnknownOpcodes[op] >= stats.UnknownOpcodes[op]
                            /\ op \in OpcodeNames => s.UnknownOpcodes[op] = stats.UnknownOpcodes[op]
                            /\ op \notin OpcodeNames /\ pkt.id = op => s.UnknownOpcodes[op] > 0
        OBVIOUS
      <4>2. /\ unknown(op) \in Nat
            /\ op \in OpcodeNames => unknown(op) = 0
            /\ op \notin OpcodeNames /\ pkt.id = op => unknown(op) = 1
        BY DEF One
      <4> DEFINE a == s.UnknownOpcodes[op]
                 b == stats.UnknownOpcodes[op]
      <4> HIDE DEF unknown
      <4>3. a = b + unknown(op) /\ b \in Nat
        BY <2>7, <3>2
      <4> HIDE DEF a, b
      <4>4. /\ a \in Nat /\ a >= b
            /\ op \in OpcodeNames => a = b
            /\ op \notin OpcodeNames /\ pkt.id = op => a > 0
        BY <4>2, <4>3
      <4>5. QED BY <4>4 DEF a, b
    <3> HIDE DEF unknown
    <3>5. ASSUME NEW j \in 1 .. Len(packets')
          PROVE  LET q == packets'[j] IN
                 IF q.type = "PKT4"
                 THEN q.named <=> q.id \in RegNameByOffset
                 ELSE /\ q.id \in 0 .. 127
                      /\ q.named <=> q.id \in OpcodeNames
                      /\ q.id \notin OpcodeNames => s.UnknownOpcodes[q.id] > 0
      <4>1. CASE j = Len(packets) + 1
        <5>1. packets'[j] = pkt /\ pkt.type # "PKT4"
          BY <2>4, <2>9, <4>1
        <5>2. QED BY <2>9, <3>4, <5>1
      <4>2. CASE j # Len(packets) + 1
        <5>1. j \in 1 .. Len(packets)
          BY <2>4, <4>2
        <5>2. packets'[j] = packets[j]
          BY <2>4, <5>1
        <5> DEFINE q == packets[j]
        <5>3. CASE q.type = "PKT4"
          BY <5>1, <5>2, <5>3 DEF Named, NamedBy
        <5>4. CASE q.type # "PKT4"
          <6>1. /\ q.id \in 0 .. 127
                /\ q.named <=> q.id \in OpcodeNames
                /\ q.id \notin OpcodeNames => stats.UnknownOpcodes[q.id] > 0
            BY <5>1, <5>4 DEF Named, NamedBy
          <6> HIDE DEF q
          <6>2. q.id \notin OpcodeNames => s.UnknownOpcodes[q.id] > 0
            <7> DEFINE x == q.id
                       a == s.UnknownOpcodes[x]
                       b == stats.UnknownOpcodes[x]
            <7>1. a \in Nat /\ a >= b /\ b \in Nat /\ (x \notin OpcodeNames => b > 0)
              BY <2>7, <3>4, <6>1
            <7> HIDE DEF a, b
            <7>2. x \notin OpcodeNames => a > 0
              BY <7>1
            <7>3. QED BY <7>2 DEF a
          <6>3. QED BY <5>2, <5>4, <6>1, <6>2 DEF q
        <5>5. QED BY <5>3, <5>4
      <4>3. QED BY <4>1, <4>2
    <3>6. \A op \in 0 .. 127 : op \in OpcodeNames => s.UnknownOpcodes[op] = 0
      BY <3>4 DEF Named, NamedBy
    <3>7. Named'
      BY <3>5, <3>6 DEF Named, NamedBy, s
    <3>8. QED BY <3>3, <3>7
  <2>10. QED BY <2>1, <2>8, <2>9
<1>2. CASE UNCHANGED <<submission, dumps, packets, stats, returned>>
  <2>1. dwords' = dwords
    BY <1>2, SameEntry
  <2>2. QED BY <1>2, <2>1 DEF Counted, Named, NamedBy
<1>3. CASE Return
  <2>1. /\ stats' = [stats EXCEPT !.TotalPackets = Len(packets)]
        /\ UNCHANGED <<submission, dumps, packets>>
    BY <1>3 DEF Return
  <2>2. dwords' = dwords
    BY <2>1, SameEntry
  <2> DEFINE n == Len(packets)
             s == stats'
  <2> HIDE DEF n
  <2>3. /\ s.TotalPackets = n
        /\ s.TotalDwords = stats.TotalDwords
        /\ s.RegWrites = stats.RegWrites
        /\ s.A8XXRegWrites = stats.A8XXRegWrites
        /\ s.BarrierPackets = stats.BarrierPackets
        /\ s.DrawPackets = stats.DrawPackets
        /\ s.UnknownOpcodes = stats.UnknownOpcodes
    BY <2>1 DEF Types, StatsType, n
  <2> HIDE DEF s
  <2>4. Counted'
    BY <2>1, <2>2, <2>3 DEF Counted, s, n
  <2>5. Named'
    <3>1. stats'.UnknownOpcodes = stats.UnknownOpcodes /\ packets' = packets
      BY <2>1, <2>3 DEF s
    <3>2. QED BY <3>1 DEF Named
  <2>6. QED BY <2>4, <2>5
<1>4. CASE NextEntry
  <2>1. PICK dump \in Dumps(submission[Len(dumps) + 1]) :
           dumps' = Append(dumps, dump) /\ stats' = FreshStats(dump)
    BY <1>4 DEF NextEntry
  <2>2. packets' = <<>> /\ returned' = FALSE /\ Len(dumps) < Len(submission)
    BY <1>4 DEF NextEntry
  <2>3. dump \in Seq(Nat)
    <3>1. submission \in Seq(Seq(Piece)) /\ Len(submission) \in Nat /\ Len(dumps) \in Nat
      BY EntryFacts
    <3>2. Len(dumps) + 1 \in 1 .. Len(submission)
      BY <2>2, <3>1
    <3>3. QED BY <2>1, <3>1, <3>2, ElementOfSeq, DumpFacts
  <2>4. dwords' = dump
    BY <2>1, <2>3, AppendProperties DEF dwords, Types
  <2> DEFINE s == FreshStats(dump)
  <2>5. /\ s.TotalDwords = Len(dump) /\ s.RegWrites = 0 /\ s.A8XXRegWrites = 0
        /\ s.BarrierPackets = 0 /\ s.DrawPackets = 0
        /\ \A op \in 0 .. 127 : s.UnknownOpcodes[op] = 0
    BY <2>3, FreshFacts
  <2> HIDE DEF s
  <2>6. stats' = s
    BY <2>1 DEF s
  <2>7. Counted'
    BY <2>2, <2>4, <2>5, <2>6, NoSums DEF Counted
  <2>8. Named'
    <3>1. 1 .. Len(packets') = {}
      BY <2>2
    <3>2. \A op \in 0 .. 127 : stats'.UnknownOpcodes[op] = 0
      BY <2>5, <2>6
    <3>3. QED BY <3>1, <3>2 DEF Named, NamedBy
  <2>9. QED BY <2>7, <2>8
<1>5. ASSUME NEW k \in 1 .. Len(program), Skips(k) PROVE Counted' /\ Named'
  BY <1>2, <1>5 DEF Skips
<1>6. CASE Merge \/ UNCHANGED vars
  BY <1>2, <1>6 DEF Merge, vars
<1>7. QED BY <1>1, <1>3, <1>4, <1>5, <1>6, Steps

LEMMA CountedInvariant == Spec => [](Counted /\ Named)
<1>1. Spec => [](Types /\ InStep)
  BY TypesInvariant
<1>2. QED BY <1>1, CountedInit, CountedNext, PTL DEF Spec

\* Decode and Summary count the same, and name what they count, whatever the
\* submission.
THEOREM SummaryIsRight == Spec => []SummaryAgrees
<1>1. Types /\ Counted /\ Named => SummaryAgrees
  <2> SUFFICES ASSUME Types, Counted, Named, returned
               PROVE  /\ Summary = [packets    |-> stats.TotalPackets,
                                    regWrites  |-> stats.RegWrites,
                                    a8xxWrites |-> stats.A8XXRegWrites,
                                    barriers   |-> stats.BarrierPackets,
                                    draws      |-> stats.DrawPackets]
                      /\ \A k \in DOMAIN packets :
                            packets[k].named <=>
                               IF packets[k].type = "PKT4"
                               THEN packets[k].id \in IsA8XXRegister \union RegNameByOffset
                               ELSE stats.UnknownOpcodes[packets[k].id] = 0
    BY Gen8HaveNames DEF SummaryAgrees
  <2>1. \A k \in DOMAIN packets : packets[k] \in PacketType /\ k \in 1 .. Len(packets)
    BY ElementOfSeq, LenProperties DEF Types
  <2>2. Summary.regWrites = SumOver(RegWritesOf, packets)
    <3>1. [k \in DOMAIN packets |-> RegWritesOf[packets[k]]]
             = [k \in DOMAIN packets |-> IF packets[k].type = "PKT4" THEN packets[k].count ELSE 0]
      BY <2>1 DEF RegWritesOf
    <3>2. QED BY <3>1 DEF SumOver, Summary, Recount
  <2>3. Summary.a8xxWrites = SumOver(Gen8WritesOf, packets)
    <3>1. [k \in DOMAIN packets |-> Gen8WritesOf[packets[k]]]
             = [k \in DOMAIN packets |->
                  IF packets[k].type = "PKT4"
                  THEN IF packets[k].id \in IsA8XXRegister THEN packets[k].count ELSE 0 ELSE 0]
      BY <2>1 DEF Gen8WritesOf
    <3>2. QED BY <3>1 DEF SumOver, Summary, Recount
  <2>4. Summary.barriers = SumOver(BarriersOf, packets)
    <3>1. [k \in DOMAIN packets |-> BarriersOf[packets[k]]]
             = [k \in DOMAIN packets |->
                  IF packets[k].type = "PKT7" THEN One(packets[k].id \in BarrierOpcodes) ELSE 0]
      BY <2>1 DEF BarriersOf
    <3>2. QED BY <3>1 DEF SumOver, Summary, Recount
  <2>5. Summary.draws = SumOver(DrawsOf, packets)
    <3>1. [k \in DOMAIN packets |-> DrawsOf[packets[k]]]
             = [k \in DOMAIN packets |->
                  IF packets[k].type = "PKT7" THEN One(packets[k].id \in DrawOpcodes) ELSE 0]
      BY <2>1 DEF DrawsOf
    <3>2. QED BY <3>1 DEF SumOver, Summary, Recount
  <2>6. Summary = [packets    |-> Len(packets),
                   regWrites  |-> Summary.regWrites,
                   a8xxWrites |-> Summary.a8xxWrites,
                   barriers   |-> Summary.barriers,
                   draws      |-> Summary.draws]
    BY DEF Summary
  <2>7. Summary = [packets    |-> stats.TotalPackets,
                   regWrites  |-> stats.RegWrites,
                   a8xxWrites |-> stats.A8XXRegWrites,
                   barriers   |-> stats.BarrierPackets,
                   draws      |-> stats.DrawPackets]
    BY <2>2, <2>3, <2>4, <2>5, <2>6 DEF Counted
  <2>8. ASSUME NEW k \in DOMAIN packets
        PROVE  packets[k].named <=>
                  IF packets[k].type = "PKT4"
                  THEN packets[k].id \in IsA8XXRegister \union RegNameByOffset
                  ELSE stats.UnknownOpcodes[packets[k].id] = 0
    <3> DEFINE q == packets[k]
    <3>1. k \in 1 .. Len(packets)
      BY <2>1
    <3>2. CASE q.type = "PKT4"
      <4>1. q.named <=> q.id \in RegNameByOffset
        BY <3>1, <3>2 DEF Named, NamedBy
      <4> HIDE DEF q
      <4>2. q.id \in IsA8XXRegister \union RegNameByOffset <=> q.id \in RegNameByOffset
        BY Gen8HaveNames
      <4>3. q.named <=> q.id \in IsA8XXRegister \union RegNameByOffset
        BY <4>1, <4>2
      <4>4. QED BY <3>2, <4>3 DEF q
    <3>3. CASE q.type # "PKT4"
      <4>1. /\ q.id \in 0 .. 127
            /\ q.named <=> q.id \in OpcodeNames
            /\ q.id \notin OpcodeNames => stats.UnknownOpcodes[q.id] > 0
            /\ q.id \in OpcodeNames => stats.UnknownOpcodes[q.id] = 0
        BY <3>1, <3>3 DEF Named, NamedBy
      <4> HIDE DEF q
      <4>2. q.named <=> stats.UnknownOpcodes[q.id] = 0
        BY <4>1
      <4>3. QED BY <3>3, <4>2 DEF q
    <3>4. QED BY <3>2, <3>3
  <2>9. QED BY <2>7, <2>8
<1>2. QED BY <1>1, TypesInvariant, CountedInvariant, PTL

-----------------------------------------------------------------------------
(* Sizes of sets of places *)

HasSize(T, n) == n \in Nat /\ IsFiniteSet(T) /\ Cardinality(T) = n

LEMMA SizeAdds ==
  ASSUME NEW S, NEW T, NEW n, NEW m, HasSize(S, n), HasSize(T, m), S \cap T = {}
  PROVE  HasSize(S \union T, n + m)
<1>1. /\ IsFiniteSet(S \union T)
      /\ Cardinality(S \union T) = Cardinality(S) + Cardinality(T) - Cardinality({})
  BY FS_Union DEF HasSize
<1>2. Cardinality({}) = 0
  BY FS_EmptySet
<1>3. n \in Nat /\ m \in Nat /\ n + m - 0 = n + m /\ n + m \in Nat
  BY DEF HasSize
<1>4. QED BY <1>1, <1>2, <1>3 DEF HasSize

LEMMA SizeOfNothing == HasSize({}, 0)
  BY FS_EmptySet DEF HasSize

LEMMA SizeOfOne == \A x : HasSize({x}, 1)
  BY FS_Singleton DEF HasSize

\* Pairs with a first or a second component that is the same for all.
LEMMA SizeOfRow ==
  ASSUME NEW x, NEW S, NEW n, HasSize(S, n)
  PROVE  HasSize({x} \X S, n)
<1>1. IsFiniteSet({x}) /\ Cardinality({x}) = 1
  BY FS_Singleton
<1>2. IsFiniteSet({x} \X S) /\ Cardinality({x} \X S) = Cardinality({x}) * Cardinality(S)
  BY <1>1, FS_Product DEF HasSize
<1>3. n \in Nat /\ 1 * n = n
  BY DEF HasSize
<1>4. QED BY <1>1, <1>2, <1>3 DEF HasSize

LEMMA SizeOfColumn ==
  ASSUME NEW x, NEW S, NEW n, HasSize(S \X {x}, n)
  PROVE  HasSize(S, n)
<1> DEFINE P == S \X {x}
           f == [y \in P |-> y[1]]
<1>1. f \in [P -> S]
  OBVIOUS
<1>2. \A a, b \in P : f[a] = f[b] => a = b
  OBVIOUS
<1>3. \A t \in S : \E a \in P : f[a] = t
  <2>1. SUFFICES ASSUME NEW t \in S PROVE \E a \in P : f[a] = t
    OBVIOUS
  <2>2. <<t, x>> \in P /\ f[<<t, x>>] = t
    OBVIOUS
  <2>3. QED BY <2>2
<1> HIDE DEF f, P
<1>4. f \in Bijection(P, S)
  BY <1>1, <1>2, <1>3, Fun_IsBij
<1>5. ExistsBijection(P, S)
  BY <1>4 DEF ExistsBijection
<1>6. IsFiniteSet(S) /\ Cardinality(S) = Cardinality(P)
  BY <1>5, FS_Bijection DEF HasSize, P
<1>7. QED BY <1>6 DEF HasSize, P

\* What the pieces at places are worth: for each, the elements of u.
Tally(sub, u, B) == UNION {{b} \X u[sub[b[1]][b[2]]] : b \in B}

LEMMA TallyMember ==
  ASSUME NEW sub, NEW u, NEW B
  PROVE  \A y : y \in Tally(sub, u, B) <=>
                   \E b \in B : \E x \in u[sub[b[1]][b[2]]] : y = <<b, x>>
  BY DEF Tally

LEMMA TallyAdds ==
  ASSUME NEW sub, NEW u, NEW B, NEW C, B \cap C = {}, NEW n, NEW m,
         HasSize(Tally(sub, u, B), n), HasSize(Tally(sub, u, C), m)
  PROVE  HasSize(Tally(sub, u, B \union C), n + m)
<1> DEFINE S == Tally(sub, u, B)
           T == Tally(sub, u, C)
<1>1. Tally(sub, u, B \union C) = S \union T
  BY DEF Tally
<1>2. S \cap T = {}
  <2>1. SUFFICES ASSUME NEW y, y \in S, y \in T PROVE FALSE
    OBVIOUS
  <2>2. PICK b \in B : \E x \in u[sub[b[1]][b[2]]] : y = <<b, x>>
    BY <2>1, TallyMember
  <2>3. PICK c \in C : \E x \in u[sub[c[1]][c[2]]] : y = <<c, x>>
    BY <2>1, TallyMember
  <2>4. b = y[1] /\ c = y[1]
    BY <2>2, <2>3
  <2>5. QED BY <2>4
<1> HIDE DEF S, T
<1>3. HasSize(S \union T, n + m)
  BY <1>2, SizeAdds DEF S, T
<1>4. QED BY <1>1, <1>3

LEMMA TallyOfNothing ==
  ASSUME NEW sub, NEW u
  PROVE  HasSize(Tally(sub, u, {}), 0)
<1>1. Tally(sub, u, {}) = {}
  BY DEF Tally
<1>2. QED BY <1>1, SizeOfNothing

LEMMA TallyOfOne ==
  ASSUME NEW sub, NEW u, NEW b, NEW n, HasSize(u[sub[b[1]][b[2]]], n)
  PROVE  HasSize(Tally(sub, u, {b}), n)
<1> DEFINE S == u[sub[b[1]][b[2]]]
<1>1. Tally(sub, u, {b}) = {b} \X S
  BY DEF Tally
<1> HIDE DEF S
<1>2. HasSize({b} \X S, n)
  BY SizeOfRow DEF S
<1>3. QED BY <1>1, <1>2

-----------------------------------------------------------------------------
(* What the pieces are worth to the statistics *)

Class(C)   == [p \in Piece |-> IF p \in C THEN {0} ELSE {}]
OfTypes(T) == {p \in Piece : p.type \in T}
WithOps(S) == {p \in Piece : p.type = "PKT7" /\ p.id \in S}

Writing == [p \in Piece |-> Written(p)]
Gen8    == [p \in Piece |-> IF p.id \in IsA8XXRegister THEN Written(p) ELSE {}]

Counters ==
  {"PKT4Count", "PKT7Count", "RegWrites", "A8XXRegWrites", "BarrierPackets", "DrawPackets",
   "NOPPackets"}

Unit(c) ==
  CASE c = "PKT4Count"      -> Class(OfTypes({"PKT4"}))
    [] c = "PKT7Count"      -> Class(OfTypes({"PKT7"}))
    [] c = "RegWrites"      -> Writing
    [] c = "A8XXRegWrites"  -> Gen8
    [] c = "BarrierPackets" -> Class(WithOps(BarrierOpcodes))
    [] c = "DrawPackets"    -> Class(WithOps(DrawOpcodes))
    [] c = "NOPPackets"     -> Class(WithOps({PM4.NOP}))

PacketUnit == Class(OfTypes({"PKT4", "PKT7"}))
UnknownUnit(op) == Class(WithOps({op} \ OpcodeNames))

LEMMA ClassSize ==
  ASSUME NEW p \in Piece, NEW C
  PROVE  HasSize(Class(C)[p], One(p \in C))
<1>1. CASE p \in C
  BY <1>1, SizeOfOne DEF Class, One
<1>2. CASE p \notin C
  BY <1>2, SizeOfNothing DEF Class, One
<1>3. QED BY <1>1, <1>2

LEMMA WrittenSize ==
  ASSUME NEW p \in Piece
  PROVE  /\ p.type = "PKT4" => HasSize(Written(p), Len(p.payload)) /\ Written(p) \subseteq Nat
         /\ p.type # "PKT4" => Written(p) = {}
<1>1. Len(p.payload) \in Nat
  BY PieceWords
<1>2. ASSUME p.type = "PKT4" PROVE HasSize(Written(p), Len(p.payload)) /\ Written(p) \subseteq Nat
  <2> DEFINE a == p.id
             n == Len(p.payload)
             W == {a + d : d \in 0 .. n - 1}
  <2>1. a \in Nat
    BY <1>2 DEF Piece, RegsOfHeader
  <2>2. Written(p) = W
    BY <1>2 DEF Written
  <2> HIDE DEF a, n
  <2>3. n \in Nat
    BY <1>1 DEF n
  <2>4. W = a .. a + n - 1
    <3>1. \A y \in a .. a + n - 1 : y - a \in 0 .. n - 1 /\ a + (y - a) = y
      BY <2>1, <2>3
    <3>2. \A y \in W : y \in a .. a + n - 1
      BY <2>1, <2>3
    <3>3. QED BY <3>1, <3>2
  <2>5. HasSize(a .. a + n - 1, n)
    <3>1. a \in Int /\ a + n - 1 \in Int
      BY <2>1, <2>3
    <3> DEFINE z == a + n - 1
    <3> HIDE DEF z
    <3>2. IsFiniteSet(a .. z) /\ Cardinality(a .. z) = IF a > z THEN 0 ELSE z - a + 1
      BY <3>1, FS_Interval DEF z
    <3>3. (IF a > z THEN 0 ELSE z - a + 1) = n
      BY <2>1, <2>3 DEF z
    <3>4. QED BY <2>3, <3>2, <3>3 DEF HasSize, z
  <2>6. a .. a + n - 1 \subseteq Nat
    BY <2>1
  <2>7. QED BY <2>2, <2>4, <2>5, <2>6 DEF n
<1>3. QED BY <1>2 DEF Written

\* Loose dwords are worth nothing.
LEMMA LooseIsNothing ==
  ASSUME NEW p \in Piece, p.type = "LOOSE"
  PROVE  /\ \A c \in Counters : Unit(c)[p] = {}
         /\ PacketUnit[p] = {}
         /\ \A op : UnknownUnit(op)[p] = {}
<1>1. Written(p) = {}
  BY WrittenSize
<1>2. Writing[p] = {} /\ Gen8[p] = {}
  BY <1>1 DEF Writing, Gen8
<1>3. ASSUME NEW C, p \notin C PROVE Class(C)[p] = {}
  BY <1>3 DEF Class
<1>4. /\ p \notin OfTypes({"PKT4"}) /\ p \notin OfTypes({"PKT7"})
      /\ p \notin OfTypes({"PKT4", "PKT7"}) /\ \A S : p \notin WithOps(S)
  BY DEF OfTypes, WithOps
<1>5. /\ Class(OfTypes({"PKT4"}))[p] = {} /\ Class(OfTypes({"PKT7"}))[p] = {}
      /\ Class(OfTypes({"PKT4", "PKT7"}))[p] = {} /\ \A S : Class(WithOps(S))[p] = {}
  BY <1>3, <1>4
<1>6. \A c \in Counters : Unit(c)[p] = {}
  BY <1>2, <1>5 DEF Counters, Unit
<1>7. QED BY <1>5, <1>6 DEF PacketUnit, UnknownUnit

\* The statistics gain what the packet is worth.
LEMMA Gains ==
  ASSUME Types, InStep, NEW k \in 1 .. Len(program), Takes(k)
  PROVE  /\ \A c \in Counters :
               \E n \in Nat : stats'[c] = stats[c] + n /\ HasSize(Unit(c)[program[k]], n)
         /\ \A op \in 0 .. 127 :
               \E n \in Nat : /\ stats'.UnknownOpcodes[op] = stats.UnknownOpcodes[op] + n
                              /\ HasSize(UnknownUnit(op)[program[k]], n)
         /\ HasSize(PacketUnit[program[k]], 1)
<1> DEFINE p == program[k]
           pkt == Intended(k)
           r == Len(p.payload)
           s == stats'
<1>1. p \in Piece /\ p.type \in {"PKT4", "PKT7"} /\ r \in Nat
  BY EntryFacts, PieceWords DEF Takes
<1>2. pkt.id = p.id /\ pkt.count = r
  BY DEF Intended, Packet
<1>3. /\ pkt \in PacketType
      /\ \/ p.type = "PKT4" /\ s = Count4(pkt)
         \/ p.type = "PKT7" /\ s = Count7(pkt)
  BY TakenPacket
<1>4. stats \in StatsType
  BY DEF Types
<1>5. \A op \in 0 .. 127 : stats.UnknownOpcodes[op] \in Nat
  BY <1>4 DEF StatsType
<1>6. \A c \in Counters : stats[c] \in Nat
  BY <1>4 DEF StatsType, Counters
<1> HIDE DEF pkt, r, s
<1>7. \A C : HasSize(Class(C)[p], One(p \in C)) /\ One(p \in C) \in Nat
  BY <1>1, ClassSize DEF HasSize
<1>8. p \in OfTypes({"PKT4", "PKT7"})
  BY <1>1 DEF OfTypes
<1>9. HasSize(PacketUnit[p], 1)
  <2>1. One(p \in OfTypes({"PKT4", "PKT7"})) = 1
    BY <1>8 DEF One
  <2>2. QED BY <1>7, <2>1 DEF PacketUnit
<1>10. HasSize({}, 0)
  BY SizeOfNothing
<1>11. CASE p.type = "PKT4" /\ s = Count4(pkt)
  <2> DEFINE g == IF p.id \in IsA8XXRegister THEN r ELSE 0
  <2>1. /\ s.PKT4Count = stats.PKT4Count + 1
        /\ s.PKT7Count = stats.PKT7Count
        /\ s.RegWrites = stats.RegWrites + r
        /\ s.A8XXRegWrites = stats.A8XXRegWrites + g
        /\ s.BarrierPackets = stats.BarrierPackets
        /\ s.DrawPackets = stats.DrawPackets
        /\ s.NOPPackets = stats.NOPPackets
        /\ s.UnknownOpcodes = stats.UnknownOpcodes
    BY <1>2, <1>3, <1>4, <1>11, Count4Facts
  <2>2. HasSize(Writing[p], r) /\ HasSize(Gen8[p], g)
    <3>1. HasSize(Written(p), r)
      BY <1>1, <1>11, WrittenSize DEF r
    <3>2. QED BY <1>1, <1>10, <3>1 DEF Writing, Gen8
  <2>3. /\ One(p \in OfTypes({"PKT4"})) = 1 /\ One(p \in OfTypes({"PKT7"})) = 0
        /\ \A S : One(p \in WithOps(S)) = 0
    BY <1>1, <1>11 DEF OfTypes, WithOps, One
  <2>4. /\ HasSize(Class(OfTypes({"PKT4"}))[p], 1) /\ HasSize(Class(OfTypes({"PKT7"}))[p], 0)
        /\ \A S : HasSize(Class(WithOps(S))[p], 0)
    BY <1>7, <2>3
  <2>5. g \in Nat
    BY <1>1
  <2> HIDE DEF g
  <2>6. \A c \in Counters : \E n \in Nat : s[c] = stats[c] + n /\ HasSize(Unit(c)[p], n)
    <3>1. SUFFICES ASSUME NEW c \in Counters
                   PROVE  \E n \in Nat : s[c] = stats[c] + n /\ HasSize(Unit(c)[p], n)
      OBVIOUS
    <3>2. CASE c = "PKT4Count"
      <4>1. s[c] = stats[c] + 1 /\ HasSize(Unit(c)[p], 1)
        BY <2>1, <2>4, <3>2 DEF Unit
      <4>2. QED BY <4>1
    <3>3. CASE c = "RegWrites"
      <4>1. s[c] = stats[c] + r /\ HasSize(Unit(c)[p], r)
        BY <2>1, <2>2, <3>3 DEF Unit
      <4>2. QED BY <1>1, <4>1
    <3>4. CASE c = "A8XXRegWrites"
      <4>1. s[c] = stats[c] + g /\ HasSize(Unit(c)[p], g)
        BY <2>1, <2>2, <3>4 DEF Unit
      <4>2. QED BY <2>5, <4>1
    <3>5. CASE c \in {"PKT7Count", "BarrierPackets", "DrawPackets", "NOPPackets"}
      <4>1. s[c] = stats[c] /\ stats[c] \in Nat
        BY <1>6, <2>1, <3>5
      <4>2. HasSize(Unit(c)[p], 0)
        BY <2>4, <3>5 DEF Unit
      <4> DEFINE a == s[c]
                 b == stats[c]
      <4> HIDE DEF a, b
      <4>3. a = b + 0
        BY <4>1 DEF a, b
      <4>4. QED BY <4>2, <4>3 DEF a, b
    <3>6. QED BY <3>2, <3>3, <3>4, <3>5 DEF Counters
  <2>7. ASSUME NEW op \in 0 .. 127
        PROVE  \E n \in Nat : /\ s.UnknownOpcodes[op] = stats.UnknownOpcodes[op] + n
                              /\ HasSize(UnknownUnit(op)[p], n)
    <3>1. HasSize(UnknownUnit(op)[p], 0)
      BY <2>4 DEF UnknownUnit
    <3> DEFINE b == stats.UnknownOpcodes[op]
    <3>2. s.UnknownOpcodes[op] = b /\ b \in Nat
      BY <1>5, <2>1
    <3> HIDE DEF b
    <3>3. s.UnknownOpcodes[op] = b + 0
      BY <3>2
    <3>4. QED BY <3>1, <3>3 DEF b
  <2>8. QED BY <1>9, <2>6, <2>7 DEF s
<1>12. CASE p.type = "PKT7" /\ s = Count7(pkt)
  <2>1. /\ s.PKT4Count = stats.PKT4Count
        /\ s.PKT7Count = stats.PKT7Count + 1
        /\ s.RegWrites = stats.RegWrites
        /\ s.A8XXRegWrites = stats.A8XXRegWrites
        /\ s.BarrierPackets = stats.BarrierPackets + One(p.id \in BarrierOpcodes)
        /\ s.DrawPackets = stats.DrawPackets + One(p.id \in DrawOpcodes)
        /\ s.NOPPackets = stats.NOPPackets + One(p.id = PM4.NOP)
        /\ \A op \in 0 .. 127 :
              s.UnknownOpcodes[op] =
                 stats.UnknownOpcodes[op] + One(p.id = op /\ op \notin OpcodeNames)
    BY <1>2, <1>3, <1>4, <1>12, Count7Facts
  <2>2. HasSize(Writing[p], 0) /\ HasSize(Gen8[p], 0)
    <3>1. Written(p) = {}
      BY <1>1, <1>12, WrittenSize
    <3>2. QED BY <1>1, <1>10, <3>1 DEF Writing, Gen8
  <2>3. /\ One(p \in OfTypes({"PKT4"})) = 0 /\ One(p \in OfTypes({"PKT7"})) = 1
        /\ \A S : p \in WithOps(S) <=> p.id \in S
    BY <1>1, <1>12 DEF OfTypes, WithOps, One
  <2>4. /\ HasSize(Class(OfTypes({"PKT4"}))[p], 0) /\ HasSize(Class(OfTypes({"PKT7"}))[p], 1)
        /\ \A S : HasSize(Class(WithOps(S))[p], One(p.id \in S)) /\ One(p.id \in S) \in Nat
    <3>1. \A S : One(p \in WithOps(S)) = One(p.id \in S)
      BY <2>3 DEF One
    <3>2. QED BY <1>7, <2>3, <3>1
  <2>5. One(p.id \in {PM4.NOP}) = One(p.id = PM4.NOP)
    BY DEF One
  <2>6. \A c \in Counters : \E n \in Nat : s[c] = stats[c] + n /\ HasSize(Unit(c)[p], n)
    <3>1. SUFFICES ASSUME NEW c \in Counters
                   PROVE  \E n \in Nat : s[c] = stats[c] + n /\ HasSize(Unit(c)[p], n)
      OBVIOUS
    <3>2. CASE c = "PKT7Count"
      <4>1. s[c] = stats[c] + 1 /\ HasSize(Unit(c)[p], 1)
        BY <2>1, <2>4, <3>2 DEF Unit
      <4>2. QED BY <4>1
    <3>3. CASE c = "BarrierPackets"
      <4> DEFINE n == One(p.id \in BarrierOpcodes)
      <4> HIDE DEF n
      <4>1. n \in Nat /\ s[c] = stats[c] + n /\ HasSize(Unit(c)[p], n)
        BY <2>1, <2>4, <3>3 DEF Unit, n
      <4>2. QED BY <4>1
    <3>4. CASE c = "DrawPackets"
      <4> DEFINE n == One(p.id \in DrawOpcodes)
      <4> HIDE DEF n
      <4>1. n \in Nat /\ s[c] = stats[c] + n /\ HasSize(Unit(c)[p], n)
        BY <2>1, <2>4, <3>4 DEF Unit, n
      <4>2. QED BY <4>1
    <3>5. CASE c = "NOPPackets"
      <4> DEFINE n == One(p.id \in {PM4.NOP})
      <4> HIDE DEF n
      <4>1. n \in Nat /\ s[c] = stats[c] + n /\ HasSize(Unit(c)[p], n)
        BY <2>1, <2>4, <2>5, <3>5 DEF Unit, n
      <4>2. QED BY <4>1
    <3>6. CASE c \in {"PKT4Count", "RegWrites", "A8XXRegWrites"}
      <4>1. s[c] = stats[c] /\ stats[c] \in Nat
        BY <1>6, <2>1, <3>6
      <4>2. HasSize(Unit(c)[p], 0)
        BY <2>2, <2>4, <3>6 DEF Unit
      <4> DEFINE a == s[c]
                 b == stats[c]
      <4> HIDE DEF a, b
      <4>3. a = b + 0
        BY <4>1 DEF a, b
      <4>4. QED BY <4>2, <4>3 DEF a, b
    <3>7. QED BY <3>2, <3>3, <3>4, <3>5, <3>6 DEF Counters
  <2>7. ASSUME NEW op \in 0 .. 127
        PROVE  \E n \in Nat : /\ s.UnknownOpcodes[op] = stats.UnknownOpcodes[op] + n
                              /\ HasSize(UnknownUnit(op)[p], n)
    <3> DEFINE n == One(p.id \in {op} \ OpcodeNames)
    <3>1. n = One(p.id = op /\ op \notin OpcodeNames)
      BY DEF One
    <3>2. s.UnknownOpcodes[op] = stats.UnknownOpcodes[op] + n
      BY <2>1, <3>1
    <3> HIDE DEF n
    <3>3. HasSize(UnknownUnit(op)[p], n) /\ n \in Nat
      BY <2>4 DEF UnknownUnit, n
    <3>4. QED BY <3>2, <3>3
  <2>8. QED BY <1>9, <2>6, <2>7 DEF s
<1>13. QED BY <1>3, <1>11, <1>12

-----------------------------------------------------------------------------
(* The statistics of an entry and of the submission *)

\* The statistics s, with n packets, are what the pieces at places B are worth.
Worth(sub, B, s, n) ==
  /\ \A c \in Counters : HasSize(Tally(sub, Unit(c), B), s[c])
  /\ \A op \in 0 .. 127 : HasSize(Tally(sub, UnknownUnit(op), B), s.UnknownOpcodes[op])
  /\ HasSize(Tally(sub, PacketUnit, B), n)

\* The counters of r are those of s and t added up.
Adds(r, s, t) ==
  /\ \A c \in Counters : r[c] = s[c] + t[c]
  /\ \A op \in 0 .. 127 : r.UnknownOpcodes[op] = s.UnknownOpcodes[op] + t.UnknownOpcodes[op]

LEMMA WorthAdds ==
  ASSUME NEW sub, NEW B, NEW C, B \cap C = {}, NEW s, NEW t, NEW r, NEW n, NEW m,
         Worth(sub, B, s, n), Worth(sub, C, t, m), Adds(r, s, t)
  PROVE  Worth(sub, B \union C, r, n + m)
<1>1. ASSUME NEW c \in Counters PROVE HasSize(Tally(sub, Unit(c), B \union C), r[c])
  <2> DEFINE u == Unit(c)
  <2>1. HasSize(Tally(sub, u, B), s[c]) /\ HasSize(Tally(sub, u, C), t[c])
    BY DEF Worth
  <2> HIDE DEF u
  <2>2. HasSize(Tally(sub, u, B \union C), s[c] + t[c])
    BY <2>1, TallyAdds
  <2>3. r[c] = s[c] + t[c]
    BY DEF Adds
  <2>4. QED BY <2>2, <2>3 DEF u
<1>2. ASSUME NEW op \in 0 .. 127
      PROVE  HasSize(Tally(sub, UnknownUnit(op), B \union C), r.UnknownOpcodes[op])
  <2> DEFINE u == UnknownUnit(op)
             a == s.UnknownOpcodes[op]
             b == t.UnknownOpcodes[op]
  <2>1. HasSize(Tally(sub, u, B), a) /\ HasSize(Tally(sub, u, C), b)
    BY DEF Worth
  <2>2. r.UnknownOpcodes[op] = a + b
    BY DEF Adds
  <2> HIDE DEF u, a, b
  <2>3. HasSize(Tally(sub, u, B \union C), a + b)
    BY <2>1, TallyAdds
  <2>4. QED BY <2>2, <2>3 DEF u
<1>3. HasSize(Tally(sub, PacketUnit, B \union C), n + m)
  BY TallyAdds DEF Worth
<1>4. QED BY <1>1, <1>2, <1>3 DEF Worth

LEMMA WorthOfNothing ==
  ASSUME NEW sub, NEW s, \A c \in Counters : s[c] = 0,
         \A op \in 0 .. 127 : s.UnknownOpcodes[op] = 0
  PROVE  Worth(sub, {}, s, 0)
  BY TallyOfNothing DEF Worth

Here == {Len(dumps)} \X Passed
EntryCounts == Worth(submission, Here, stats, Len(packets))

LEMMA EntryCountsInit == Init => EntryCounts
<1> SUFFICES ASSUME Init PROVE EntryCounts
  OBVIOUS
<1>1. PICK dump \in Dumps(submission[1]) : dumps = <<dump>> /\ stats = FreshStats(dump)
  BY DEF Init
<1>2. packets = <<>> /\ i = 0
  BY DEF Init
<1>3. Types
  BY TypesInit
<1>4. dump \in Seq(Nat)
  <2>1. dwords \in Seq(Nat) /\ dwords = dump
    BY <1>1, <1>3, EntryFacts DEF dwords
  <2>2. QED BY <2>1
<1> DEFINE s == FreshStats(dump)
<1>5. /\ s.PKT4Count = 0 /\ s.PKT7Count = 0 /\ s.RegWrites = 0
      /\ s.A8XXRegWrites = 0 /\ s.BarrierPackets = 0 /\ s.DrawPackets = 0 /\ s.NOPPackets = 0
      /\ \A op \in 0 .. 127 : s.UnknownOpcodes[op] = 0
  BY <1>4, FreshFacts
<1> HIDE DEF s
<1>6. \A c \in Counters : s[c] = 0
  BY <1>5 DEF Counters
<1>7. Passed = {}
  BY <1>2, <1>3, EntryFacts, NonePassed DEF Passed
<1>8. Here = {} /\ Len(packets) = 0
  BY <1>2, <1>7 DEF Here
<1>9. Worth(submission, {}, s, 0)
  BY <1>5, <1>6, WorthOfNothing
<1>10. QED BY <1>1, <1>8, <1>9 DEF EntryCounts, s

LEMMA EntryCountsNext ==
  Types /\ InStep /\ EntryCounts /\ [Next]_vars => EntryCounts'
<1> SUFFICES ASSUME Types, InStep, EntryCounts, [Next]_vars PROVE EntryCounts'
  OBVIOUS
<1>1. ASSUME NEW k \in 1 .. Len(program), Takes(k) PROVE EntryCounts'
  <2> DEFINE E == Len(dumps)
             b == <<E, k>>
             B == Here
             s == stats'
  <2>1. Passed' = Passed \union {k} /\ k \notin Passed
    BY <1>1, TakePasses
  <2>2. UNCHANGED <<submission, dumps>> /\ packets' = Append(packets, Intended(k))
    BY <1>1 DEF Takes
  <2>3. Here' = B \union {b} /\ B \cap {b} = {}
    BY <2>1, <2>2 DEF Here
  <2>4. submission[b[1]][b[2]] = program[k]
    BY DEF program
  <2>5. /\ \A c \in Counters :
              \E n \in Nat : s[c] = stats[c] + n /\ HasSize(Unit(c)[program[k]], n)
        /\ \A op \in 0 .. 127 :
              \E n \in Nat : /\ s.UnknownOpcodes[op] = stats.UnknownOpcodes[op] + n
                             /\ HasSize(UnknownUnit(op)[program[k]], n)
        /\ HasSize(PacketUnit[program[k]], 1)
    BY <1>1, Gains
  <2>6. Worth(submission, B, stats, Len(packets))
    BY DEF EntryCounts
  <2> HIDE DEF B, b, s
  <2>7. ASSUME NEW u, NEW m, NEW n, HasSize(Tally(submission, u, B), m), HasSize(u[program[k]], n)
        PROVE  HasSize(Tally(submission, u, B \union {b}), m + n)
    <3>1. HasSize(u[submission[b[1]][b[2]]], n)
      BY <2>4, <2>7
    <3>2. HasSize(Tally(submission, u, {b}), n)
      BY <3>1, TallyOfOne
    <3>3. QED BY <2>3, <2>7, <3>2, TallyAdds
  <2>8. ASSUME NEW c \in Counters PROVE HasSize(Tally(submission, Unit(c), B \union {b}), s[c])
    <3>1. PICK n \in Nat : s[c] = stats[c] + n /\ HasSize(Unit(c)[program[k]], n)
      BY <2>5
    <3>2. HasSize(Tally(submission, Unit(c), B), stats[c])
      BY <2>6 DEF Worth
    <3>3. QED BY <2>7, <3>1, <3>2
  <2>9. ASSUME NEW op \in 0 .. 127
        PROVE  HasSize(Tally(submission, UnknownUnit(op), B \union {b}), s.UnknownOpcodes[op])
    <3>1. PICK n \in Nat : /\ s.UnknownOpcodes[op] = stats.UnknownOpcodes[op] + n
                           /\ HasSize(UnknownUnit(op)[program[k]], n)
      BY <2>5
    <3>2. HasSize(Tally(submission, UnknownUnit(op), B), stats.UnknownOpcodes[op])
      BY <2>6 DEF Worth
    <3>3. QED BY <2>7, <3>1, <3>2
  <2>10. HasSize(Tally(submission, PacketUnit, B \union {b}), Len(packets) + 1)
    BY <2>5, <2>6, <2>7 DEF Worth
  <2>11. Len(packets') = Len(packets) + 1
    <3>1. Intended(k) \in PacketType
      BY <1>1 DEF Takes
    <3>2. QED BY <2>2, <3>1, AppendProperties DEF Types
  <2>12. Worth(submission, B \union {b}, s, Len(packets'))
    BY <2>8, <2>9, <2>10, <2>11 DEF Worth
  <2>13. Worth(submission', Here', stats', Len(packets'))
    BY <2>2, <2>3, <2>12 DEF s
  <2>14. EntryCounts' = Worth(submission', Here', stats', Len(packets'))
    BY DEF EntryCounts, Worth
  <2>15. QED BY <2>13, <2>14
<1>2. CASE /\ UNCHANGED <<submission, packets, Here>>
           /\ \A c \in Counters : stats'[c] = stats[c]
           /\ stats'.UnknownOpcodes = stats.UnknownOpcodes
  <2>1. Worth(submission, Here, stats', Len(packets))
    BY <1>2 DEF EntryCounts, Worth
  <2>2. Worth(submission', Here', stats', Len(packets'))
    BY <1>2, <2>1
  <2>3. EntryCounts' = Worth(submission', Here', stats', Len(packets'))
    BY DEF EntryCounts, Worth
  <2>4. QED BY <2>2, <2>3
<1>3. ASSUME NEW k \in 1 .. Len(program), Skips(k) PROVE EntryCounts'
  <2>1. UNCHANGED <<submission, dumps, packets, stats>>
    BY <1>3 DEF Skips
  <2>2. Passed' = Passed
    BY <1>3, SkipPasses
  <2>3. Here' = Here
    BY <2>1, <2>2 DEF Here
  <2>4. QED BY <1>2, <2>1, <2>3
<1>4. CASE Return \/ Merge \/ UNCHANGED vars
  <2>1. UNCHANGED <<submission, dumps, packets, i>>
    BY <1>4 DEF Return, Merge, vars
  <2>2. program' = program /\ dwords' = dwords
    BY <2>1, SameEntry
  <2>3. Here' = Here
    BY <2>1, <2>2 DEF Here, Passed
  <2>4. stats' = stats \/ stats' = [stats EXCEPT !.TotalPackets = Len(packets)]
    BY <1>4 DEF Return, Merge, vars
  <2>5. /\ \A c \in Counters : stats'[c] = stats[c]
        /\ stats'.UnknownOpcodes = stats.UnknownOpcodes
    <3> DEFINE n == Len(packets)
    <3> HIDE DEF n
    <3>1. stats' = stats \/ stats' = [stats EXCEPT !.TotalPackets = n]
      BY <2>4 DEF n
    <3>2. stats \in StatsType
      BY DEF Types
    <3>3. QED BY <3>1, <3>2 DEF StatsType, Counters
  <2>6. QED BY <1>2, <2>1, <2>3, <2>5
<1>5. CASE NextEntry
  <2>1. PICK dump \in Dumps(submission[Len(dumps) + 1]) :
           dumps' = Append(dumps, dump) /\ stats' = FreshStats(dump)
    BY <1>5 DEF NextEntry
  <2>2. packets' = <<>> /\ i' = 0 /\ UNCHANGED submission /\ Len(dumps) < Len(submission)
    BY <1>5 DEF NextEntry
  <2>3. /\ Len(dumps) + 1 \in 1 .. Len(submission)
        /\ submission[Len(dumps) + 1] \in Seq(Piece)
    <3>1. submission \in Seq(Seq(Piece)) /\ Len(submission) \in Nat /\ Len(dumps) \in Nat
      BY EntryFacts
    <3>2. Len(dumps) + 1 \in 1 .. Len(submission)
      BY <2>2, <3>1
    <3>3. QED BY <3>1, <3>2, ElementOfSeq
  <2>4. dump \in Seq(Nat)
    BY <2>1, <2>3, DumpFacts
  <2>5. Len(dumps') = Len(dumps) + 1
    BY <2>1, <2>4, AppendProperties DEF Types
  <2>6. program' = submission[Len(dumps) + 1]
    BY <2>2, <2>5 DEF program
  <2>7. Passed' = {}
    BY <2>2, <2>3, <2>6, NonePassed DEF Passed
  <2>8. Here' = {} /\ Len(packets') = 0
    BY <2>2, <2>7 DEF Here
  <2> DEFINE s == FreshStats(dump)
  <2>9. /\ s.PKT4Count = 0 /\ s.PKT7Count = 0 /\ s.RegWrites = 0
        /\ s.A8XXRegWrites = 0 /\ s.BarrierPackets = 0 /\ s.DrawPackets = 0 /\ s.NOPPackets = 0
        /\ \A op \in 0 .. 127 : s.UnknownOpcodes[op] = 0
    BY <2>4, FreshFacts
  <2> HIDE DEF s
  <2>10. \A c \in Counters : s[c] = 0
    BY <2>9 DEF Counters
  <2>11. Worth(submission, {}, s, 0)
    BY <2>9, <2>10, WorthOfNothing
  <2>12. Worth(submission', Here', stats', Len(packets'))
    BY <2>1, <2>2, <2>8, <2>11 DEF s
  <2>13. EntryCounts' = Worth(submission', Here', stats', Len(packets'))
    BY DEF EntryCounts, Worth
  <2>14. QED BY <2>12, <2>13
<1>6. QED BY <1>1, <1>3, <1>4, <1>5, Steps

\* Once an entry is decoded, its statistics are those of the pieces the dump has.
LEMMA WholeEntry ==
  ASSUME Types, InStep, EntryCounts, returned
  PROVE  Worth(submission, {Len(dumps)} \X There(Len(dumps)), stats, Len(packets))
<1> DEFINE E == Len(dumps)
           B == Here
           C == {E} \X There(E)
<1>1. /\ program \in Seq(Piece) /\ DOMAIN program = 1 .. Len(program)
      /\ \A k \in 1 .. Len(program) : program[k] \in Piece
      /\ Len(dwords) \in Nat /\ i \in Nat /\ i >= Len(dwords) /\ Len(program) \in Nat
  BY EntryFacts DEF Types, InStep
<1>2. \A k \in 1 .. Len(program) : Start(program, k) \in Nat
  <2>1. \A k \in 1 .. Len(program) : k \in 1 .. Len(program) + 1
    BY <1>1
  <2>2. QED BY <1>1, <2>1, StreamFacts
<1>3. There(E) = {k \in 1 .. Len(program) : Start(program, k) < Len(dwords)}
  BY <1>1 DEF There, program, dwords
<1>4. Passed = {k \in There(E) : program[k].type # "LOOSE"}
  BY <1>1, <1>2, <1>3 DEF Passed
<1>5. ASSUME NEW u, \A p \in Piece : p.type = "LOOSE" => u[p] = {}
      PROVE  Tally(submission, u, C) = Tally(submission, u, B)
  <2>1. \A b \in C : submission[b[1]][b[2]] = program[b[2]] /\ b[2] \in There(E)
    BY DEF program
  <2>2. \A b \in C : program[b[2]] \in Piece
    BY <1>1, <1>3, <2>1
  <2>3. \A b \in C : b \in B \/ program[b[2]].type = "LOOSE"
    BY <1>4 DEF Here
  <2>4. B \subseteq C
    BY <1>4 DEF Here
  <2> HIDE DEF B, C
  <2>5. \A b \in C \ B : u[submission[b[1]][b[2]]] = {}
    BY <1>5, <2>1, <2>2, <2>3
  <2>6. \A y : y \in Tally(submission, u, C) <=> y \in Tally(submission, u, B)
    <3>1. SUFFICES ASSUME NEW y
                   PROVE  y \in Tally(submission, u, C) <=> y \in Tally(submission, u, B)
      OBVIOUS
    <3>2. ASSUME y \in Tally(submission, u, C) PROVE y \in Tally(submission, u, B)
      <4>1. PICK b \in C : \E x \in u[submission[b[1]][b[2]]] : y = <<b, x>>
        BY <3>2, TallyMember
      <4>2. b \in B
        BY <2>5, <4>1
      <4>3. QED BY <4>1, <4>2, TallyMember
    <3>3. ASSUME y \in Tally(submission, u, B) PROVE y \in Tally(submission, u, C)
      BY <2>4, <3>3, TallyMember
    <3>4. QED BY <3>2, <3>3
  <2>7. QED BY <2>6
<1> HIDE DEF B, C
<1>6. Worth(submission, B, stats, Len(packets))
  BY DEF EntryCounts, B
<1>7. \A c \in Counters : Tally(submission, Unit(c), C) = Tally(submission, Unit(c), B)
  BY <1>5, LooseIsNothing
<1>8. \A op : Tally(submission, UnknownUnit(op), C) = Tally(submission, UnknownUnit(op), B)
  BY <1>5, LooseIsNothing
<1>9. Tally(submission, PacketUnit, C) = Tally(submission, PacketUnit, B)
  BY <1>5, LooseIsNothing
<1>10. Worth(submission, C, stats, Len(packets))
  BY <1>6, <1>7, <1>8, <1>9 DEF Worth
<1>11. QED BY <1>10 DEF C

LEMMA EntryCountsInvariant == Spec => []EntryCounts
<1>1. Spec => [](Types /\ InStep)
  BY TypesInvariant
<1>2. QED BY <1>1, EntryCountsInit, EntryCountsNext, PTL DEF Spec

\* The places of the first n entries, and their dwords.
Places(n) == UNION {{e} \X There(e) : e \in 1 .. n}
Dwords(n) == UNION {{e} \X DOMAIN dumps[e] : e \in 1 .. n}

\* The entries whose statistics are in the total.
Summed == IF merged THEN Len(dumps) ELSE Len(dumps) - 1

TotalCounts ==
  /\ Worth(submission, Places(Summed), total, total.TotalPackets)
  /\ HasSize(Dwords(Summed), total.TotalDwords)

LEMMA TotalCountsInit == Init => TotalCounts
<1> SUFFICES ASSUME Init PROVE TotalCounts
  OBVIOUS
<1>1. PICK dump \in Dumps(submission[1]) : dumps = <<dump>>
  BY DEF Init
<1>2. total = NoStats /\ merged = FALSE
  BY DEF Init
<1>3. Summed = 0
  BY <1>1, <1>2 DEF Summed
<1>4. Places(0) = {} /\ Dwords(0) = {}
  BY DEF Places, Dwords
<1>5. /\ NoStats.PKT4Count = 0 /\ NoStats.PKT7Count = 0 /\ NoStats.RegWrites = 0
      /\ NoStats.A8XXRegWrites = 0 /\ NoStats.BarrierPackets = 0 /\ NoStats.DrawPackets = 0
      /\ NoStats.NOPPackets = 0 /\ NoStats.TotalPackets = 0 /\ NoStats.TotalDwords = 0
      /\ \A op \in 0 .. 127 : NoStats.UnknownOpcodes[op] = 0
  BY DEF NoStats
<1>6. \A c \in Counters : NoStats[c] = 0
  BY <1>5 DEF Counters
<1>7. Worth(submission, {}, NoStats, 0)
  BY <1>5, <1>6, WorthOfNothing
<1>8. QED BY <1>2, <1>3, <1>4, <1>5, <1>7, SizeOfNothing DEF TotalCounts

LEMMA TotalCountsNext ==
  Types /\ InStep /\ Counted /\ EntryCounts /\ TotalCounts /\ [Next]_vars => TotalCounts'
<1> SUFFICES ASSUME Types, InStep, Counted, EntryCounts, TotalCounts, [Next]_vars PROVE TotalCounts'
  OBVIOUS
<1>1. CASE UNCHANGED <<submission, dumps, total, merged>>
  <2>1. Summed' = Summed
    BY <1>1 DEF Summed
  <2>2. \A n : Places(n)' = Places(n) /\ Dwords(n)' = Dwords(n)
    BY <1>1 DEF Places, Dwords, There
  <2>3. QED BY <1>1, <2>1, <2>2 DEF TotalCounts, Worth
<1>2. CASE Merge
  <2> DEFINE E == Len(dumps)
             B == Places(E - 1)
             C == {E} \X There(E)
             D == Dwords(E - 1)
             R == {E} \X DOMAIN dumps[E]
             r == Sum(total, stats)
  <2>1. /\ returned /\ ~merged /\ merged' = TRUE /\ total' = r
        /\ UNCHANGED <<submission, dumps>>
    BY <1>2 DEF Merge
  <2>2. E \in Nat /\ E >= 1 /\ dwords \in Seq(Nat) /\ Len(dwords) \in Nat
    BY EntryFacts
  <2>3. Worth(submission, B, total, total.TotalPackets) /\ HasSize(D, total.TotalDwords)
    BY <2>1 DEF TotalCounts, Summed
  <2>4. Worth(submission, C, stats, Len(packets))
    BY <2>1, WholeEntry
  <2>5. stats.TotalPackets = Len(packets) /\ stats.TotalDwords = Len(dwords)
    BY <2>1 DEF Counted
  <2>6. /\ \A c \in DOMAIN NoStats \ {"UnknownOpcodes"} : r[c] = total[c] + stats[c]
        /\ \A op \in 0 .. 127 :
              r.UnknownOpcodes[op] = total.UnknownOpcodes[op] + stats.UnknownOpcodes[op]
    BY SumType DEF Types
  <2>7. /\ \A c \in Counters : c \in DOMAIN NoStats \ {"UnknownOpcodes"}
        /\ {"TotalPackets", "TotalDwords"} \subseteq DOMAIN NoStats \ {"UnknownOpcodes"}
    BY DEF Counters, NoStats
  <2>8. 1 .. E = (1 .. E - 1) \union {E} /\ E \notin 1 .. E - 1
    BY <2>2
  <2>9. Places(E) = B \union C /\ Dwords(E) = D \union R
    BY <2>8 DEF Places, Dwords
  <2>10. B \cap C = {} /\ D \cap R = {}
    <3>1. \A b \in B : b[1] \in 1 .. E - 1
      BY DEF Places
    <3>2. \A b \in D : b[1] \in 1 .. E - 1
      BY DEF Dwords
    <3>3. (\A b \in C : b[1] = E) /\ (\A b \in R : b[1] = E)
      OBVIOUS
    <3> HIDE DEF B, C, D, R, E
    <3>4. QED BY <2>8, <3>1, <3>2, <3>3 DEF E
  <2>11. HasSize(R, Len(dwords))
    <3>1. DOMAIN dwords = 1 .. Len(dwords)
      BY <2>2, LenProperties
    <3>2. HasSize(DOMAIN dwords, Len(dwords))
      <4> DEFINE n == Len(dwords)
      <4>1. n \in Nat /\ DOMAIN dwords = 1 .. n
        BY <2>2, <3>1
      <4> HIDE DEF n
      <4>2. IsFiniteSet(1 .. n) /\ Cardinality(1 .. n) = IF 1 > n THEN 0 ELSE n - 1 + 1
        BY <4>1, FS_Interval
      <4>3. (IF 1 > n THEN 0 ELSE n - 1 + 1) = n
        BY <4>1
      <4>4. QED BY <4>1, <4>2, <4>3 DEF HasSize, n
    <3>3. QED BY <3>2, SizeOfRow DEF dwords
  <2> HIDE DEF r, B, C, D, R, E
  <2>12. \A c \in Counters : r[c] = total[c] + stats[c]
    BY <2>6, <2>7
  <2>13. /\ r.TotalPackets = total.TotalPackets + Len(packets)
         /\ r.TotalDwords = total.TotalDwords + Len(dwords)
    BY <2>5, <2>6, <2>7
  <2>14. Worth(submission, B \union C, r, r.TotalPackets)
    <3> DEFINE n == total.TotalPackets
               m == Len(packets)
    <3>1. Worth(submission, B, total, n) /\ Worth(submission, C, stats, m) /\ r.TotalPackets = n + m
      BY <2>3, <2>4, <2>13
    <3> HIDE DEF n, m
    <3>2. Adds(r, total, stats)
      BY <2>6, <2>12 DEF Adds
    <3>3. B \cap C = {}
      BY <2>10
    <3>4. Worth(submission, B \union C, r, n + m)
      BY <3>1, <3>2, <3>3, WorthAdds
    <3>5. QED BY <3>1, <3>4
  <2>15. HasSize(D \union R, r.TotalDwords)
    <3>1. HasSize(D \union R, total.TotalDwords + Len(dwords))
      BY <2>3, <2>10, <2>11, SizeAdds
    <3>2. QED BY <2>13, <3>1
  <2>16. Places(Summed)' = Places(E) /\ Dwords(Summed)' = Dwords(E)
    BY <2>1 DEF Places, Dwords, There, Summed, E
  <2>17. QED BY <2>1, <2>9, <2>14, <2>15, <2>16 DEF TotalCounts, Worth
<1>3. CASE NextEntry
  <2> DEFINE E == Len(dumps)
  <2>1. PICK dump \in Dumps(submission[Len(dumps) + 1]) : dumps' = Append(dumps, dump)
    BY <1>3 DEF NextEntry
  <2>2. merged /\ merged' = FALSE /\ UNCHANGED <<submission, total>> /\ Len(dumps) < Len(submission)
    BY <1>3 DEF NextEntry
  <2>3. dump \in Seq(Nat)
    <3>1. submission \in Seq(Seq(Piece)) /\ Len(submission) \in Nat /\ Len(dumps) \in Nat
      BY EntryFacts
    <3>2. Len(dumps) + 1 \in 1 .. Len(submission)
      BY <2>2, <3>1
    <3>3. QED BY <2>1, <3>1, <3>2, ElementOfSeq, DumpFacts
  <2>4. Len(dumps') = E + 1 /\ \A e \in 1 .. E : dumps'[e] = dumps[e]
    BY <2>1, <2>3, AppendProperties DEF Types
  <2>5. E \in Nat /\ (E + 1) - 1 = E
    BY EntryFacts
  <2>6. Summed = E /\ Summed' = E
    BY <2>2, <2>4, <2>5 DEF Summed
  <2> HIDE DEF E
  <2>7. Places(Summed)' = Places(E) /\ Dwords(Summed)' = Dwords(E)
    <3>1. \A e \in 1 .. E : There(e)' = There(e)
      BY <2>2, <2>4 DEF There
    <3>2. UNION {{e} \X There(e)' : e \in 1 .. E} = UNION {{e} \X There(e) : e \in 1 .. E}
      BY <3>1
    <3>3. UNION {{e} \X DOMAIN dumps'[e] : e \in 1 .. E}
            = UNION {{e} \X DOMAIN dumps[e] : e \in 1 .. E}
      BY <2>4
    <3>4. Places(Summed)' = UNION {{e} \X There(e)' : e \in 1 .. Summed'}
      BY DEF Places
    <3>5. Dwords(Summed)' = UNION {{e} \X DOMAIN dumps'[e] : e \in 1 .. Summed'}
      BY DEF Dwords
    <3>6. QED BY <2>6, <3>2, <3>3, <3>4, <3>5 DEF Places, Dwords
  <2>8. QED BY <2>2, <2>6, <2>7 DEF TotalCounts, Worth
<1>4. CASE Return \/ UNCHANGED vars
  BY <1>1, <1>4 DEF Return, vars
<1>5. ASSUME NEW k \in 1 .. Len(program), Takes(k) \/ Skips(k) PROVE TotalCounts'
  BY <1>1, <1>5 DEF Takes, Skips
<1>6. QED BY <1>2, <1>3, <1>4, <1>5, Steps

LEMMA TotalCountsInvariant == Spec => []TotalCounts
<1>1. Spec => [](Types /\ InStep)
  BY TypesInvariant
<1>2. Spec => [](Counted /\ Named)
  BY CountedInvariant
<1>3. Spec => []EntryCounts
  BY EntryCountsInvariant
<1>4. QED BY <1>1, <1>2, <1>3, TotalCountsInit, TotalCountsNext, PTL DEF Spec

\* How many places have a piece of a class.
LEMMA ClassCount ==
  ASSUME NEW sub, NEW B, \A b \in B : sub[b[1]][b[2]] \in Piece,
         NEW C, NEW n, HasSize(Tally(sub, Class(C), B), n)
  PROVE  Cardinality({b \in B : sub[b[1]][b[2]] \in C}) = n
<1> DEFINE S == {b \in B : sub[b[1]][b[2]] \in C}
           T == Tally(sub, Class(C), B)
<1>1. \A y : y \in T <=> \E b \in B : \E x \in Class(C)[sub[b[1]][b[2]]] : y = <<b, x>>
  BY TallyMember
<1>2. \A b \in B : Class(C)[sub[b[1]][b[2]]] = IF sub[b[1]][b[2]] \in C THEN {0} ELSE {}
  BY DEF Class
<1>3. T = S \X {0}
  <2>1. ASSUME NEW y \in T PROVE y \in S \X {0}
    <3>1. PICK b \in B : \E x \in Class(C)[sub[b[1]][b[2]]] : y = <<b, x>>
      BY <1>1, <2>1
    <3>2. b \in S /\ y = <<b, 0>>
      BY <1>2, <3>1
    <3>3. QED BY <3>2
  <2>2. ASSUME NEW b \in S PROVE <<b, 0>> \in T
    <3>1. b \in B /\ 0 \in Class(C)[sub[b[1]][b[2]]]
      BY <1>2
    <3>2. QED BY <1>1, <3>1
  <2> HIDE DEF S, T
  <2>3. QED BY <2>1, <2>2
<1>4. HasSize(S, n)
  <2> HIDE DEF S, T
  <2>1. HasSize(S \X {0}, n)
    BY <1>3 DEF T
  <2>2. QED BY <2>1, SizeOfColumn
<1>5. QED BY <1>4 DEF HasSize

\* Whatever is submitted and wherever the dumps of its entries end, the sum of
\* their statistics counts the packets it was built from.
THEOREM TotalsAreExact == Spec => []TotalsAreBuilt
<1>1. Types /\ TotalCounts => TotalsAreBuilt
  <2> SUFFICES ASSUME Types, TotalCounts, merged PROVE TotalsAreBuilt
    BY DEF TotalsAreBuilt
  <2> DEFINE built == UNION {{e} \X There(e) : e \in DOMAIN dumps}
             At(b) == submission[b[1]][b[2]]
             rows == UNION {{e} \X DOMAIN dumps[e] : e \in DOMAIN dumps}
  <2>1. DOMAIN dumps = 1 .. Len(dumps)
    BY LenProperties DEF Types
  <2>2. built = Places(Summed) /\ rows = Dwords(Summed)
    BY <2>1 DEF Places, Dwords, Summed
  <2>3. Worth(submission, built, total, total.TotalPackets) /\ HasSize(rows, total.TotalDwords)
    BY <2>2 DEF TotalCounts
  <2>4. \A b \in built : At(b) \in Piece
    <3>1. SUFFICES ASSUME NEW e \in DOMAIN dumps, NEW k \in There(e)
                   PROVE  submission[e][k] \in Piece
      OBVIOUS
    <3>2. submission[e] \in Seq(Piece) /\ k \in DOMAIN submission[e]
      BY <2>1, EntryFacts DEF There
    <3>3. QED BY <3>2, LenProperties, ElementOfSeq
  <2> HIDE DEF built, rows
  <2>5. /\ HasSize(Tally(submission, Class(OfTypes({"PKT4"})), built), total.PKT4Count)
        /\ HasSize(Tally(submission, Class(OfTypes({"PKT7"})), built), total.PKT7Count)
        /\ HasSize(Tally(submission, Writing, built), total.RegWrites)
        /\ HasSize(Tally(submission, Gen8, built), total.A8XXRegWrites)
        /\ HasSize(Tally(submission, Class(WithOps(BarrierOpcodes)), built), total.BarrierPackets)
        /\ HasSize(Tally(submission, Class(WithOps(DrawOpcodes)), built), total.DrawPackets)
        /\ HasSize(Tally(submission, Class(WithOps({PM4.NOP})), built), total.NOPPackets)
    <3>1. \A c \in Counters : HasSize(Tally(submission, Unit(c), built), total[c])
      BY <2>3 DEF Worth
    <3>2. Counters = {"PKT4Count", "PKT7Count", "RegWrites", "A8XXRegWrites", "BarrierPackets",
                      "DrawPackets", "NOPPackets"}
      BY DEF Counters
    <3>3. /\ Unit("PKT4Count") = Class(OfTypes({"PKT4"}))
          /\ Unit("PKT7Count") = Class(OfTypes({"PKT7"}))
          /\ Unit("RegWrites") = Writing
          /\ Unit("A8XXRegWrites") = Gen8
          /\ Unit("BarrierPackets") = Class(WithOps(BarrierOpcodes))
          /\ Unit("DrawPackets") = Class(WithOps(DrawOpcodes))
          /\ Unit("NOPPackets") = Class(WithOps({PM4.NOP}))
      BY DEF Unit
    <3>4. QED BY <3>1, <3>2, <3>3
  <2>6. ASSUME NEW T, NEW n, HasSize(Tally(submission, Class(OfTypes(T)), built), n)
        PROVE  Cardinality({b \in built : At(b).type \in T}) = n
    <3>1. {b \in built : At(b).type \in T} = {b \in built : At(b) \in OfTypes(T)}
      BY <2>4 DEF OfTypes
    <3>2. Cardinality({b \in built : At(b) \in OfTypes(T)}) = n
      BY <2>4, <2>6, ClassCount
    <3>3. QED BY <3>1, <3>2
  <2>7. ASSUME NEW S, NEW n, HasSize(Tally(submission, Class(WithOps(S)), built), n)
        PROVE  Cardinality({b \in built : At(b).type = "PKT7" /\ At(b).id \in S}) = n
    <3>1. {b \in built : At(b).type = "PKT7" /\ At(b).id \in S}
            = {b \in built : At(b) \in WithOps(S)}
      BY <2>4 DEF WithOps
    <3>2. Cardinality({b \in built : At(b) \in WithOps(S)}) = n
      BY <2>4, <2>7, ClassCount
    <3>3. QED BY <3>1, <3>2
  <2>8. total.TotalDwords = Cardinality(rows)
    BY <2>3 DEF HasSize
  <2>9. total.TotalPackets = Cardinality({b \in built : At(b).type \in {"PKT4", "PKT7"}})
    <3>1. HasSize(Tally(submission, Class(OfTypes({"PKT4", "PKT7"})), built), total.TotalPackets)
      BY <2>3 DEF Worth, PacketUnit
    <3>2. QED BY <2>6, <3>1
  <2>10. total.PKT4Count = Cardinality({b \in built : At(b).type \in {"PKT4"}})
    BY <2>5, <2>6
  <2>11. total.PKT7Count = Cardinality({b \in built : At(b).type \in {"PKT7"}})
    BY <2>5, <2>6
  <2>12. total.RegWrites = Cardinality(Writes(built, Nat))
    <3>1. \A b \in built : Writing[At(b)] = Written(At(b)) \cap Nat
      BY <2>4, WrittenSize DEF Writing
    <3>2. Writes(built, Nat) = Tally(submission, Writing, built)
      BY <3>1 DEF Writes, Tally
    <3>3. QED BY <2>5, <3>2 DEF HasSize
  <2>13. total.BarrierPackets
            = Cardinality({b \in built : At(b).type = "PKT7" /\ At(b).id \in BarrierOpcodes})
    BY <2>5, <2>7
  <2>14. total.DrawPackets
            = Cardinality({b \in built : At(b).type = "PKT7" /\ At(b).id \in DrawOpcodes})
    BY <2>5, <2>7
  <2>15. total.NOPPackets
            = Cardinality({b \in built : At(b).type = "PKT7" /\ At(b).id \in {PM4.NOP}})
    BY <2>5, <2>7
  <2>16. \A op \in DOMAIN total.UnknownOpcodes :
            total.UnknownOpcodes[op]
               = Cardinality({b \in built : At(b).type = "PKT7" /\ At(b).id \in {op} \ OpcodeNames})
    <3>1. DOMAIN total.UnknownOpcodes = 0 .. 127
      BY DEF Types, StatsType
    <3>2. \A op \in 0 .. 127 :
             HasSize(Tally(submission, Class(WithOps({op} \ OpcodeNames)), built),
                     total.UnknownOpcodes[op])
      BY <2>3 DEF Worth, UnknownUnit
    <3>3. QED BY <2>7, <3>1, <3>2
  <2>17. ASSUME \A b \in built : ~Straddles(At(b))
         PROVE  total.A8XXRegWrites = Cardinality(Writes(built, IsA8XXRegister))
    <3>1. ASSUME NEW p \in Piece, ~Straddles(p) PROVE Gen8[p] = Written(p) \cap IsA8XXRegister
      <4> DEFINE W == Written(p)
                 G == W \cap IsA8XXRegister
      <4>1. G = {} \/ G = W
        BY <3>1 DEF Straddles
      <4>2. W = {} \/ p.id \in W
        <5>1. CASE p.type = "PKT4"
          <6>1. p.id \in Nat /\ Len(p.payload) \in Nat
            BY <5>1, PieceWords DEF Piece, RegsOfHeader
          <6>2. W = {p.id + d : d \in 0 .. Len(p.payload) - 1}
            BY <5>1 DEF Written
          <6> DEFINE n == Len(p.payload)
                     a == p.id
          <6> HIDE DEF W, n, a
          <6>3. CASE n = 0
            <7>1. 0 .. n - 1 = {}
              BY <6>3
            <7>2. QED BY <6>2, <7>1 DEF n
          <6>4. CASE n # 0
            <7>1. 0 \in 0 .. n - 1 /\ a + 0 = a
              BY <6>1, <6>4 DEF n, a
            <7>2. a + 0 \in W
              BY <6>2, <7>1 DEF n, a
            <7>3. QED BY <7>1, <7>2 DEF a
          <6>5. QED BY <6>3, <6>4
        <5>2. CASE p.type # "PKT4"
          BY <5>2 DEF Written
        <5>3. QED BY <5>1, <5>2
      <4>3. Gen8[p] = IF p.id \in IsA8XXRegister THEN W ELSE {}
        BY DEF Gen8
      <4> HIDE DEF W
      <4>4. G = IF p.id \in IsA8XXRegister THEN W ELSE {}
        BY <4>1, <4>2
      <4>5. QED BY <4>3, <4>4 DEF W
    <3>2. \A b \in built : Gen8[At(b)] = Written(At(b)) \cap IsA8XXRegister
      BY <2>4, <2>17, <3>1
    <3>3. Writes(built, IsA8XXRegister) = Tally(submission, Gen8, built)
      BY <3>2 DEF Writes, Tally
    <3>4. QED BY <2>5, <3>3 DEF HasSize
  <2>18. QED
    BY <2>8, <2>9, <2>10, <2>11, <2>12, <2>13, <2>14, <2>15, <2>16, <2>17
    DEF TotalsAreBuilt, built, rows
<1>2. QED BY <1>1, TypesInvariant, TotalCountsInvariant, PTL
=============================================================================
