------------------------------ MODULE Bucketing ------------------------------
(***************************************************************************)
(* The bucket of a key (bucket.go): a Murmur3 variant on 32-bit words.  A  *)
(* word is its four bytes, little-endian.                                  *)
(***************************************************************************)
EXTENDS RowCodec, Bitwise

word(x) == little(x, 4)

bxor(a, b) == [i \in 1 .. 4 |-> a[i] ^^ b[i]]

\* The byte of x that starts at a bit; a bit past the end is 0.
byteOf(x, first) ==
  bit(x, first) + 2*bit(x, first+1) + 4*bit(x, first+2) + 8*bit(x, first+3)
  + 16*bit(x, first+4) + 32*bit(x, first+5) + 64*bit(x, first+6) + 128*bit(x, first+7)
shiftRight(x, n) == [i \in 1 .. 4 |-> byteOf(x, 8*(i - 1) + n)]
rotateLeft(x, n) == [i \in 1 .. 4 |-> byteOf(x \o x, (8*(i - 1) - n) % 32)]

\* Sums of products of bytes, carried into four bytes.
carry(c) ==
  LET c2 == c[2] + c[1] \div 256
      c3 == c[3] + c2 \div 256
      c4 == c[4] + c3 \div 256
  IN  <<c[1] % 256, c2 % 256, c3 % 256, c4 % 256>>
mul(a, b) ==
  carry(<<a[1]*b[1], a[1]*b[2] + a[2]*b[1], a[1]*b[3] + a[2]*b[2] + a[3]*b[1],
          a[1]*b[4] + a[2]*b[3] + a[3]*b[2] + a[4]*b[1]>>)
add(a, b) == carry([i \in 1 .. 4 |-> a[i] + b[i]])

murmurMixHash(hash, value) ==
  LET mixed == mul(rotateLeft(mul(value, <<81, 45, 158, 204>>), 15), <<147, 53, 135, 27>>)
  IN  add(mul(rotateLeft(bxor(hash, mixed), 13), word(5)), <<100, 107, 84, 230>>)

xorShift(x, n) == bxor(x, shiftRight(x, n))
murmurFinal(hash) ==
  xorShift(mul(xorShift(mul(xorShift(hash, 16), <<107, 202, 235, 133>>), 13),
               <<53, 174, 178, 194>>), 16)

\* Words of four bytes, then the tail bytes sign-extended to words.  (Binding
\* the next hash in a set makes TLC evaluate it before it goes on.)
RECURSIVE mixBytes(_, _)
mixBytes(hash, value) ==
  LET whole == Len(value) >= 4
      first == IF whole THEN SubSeq(value, 1, 4) ELSE word(signed(<<value[1]>>))
      rest  == SubSeq(value, IF whole THEN 5 ELSE 2, Len(value))
  IN  IF value = <<>> THEN hash
      ELSE CHOOSE result \in {mixBytes(next, rest) : next \in {murmurMixHash(hash, first)}} : TRUE

murmurBytes(value, seed) == murmurFinal(bxor(mixBytes(word(seed), value), word(Len(value))))

\* The absolute value of the hash; that of the least int32 is 0.
murmurInt(value) ==
  LET positive(hash) == IF hash[4] < 128 THEN hash
                        ELSE IF hash = <<0, 0, 0, 128>> THEN word(0)
                        ELSE add([i \in 1 .. 4 |-> 255 - hash[i]], word(1))
  IN  positive(murmurFinal(bxor(murmurMixHash(word(0), value), word(4))))

\* The bucket, from 0, of a key among n buckets; <<>> when there is none.
flussBucket(key, n) ==
  LET bucket(hash) == FoldRight(LAMBDA byte, rest : (rest * 256 + byte) % n, hash, 0)
  IN  IF key = <<>> \/ n <= 0 THEN <<>>
      ELSE <<bucket(murmurInt(murmurBytes(key, 42)))>>

\* The keys "a", "fluss", "0123456789" and U+00FF of TestFlussBucketMatchesJava091.
ASSUME JavaBuckets ==
  /\ flussBucket(<<97>>, 17) = <<11>>
  /\ flussBucket(<<102, 108, 117, 115, 115>>, 17) = <<13>>
  /\ flussBucket([i \in 1 .. 10 |-> 47 + i], 17) = <<0>>
  /\ flussBucket(<<195, 191>>, 17) = <<10>>
=============================================================================
