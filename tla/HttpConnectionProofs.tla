------------------------ MODULE HttpConnectionProofs ------------------------
(***************************************************************************)
(* Proofs about HttpConnection for requests of every shape, any number of  *)
(* them, buffers of every size and every way of cutting the stream into    *)
(* reads: the handler gets exactly the requests that were sent, none is    *)
(* lost when the client stops, and a 400 answers only a bad request.       *)
(***************************************************************************)
EXTENDS HttpConnection, SequenceTheorems, WellFoundedInduction, TLAPS

(* The places on the wire *)

Kinds == {"start", "hdr", "junk", "end", "size", "nl", "data"}
Token == [k : Kinds, req : Nat, n : Int]
TokenOf(i) == [k : Kinds, req : {i}, n : Int]

Request(i, r) == HeadOf(i, r) \o Payload(i, r)

\* Where request i of rs ends, and where the parser is done with it: the
\* empty line after a trailer is left to the next head.
End(rs, i) == Len(Wire(SubSeq(rs, 1, i)))
Left(r) == IF r.chunked /\ r.trailer THEN 1 ELSE 0
Done(rs, i) == IF i = 0 THEN 0 ELSE End(rs, i) - Left(rs[i])

\* Within a request: where chunk j begins, and where its data ends.
ChunkAt(r, j) == r.hlen + Before(r, j) + 3 * (j - 1)
ChunkEnd(r, j) == r.hlen + r.ends[j] + 3 * (j - 1) + 2

Size(r) == IF r.chunked THEN Before(r, Len(r.ends) + 1) ELSE Max({0, r.length})

\* s is what follows position a of w; there are the n bytes of body i after its
\* first d; the first line end there is the token a + q; s is the first n bytes
\* of body i.
Piece(s, w, a) == \A k \in 1..Len(s) : s[k] = w[a + k]
DataAt(w, a, n, i, d) == \A m \in 1..n : w[a + m] = Tok("data", i, d + m)
LineEnds(w, a, q) == w[a + q].k = "nl" /\ \A k \in 1..(q - 1) : w[a + k].k # "nl"
IsBody(s, i, n) == Len(s) = n /\ \A k \in 1..n : s[k] = Tok("data", i, k)

-----------------------------------------------------------------------------
(* The inductive invariant *)

LineStates == {"size", "crlf", "last"}
Reading == LineStates \cup {"body", "chunk", "respond"}
Active == Reading \cup {"head"}
Ended == {"closed", "failed", "finished"}

Types ==
    /\ reqs \in Seq(Shapes) /\ reqs # <<>>
    /\ mode \in {"simple", "kimojio"} \X BOOLEAN /\ (mode[1] = "kimojio" => ~mode[2])
    /\ stream \in Seq(Token) /\ pos \in 0..Len(stream)
    /\ peer \in {"open", "fin", "reset"}
    /\ pc \in Active \cup Ended
    /\ buf \in Seq(Token) /\ cap \in Nat \ {0} /\ line \in Seq(Token)
    /\ need \in Nat /\ body \in Seq(Token) /\ cur \in Nat
    /\ handled \in Seq([req : Nat, body : Seq(Token)]) /\ answers \in Seq(Nat)

\* What was sent is a beginning of the wire; a client that waits has sent nothing
\* behind the first unanswered request.
Sending ==
    /\ Len(stream) <= Len(Wire(reqs)) /\ Piece(stream, Wire(reqs), 0)
    /\ ~mode[2] /\ Len(answers) < Len(reqs) /\ pc \in Active =>
         pos <= End(reqs, Len(answers) + 1)

\* Requests are handled and answered one by one.
Turns ==
    /\ pc \in Active => \A k \in 1..Len(answers) : answers[k] = k
    /\ pc = "head" => Len(handled) = Len(answers) /\ Len(answers) <= Len(reqs)
    /\ pc \in Reading =>
         /\ cur = Len(answers) + 1 /\ cur <= Len(reqs)
         /\ Len(handled) = IF pc = "respond" THEN cur ELSE Len(answers)

\* The buffer continues the line, and both are what was read last.
At == pos - Len(buf)
LineAt == At - Len(line)

Buffered ==
    /\ pc \in Active => At >= 0 /\ Piece(buf, Wire(reqs), At)
    /\ pc \in LineStates =>
         /\ LineAt >= 0 /\ Piece(line, Wire(reqs), LineAt)
         /\ \A k \in 1..Len(line) : line[k].k # "nl"

\* Where the parser is in the request, and what of the body it has.
AtHead ==
    At \in Done(reqs, Len(answers))..End(reqs, Len(answers))

AtSize(i, r, e) ==
    \E j \in 1..(Len(r.ends) + 1) :
        need = 0 /\ LineAt = e + ChunkAt(r, j) /\ IsBody(body, i, Before(r, j))

AtChunk(i, r, e) ==
    \E j \in 1..Len(r.ends) :
        /\ need <= r.ends[j] - Before(r, j) /\ (need > 0 => buf = <<>>) /\ line = <<>>
        /\ At + need = e + ChunkEnd(r, j) /\ IsBody(body, i, r.ends[j] - need)

AtCrlf(i, r, e) ==
    \E j \in 1..Len(r.ends) :
        need = 0 /\ LineAt = e + ChunkEnd(r, j) /\ IsBody(body, i, r.ends[j])

AtLast(i, r, e) ==
    /\ need = 0 /\ LineAt = e + ChunkAt(r, Len(r.ends) + 1) + 2
    /\ IsBody(body, i, Size(r))

AtBody(i, r) ==
    /\ need <= Size(r) /\ (need > 0 => buf = <<>> /\ ~r.chunked)
    /\ At + need = Done(reqs, i) /\ IsBody(body, i, Size(r) - need)

Placed ==
    /\ pc = "head" => AtHead
    /\ pc \in LineStates \cup {"chunk"} => reqs[cur].chunked
    /\ pc = "size" => AtSize(cur, reqs[cur], End(reqs, cur - 1))
    /\ pc = "chunk" => AtChunk(cur, reqs[cur], End(reqs, cur - 1))
    /\ pc = "crlf" => AtCrlf(cur, reqs[cur], End(reqs, cur - 1))
    /\ pc = "last" => AtLast(cur, reqs[cur], End(reqs, cur - 1))
    /\ pc = "body" => AtBody(cur, reqs[cur])
    /\ pc = "respond" => At = Done(reqs, cur)

HttpInv ==
    /\ Types /\ Sending /\ Turns /\ Buffered /\ Placed
    /\ RequestsExact /\ BadRequestJustified /\ NothingLost
    /\ pc = "closed" => peer # "open"

-----------------------------------------------------------------------------
(* Numbers and sequences *)

\* A nonempty set of natural numbers has a least element: induction in the
\* form in which the provers can use it.
LEMMA LeastNat ==
  ASSUME NEW T \in SUBSET Nat, T # {}
  PROVE  \E m \in T : \A n \in T : m <= n
<1> DEFINE R == OpToRel(<, Nat)
<1>1. IsWellFoundedOn(R, Nat)
  BY NatLessThanWellFounded
<1>2. \A n, m \in Nat : <<n, m>> \in R <=> n < m
  BY DEF R, OpToRel
<1> HIDE DEF R
<1>3. PICK m \in T : \A n \in T : ~(<<n, m>> \in R)
  BY <1>1, WFMin
<1>4. \A n \in T : ~(n < m)
  BY <1>2, <1>3
<1> QED BY <1>3, <1>4

\* The same as induction: a set of numbers that has 0 and with n also n + 1
\* has them all.
LEMMA Induction ==
  ASSUME NEW G, 0 \in G, \A n \in Nat : n \in G => n + 1 \in G
  PROVE  Nat \subseteq G
<1> DEFINE T == Nat \ G
<1> SUFFICES ASSUME T # {} PROVE FALSE
  OBVIOUS
<1>1. PICK m \in T : \A n \in T : m <= n
  BY LeastNat
<1>2. m \in Nat /\ m \notin G /\ m # 0
  BY <1>1
<1>3. m - 1 \in Nat /\ ~(m <= m - 1) /\ (m - 1) + 1 = m
  BY <1>2
<1>4. m - 1 \in G
  BY <1>1, <1>3
<1> QED BY <1>2, <1>3, <1>4

\* The smaller and the larger of two numbers.
LEMMA MinOfTwo ==
  ASSUME NEW a \in Int, NEW b \in Int
  PROVE  Min({a, b}) = IF a <= b THEN a ELSE b
BY DEF Min

\* The larger of two numbers.
LEMMA MaxOfTwo ==
  ASSUME NEW a \in Int, NEW b \in Int
  PROVE  Max({a, b}) = IF a <= b THEN b ELSE a
BY DEF Max

\* The least element of a set.
LEMMA MinIs ==
  ASSUME NEW S \in SUBSET Int, NEW m \in S, \A y \in S : m <= y
  PROVE  Min(S) = m
<1>1. Min(S) \in S /\ \A y \in S : Min(S) <= y
  BY DEF Min
<1>2. Min(S) \in Int /\ m \in Int /\ Min(S) <= m /\ m <= Min(S)
  BY <1>1
<1> QED BY <1>2

\* The elements of a sequence made of two.
LEMMA Concat ==
  ASSUME NEW T, NEW s \in Seq(T), NEW t \in Seq(T)
  PROVE  /\ s \o t \in Seq(T) /\ Len(s \o t) = Len(s) + Len(t)
         /\ \A k \in 1..Len(s) : (s \o t)[k] = s[k]
         /\ \A k \in 1..Len(t) : (s \o t)[Len(s) + k] = t[k]
<1>1. /\ s \o t \in Seq(T) /\ Len(s \o t) = Len(s) + Len(t)
      /\ \A i \in 1..(Len(s) + Len(t)) : (s \o t)[i] = IF i <= Len(s) THEN s[i] ELSE t[i - Len(s)]
  BY ConcatProperties
<1>2. Len(s) \in Nat /\ Len(t) \in Nat
  OBVIOUS
<1> DEFINE u == s \o t
           a == Len(s)
           b == Len(t)
<1>3. /\ a \in Nat /\ b \in Nat
      /\ \A i \in 1..(a + b) : u[i] = IF i <= a THEN s[i] ELSE t[i - a]
  BY <1>1, <1>2
<1> HIDE DEF u, a, b
<1>4. \A k \in 1..a : u[k] = s[k]
  BY <1>3
<1>5. ASSUME NEW k \in 1..b PROVE u[a + k] = t[k]
  <2>1. a + k \in 1..(a + b) /\ ~(a + k <= a) /\ (a + k) - a = k
    BY <1>3
  <2> QED BY <1>3, <2>1
<1> QED BY <1>1, <1>4, <1>5 DEF u, a, b

\* The first n elements of a sequence, and what is left without them.
LEMMA Split ==
  ASSUME NEW T, NEW s \in Seq(T), NEW n \in 0..Len(s)
  PROVE  /\ SubSeq(s, 1, n) \in Seq(T) /\ Len(SubSeq(s, 1, n)) = n
         /\ \A k \in 1..n : SubSeq(s, 1, n)[k] = s[k]
         /\ Drop(s, n) \in Seq(T) /\ Len(Drop(s, n)) = Len(s) - n
         /\ \A k \in 1..(Len(s) - n) : Drop(s, n)[k] = s[n + k]
<1>1. \A k \in 1..Len(s) : s[k] \in T
  BY ElementOfSeq
<1> QED BY <1>1, SubSeqProperties DEF Drop

\* A part of a sequence.
LEMMA Part ==
  ASSUME NEW T, NEW s \in Seq(T), NEW p \in Nat, NEW n \in Nat, p + n <= Len(s)
  PROVE  /\ SubSeq(s, p + 1, p + n) \in Seq(T) /\ Len(SubSeq(s, p + 1, p + n)) = n
         /\ \A k \in 1..n : SubSeq(s, p + 1, p + n)[k] = s[p + k]
<1>1. \A k \in 1..Len(s) : s[k] \in T
  BY ElementOfSeq
<1> QED BY <1>1, SubSeqProperties

-----------------------------------------------------------------------------
(* FlattenSeq, a recursive function on the positions of a sequence of       *)
(* sequences: it exists, and appending a sequence appends it to the result. *)

FlatBody(ss, g) == [i \in 1..Len(ss) |-> IF i = 1 THEN ss[i] ELSE g[i - 1] \o ss[i]]
Flat(ss) == CHOOSE g : g = FlatBody(ss, g)

\* The first n steps of the function.
LEMMA FlatExists ==
  ASSUME NEW T, NEW ss \in Seq(Seq(T))
  PROVE  \E g \in [1..Len(ss) -> Seq(T)] : g = FlatBody(ss, g)
<1> DEFINE N == Len(ss)
           V(g, i) == IF i = 1 THEN ss[i] ELSE g[i - 1] \o ss[i]
           G == {n \in Nat : \E g \in [1..N -> Seq(T)] : \A i \in 1..N : i <= n => g[i] = V(g, i)}
<1>1. N \in Nat /\ \A i \in 1..N : ss[i] \in Seq(T)
  BY ElementOfSeq
<1>2. \A a, b \in Seq(T) : a \o b \in Seq(T)
  OBVIOUS
<1> HIDE DEF N
<1>3. 0 \in G
  <2> DEFINE g == [i \in 1..N |-> ss[i]]
  <2>1. g \in [1..N -> Seq(T)]
    BY <1>1
  <2>2. \A i \in 1..N : ~(i <= 0)
    BY <1>1
  <2> HIDE DEF g, V
  <2> QED BY <2>1, <2>2
<1>4. ASSUME NEW n \in Nat, n \in G PROVE n + 1 \in G
  <2>1. PICK g \in [1..N -> Seq(T)] : \A i \in 1..N : i <= n => g[i] = V(g, i)
    BY <1>4
  <2> DEFINE h == [i \in 1..N |-> IF i <= n THEN g[i] ELSE V(g, i)]
  <2>2. ASSUME NEW i \in 1..N PROVE V(g, i) \in Seq(T)
    <3>1. CASE i = 1
      BY <1>1, <3>1
    <3>2. CASE i # 1
      <4>1. i - 1 \in 1..N
        BY <1>1, <3>2
      <4> QED BY <1>1, <1>2, <3>2, <4>1
    <3> QED BY <3>1, <3>2
  <2>3. h \in [1..N -> Seq(T)]
    <3> HIDE DEF V
    <3> QED BY <2>2
  <2>4. ASSUME NEW i \in 1..N, i <= n + 1 PROVE h[i] = V(h, i)
    <3>1. h[i] = V(g, i)
      <4> HIDE DEF V
      <4> QED BY <2>1
    <3>2. CASE i = 1
      BY <3>1, <3>2
    <3>3. CASE i # 1
      <4>1. i - 1 \in 1..N /\ i - 1 <= n
        BY <1>1, <2>4, <3>3
      <4>2. h[i - 1] = g[i - 1]
        <5> HIDE DEF V
        <5> QED BY <4>1
      <4>3. V(h, i) = h[i - 1] \o ss[i] /\ V(g, i) = g[i - 1] \o ss[i]
        BY <3>3
      <4> HIDE DEF h, V
      <4> QED BY <3>1, <4>2, <4>3
    <3> QED BY <3>2, <3>3
  <2> HIDE DEF h, V
  <2>5. n + 1 \in Nat /\ \A i \in 1..N : i <= n + 1 => h[i] = V(h, i)
    BY <2>4
  <2> QED BY <2>3, <2>5
<1> HIDE DEF G
<1>5. N \in G
  BY <1>1, <1>3, <1>4, Induction
<1>6. PICK g \in [1..N -> Seq(T)] : \A i \in 1..N : i <= N => g[i] = V(g, i)
  BY <1>5 DEF G
<1>7. g = [i \in 1..N |-> V(g, i)]
  <2> HIDE DEF V
  <2>1. \A i \in 1..N : g[i] = V(g, i)
    BY <1>1, <1>6
  <2> QED BY <2>1
<1> QED BY <1>6, <1>7 DEF FlatBody, N

\* Its equation, and FlattenSeq as its last value.
LEMMA FlatEquation ==
  ASSUME NEW T, NEW ss \in Seq(Seq(T))
  PROVE  /\ \A i \in 1..Len(ss) : Flat(ss)[i] = IF i = 1 THEN ss[i] ELSE Flat(ss)[i - 1] \o ss[i]
         /\ \A i \in 1..Len(ss) : Flat(ss)[i] \in Seq(T)
         /\ Len(ss) # 0 => FlattenSeq(ss) = Flat(ss)[Len(ss)]
<1> DEFINE F == Flat(ss)
           N == Len(ss)
<1>1. F = FlatBody(ss, F)
  BY FlatExists DEF Flat
<1>2. N \in Nat /\ \A i \in 1..N : ss[i] \in Seq(T)
  BY ElementOfSeq
<1>3. N # 0 => FlattenSeq(ss) = F[N]
  BY DEF FlattenSeq, Flat, FlatBody
<1> HIDE DEF F
<1>4. \A i \in 1..N : F[i] = IF i = 1 THEN ss[i] ELSE F[i - 1] \o ss[i]
  <2>1. \A i \in 1..N : FlatBody(ss, F)[i] = IF i = 1 THEN ss[i] ELSE F[i - 1] \o ss[i]
    BY DEF FlatBody
  <2> QED BY <1>1, <2>1
<1>5. \A i \in 1..N : F[i] \in Seq(T)
  <2> DEFINE G == {n \in Nat : n + 1 \in 1..N => F[n + 1] \in Seq(T)}
  <2>1. 0 \in G
    BY <1>2, <1>4
  <2>2. ASSUME NEW n \in Nat, n \in G PROVE n + 1 \in G
    <3> SUFFICES ASSUME n + 2 \in 1..N PROVE F[n + 2] \in Seq(T)
      OBVIOUS
    <3>1. n + 1 \in 1..N /\ n + 2 # 1 /\ (n + 2) - 1 = n + 1
      BY <1>2
    <3>2. F[n + 2] = F[n + 1] \o ss[n + 2] /\ F[n + 1] \in Seq(T) /\ ss[n + 2] \in Seq(T)
      BY <1>2, <1>4, <2>2, <3>1
    <3> QED BY <3>2
  <2> HIDE DEF G
  <2>3. Nat \subseteq G
    BY <2>1, <2>2, Induction
  <2>4. ASSUME NEW i \in 1..N PROVE F[i] \in Seq(T)
    <3>1. i - 1 \in Nat /\ (i - 1) + 1 = i
      BY <1>2
    <3>2. i - 1 \in G
      BY <2>3, <3>1
    <3> QED BY <3>1, <3>2 DEF G
  <2> QED BY <2>4
<1> HIDE DEF N
<1> QED BY <1>3, <1>4, <1>5 DEF F, N

\* One more sequence is appended to the result.
LEMMA FlattenAppend ==
  ASSUME NEW T, NEW ss \in Seq(Seq(T)), NEW tt \in Seq(Seq(T)),
         Len(tt) = Len(ss) + 1, \A i \in 1..Len(ss) : ss[i] = tt[i]
  PROVE  /\ FlattenSeq(ss) \in Seq(T)
         /\ FlattenSeq(tt) = FlattenSeq(ss) \o tt[Len(tt)]
<1> DEFINE N == Len(ss)
           F == Flat(ss)
           H == Flat(tt)
<1>1. N \in Nat /\ (\A i \in 1..(N + 1) : tt[i] \in Seq(T))
  BY ElementOfSeq
<1>2. /\ \A i \in 1..N : F[i] = IF i = 1 THEN ss[i] ELSE F[i - 1] \o ss[i]
      /\ \A i \in 1..N : F[i] \in Seq(T)
      /\ N # 0 => FlattenSeq(ss) = F[N]
  BY FlatEquation
<1>3. /\ \A i \in 1..(N + 1) : H[i] = IF i = 1 THEN tt[i] ELSE H[i - 1] \o tt[i]
      /\ N + 1 # 0 => FlattenSeq(tt) = H[N + 1]
  BY FlatEquation
<1>4. \A i \in 1..N : ss[i] = tt[i]
  OBVIOUS
<1>5. N = 0 => FlattenSeq(ss) = <<>> /\ ss = <<>>
  BY EmptySeq DEF FlattenSeq
<1>6. tt[N + 1] = tt[Len(tt)]
  OBVIOUS
<1> HIDE DEF N, F, H
<1>7. ASSUME NEW i \in 1..N PROVE F[i] = H[i]
  <2> DEFINE G == {n \in Nat : n + 1 \in 1..N => F[n + 1] = H[n + 1]}
  <2>1. 0 \in G
    <3> SUFFICES ASSUME 1 \in 1..N PROVE F[1] = H[1]
      OBVIOUS
    <3>1. 1 \in 1..(N + 1)
      BY <1>1
    <3> QED BY <1>2, <1>3, <1>4, <3>1
  <2>2. ASSUME NEW n \in Nat, n \in G PROVE n + 1 \in G
    <3> SUFFICES ASSUME n + 2 \in 1..N PROVE F[n + 2] = H[n + 2]
      OBVIOUS
    <3>1. n + 1 \in 1..N /\ n + 2 # 1 /\ (n + 2) - 1 = n + 1 /\ n + 2 \in 1..(N + 1)
      BY <1>1
    <3>2. F[n + 2] = F[n + 1] \o ss[n + 2]
      BY <1>2, <3>1
    <3>3. H[n + 2] = H[n + 1] \o tt[n + 2]
      BY <1>3, <3>1
    <3>4. F[n + 1] = H[n + 1] /\ ss[n + 2] = tt[n + 2]
      BY <1>4, <2>2, <3>1
    <3> QED BY <3>2, <3>3, <3>4
  <2> HIDE DEF G
  <2>3. i - 1 \in Nat /\ (i - 1) + 1 = i
    BY <1>1
  <2>4. i - 1 \in G
    BY <2>1, <2>2, <2>3, Induction
  <2> QED BY <2>3, <2>4 DEF G
<1>8. CASE N = 0
  <2>1. FlattenSeq(tt) = H[N + 1] /\ N + 1 \in 1..(N + 1) /\ N + 1 = 1
    BY <1>3, <1>8
  <2>2. H[N + 1] = tt[N + 1] /\ tt[N + 1] \in Seq(T)
    BY <1>1, <1>3, <2>1
  <2>3. <<>> \o tt[N + 1] = tt[N + 1] /\ <<>> \in Seq(T)
    BY <2>2, ConcatEmptySeq
  <2> QED BY <1>5, <1>6, <1>8, <2>1, <2>2, <2>3
<1>9. CASE N # 0
  <2>1. FlattenSeq(tt) = H[N + 1] /\ N + 1 \in 1..(N + 1) /\ N + 1 # 1 /\ (N + 1) - 1 = N /\ N \in 1..N
    BY <1>1, <1>3, <1>9
  <2>2. H[N + 1] = H[N] \o tt[N + 1]
    BY <1>3, <2>1
  <2>3. H[N] = F[N] /\ FlattenSeq(ss) = F[N] /\ F[N] \in Seq(T)
    BY <1>2, <1>7, <1>9, <2>1
  <2> QED BY <1>6, <2>1, <2>2, <2>3
<1> QED BY <1>8, <1>9

\* The elements of a flattened sequence, when off says where each part ends.
LEMMA FlattenFacts ==
  ASSUME NEW T, NEW ss \in Seq(Seq(T)), NEW off \in [0..Len(ss) -> Nat], off[0] = 0,
         \A m \in 0..(Len(ss) - 1) : off[m + 1] = off[m] + Len(ss[m + 1])
  PROVE  /\ FlattenSeq(ss) \in Seq(T) /\ Len(FlattenSeq(ss)) = off[Len(ss)]
         /\ \A j \in 1..Len(ss) : off[j] <= off[Len(ss)]
         /\ \A j \in 1..Len(ss) : \A k \in 1..Len(ss[j]) : FlattenSeq(ss)[off[j - 1] + k] = ss[j][k]
<1> DEFINE N == Len(ss)
           Pre(n) == SubSeq(ss, 1, n)
           Good(f, n) ==
             /\ f \in Seq(T) /\ Len(f) = off[n]
             /\ \A j \in 1..n : off[j] <= off[n]
             /\ \A j \in 1..n : \A k \in 1..Len(ss[j]) : f[off[j - 1] + k] = ss[j][k]
           G == {n \in Nat : n <= N => Good(FlattenSeq(Pre(n)), n)}
<1>1. N \in Nat /\ (\A j \in 1..N : ss[j] \in Seq(T)) /\ (\A m \in 0..N : off[m] \in Nat)
      /\ \A m \in 0..(N - 1) : off[m + 1] = off[m] + Len(ss[m + 1])
  <2>1. N \in Nat /\ \A j \in 1..N : ss[j] \in Seq(T)
    BY ElementOfSeq
  <2> QED BY <2>1
<1>2. ASSUME NEW n \in 0..N
      PROVE  Pre(n) \in Seq(Seq(T)) /\ Len(Pre(n)) = n /\ \A j \in 1..n : Pre(n)[j] = ss[j]
  <2>1. n \in 0..Len(ss)
    OBVIOUS
  <2> QED BY ONLY <2>1, ss \in Seq(Seq(T)), Split
<1>3. Pre(N) = ss
  BY SubSeqFull
<1> HIDE DEF N, Pre
<1>4. 0 \in G
  <2>1. Pre(0) \in Seq(Seq(T)) /\ Len(Pre(0)) = 0
    BY <1>1, <1>2
  <2>2. FlattenSeq(Pre(0)) = Pre(0)
    BY <2>1 DEF FlattenSeq
  <2>3. Pre(0) = <<>>
    BY <2>1, EmptySeq
  <2>4. <<>> \in Seq(T) /\ Len(<<>>) = 0
    OBVIOUS
  <2> DEFINE f == FlattenSeq(Pre(0))
  <2>5. f \in Seq(T) /\ Len(f) = 0
    BY <2>2, <2>3, <2>4
  <2> HIDE DEF f
  <2>6. Good(f, 0)
    BY <2>5
  <2> QED BY <2>6 DEF f
<1>5. ASSUME NEW n \in Nat, n \in G PROVE n + 1 \in G
  <2> SUFFICES ASSUME n + 1 <= N PROVE Good(FlattenSeq(Pre(n + 1)), n + 1)
    <3> HIDE DEF Good
    <3> QED OBVIOUS
  <2> DEFINE f == FlattenSeq(Pre(n))
             g == FlattenSeq(Pre(n + 1))
             s == ss[n + 1]
             a == off[n]
             b == Len(s)
  <2>1. n \in 0..N /\ n + 1 \in 0..N /\ n + 1 \in 1..N /\ n <= N /\ n \in 0..(N - 1)
    BY <1>1
  <2>2. Good(f, n)
    BY <1>5, <2>1
  <2>3. /\ Pre(n) \in Seq(Seq(T)) /\ Len(Pre(n)) = n
        /\ Pre(n + 1) \in Seq(Seq(T)) /\ Len(Pre(n + 1)) = n + 1 /\ Pre(n + 1)[n + 1] = s
        /\ \A j \in 1..n : Pre(n)[j] = Pre(n + 1)[j]
    BY <1>2, <2>1
  <2>4. g = f \o s /\ f \in Seq(T) /\ s \in Seq(T)
    <3>1. Len(Pre(n + 1)) = Len(Pre(n)) + 1 /\ \A j \in 1..Len(Pre(n)) : Pre(n)[j] = Pre(n + 1)[j]
      BY <2>3
    <3>2. f \in Seq(T) /\ g = f \o Pre(n + 1)[Len(Pre(n + 1))]
      BY ONLY <2>3, <3>1, FlattenAppend
    <3> QED BY <1>1, <2>1, <2>3, <3>2
  <2>5. off[n + 1] = a + b /\ a \in Nat /\ b \in Nat
    BY <1>1, <2>1, <2>4
  <2>6. /\ Len(f) = a /\ (\A j \in 1..n : off[j] <= a)
        /\ \A j \in 1..n : \A k \in 1..Len(ss[j]) : f[off[j - 1] + k] = ss[j][k]
    BY <2>2
  <2> HIDE DEF f, g, s, G, Good
  <2>7. /\ g \in Seq(T) /\ Len(g) = Len(f) + Len(s)
        /\ \A k \in 1..Len(f) : g[k] = f[k]
        /\ \A k \in 1..Len(s) : g[Len(f) + k] = s[k]
    BY ONLY <2>4, Concat
  <2>8. Len(g) = off[n + 1]
    BY <2>5, <2>6, <2>7
  <2>9. ASSUME NEW j \in 1..(n + 1) PROVE off[j] <= off[n + 1]
    <3>1. off[j] \in Nat /\ (j \in 1..n \/ j = n + 1)
      BY <1>1, <2>1
    <3> HIDE DEF a, b
    <3> QED BY <2>5, <2>6, <3>1
  <2>10. ASSUME NEW j \in 1..(n + 1), NEW k \in 1..Len(ss[j]) PROVE g[off[j - 1] + k] = ss[j][k]
    <3>1. CASE j = n + 1
      <4>1. j - 1 = n
        BY <3>1
      <4> QED BY <2>6, <2>7, <2>10, <3>1, <4>1 DEF s
    <3>2. CASE j # n + 1
      <4>1. j \in 1..n /\ j \in 1..N /\ j - 1 \in 0..(N - 1) /\ (j - 1) + 1 = j /\ j - 1 \in 0..N
        BY <1>1, <2>1, <3>2
      <4>2. ss[j] \in Seq(T) /\ off[j] = off[j - 1] + Len(ss[j]) /\ off[j - 1] \in Nat /\ Len(ss[j]) \in Nat
        <5>1. ss[j] \in Seq(T) /\ off[j - 1] \in Nat
          BY <1>1, <4>1
        <5>2. off[(j - 1) + 1] = off[j - 1] + Len(ss[(j - 1) + 1])
          BY <1>1, <4>1
        <5> QED BY <4>1, <5>1, <5>2
      <4>3. off[j] <= a
        BY <2>6, <4>1
      <4>4. off[j - 1] + k \in 1..a
        <5> DEFINE x == off[j - 1]
                   y == Len(ss[j])
        <5>1. x \in Nat /\ y \in Nat /\ k \in 1..y /\ x + y <= a
          BY <4>2, <4>3
        <5> HIDE DEF x, y, a
        <5>2. x + k \in 1..a
          BY <2>5, <5>1
        <5> QED BY <5>2 DEF x
      <4>5. g[off[j - 1] + k] = f[off[j - 1] + k]
        BY <2>6, <2>7, <4>4
      <4> QED BY <2>6, <4>1, <4>5
    <3> QED BY <3>1, <3>2
  <2> QED BY <2>7, <2>8, <2>9, <2>10 DEF Good, g
<1> HIDE DEF G, Good
<1>6. N \in G
  BY <1>1, <1>4, <1>5, Induction
<1>7. Good(FlattenSeq(ss), N)
  BY <1>1, <1>3, <1>6 DEF G
<1> QED BY <1>7 DEF Good, N

-----------------------------------------------------------------------------
(* The wire *)

\* What is known of a shape.
LEMMA ShapeFacts ==
  ASSUME NEW r \in Shapes
  PROVE  /\ r.hlen \in Nat /\ r.hlen >= 2 /\ r.chunked \in BOOLEAN /\ r.trailer \in BOOLEAN
         /\ r.length \in Nat \cup {-1} /\ r.ends \in Seq(Nat) /\ Len(r.ends) \in Nat
         /\ \A j \in 1..Len(r.ends) : r.ends[j] \in Nat /\ Before(r, j) < r.ends[j]
         /\ \A j \in 1..(Len(r.ends) + 1) : Before(r, j) \in Nat
         /\ \A j \in 1..Len(r.ends) : Before(r, j + 1) = r.ends[j]
         /\ Before(r, 1) = 0
         /\ Size(r) \in Nat /\ (~r.chunked => Size(r) = IF r.length = -1 THEN 0 ELSE r.length)
<1>1. r \in Shape /\ r.hlen >= 2 /\ \A j \in 1..Len(r.ends) : Before(r, j) < r.ends[j]
  BY ShapesAssumption
<1>2. /\ r.hlen \in Nat /\ r.chunked \in BOOLEAN /\ r.trailer \in BOOLEAN
      /\ r.length \in Nat \cup {-1} /\ r.ends \in Seq(Nat)
  BY <1>1 DEF Shape
<1>3. Len(r.ends) \in Nat /\ \A j \in 1..Len(r.ends) : r.ends[j] \in Nat
  BY <1>2, ElementOfSeq
<1> DEFINE N == Len(r.ends)
<1> HIDE DEF N
<1>4. N \in Nat /\ \A j \in 1..N : r.ends[j] \in Nat
  BY <1>3 DEF N
<1>5. ASSUME NEW j \in 1..(N + 1) PROVE Before(r, j) \in Nat
  <2>1. j = 1 \/ j - 1 \in 1..N
    BY <1>4
  <2> QED BY <1>4, <2>1 DEF Before
<1>6. ASSUME NEW j \in 1..N PROVE Before(r, j + 1) = r.ends[j]
  <2>1. j + 1 # 1 /\ (j + 1) - 1 = j
    BY <1>4
  <2> QED BY <2>1 DEF Before
<1>7. Before(r, 1) = 0
  BY DEF Before
<1>8. Before(r, N + 1) \in Nat
  BY <1>4, <1>5
<1>9. Max({0, r.length}) = IF r.length = -1 THEN 0 ELSE r.length
  BY <1>2, MaxOfTwo
<1>10. Size(r) \in Nat
  BY <1>2, <1>8, <1>9 DEF Size, N
<1> QED BY <1>1, <1>2, <1>3, <1>5, <1>6, <1>7, <1>9, <1>10 DEF N, Size

\* Tokens.
LEMMA TokFacts ==
  ASSUME NEW k \in Kinds, NEW i \in Nat, NEW n \in Int
  PROVE  Tok(k, i, n) \in TokenOf(i) /\ Tok(k, i, n).k = k /\ Tok(k, i, n).req = i /\ Tok(k, i, n).n = n
BY DEF Tok, TokenOf

\* The kinds in use.
LEMMA KindFacts ==
  /\ "start" \in Kinds /\ "hdr" \in Kinds /\ "end" \in Kinds /\ "size" \in Kinds
  /\ "nl" \in Kinds /\ "data" \in Kinds
BY DEF Kinds

\* A stretch of n body bytes.
LEMMA DataFacts ==
  ASSUME NEW i \in Nat, NEW f \in Nat, NEW n \in Int
  PROVE  /\ Data(i, f, n) \in Seq(TokenOf(i))
         /\ Len(Data(i, f, n)) = IF n <= 0 THEN 0 ELSE n
         /\ \A k \in 1..Len(Data(i, f, n)) : Data(i, f, n)[k] = Tok("data", i, f + k)
<1> DEFINE m == Max({0, n})
<1>1. m \in Nat /\ m = IF n <= 0 THEN 0 ELSE n
  BY MaxOfTwo
<1> HIDE DEF m
<1>2. ASSUME NEW k \in 1..m PROVE Tok("data", i, f + k) \in TokenOf(i)
  <2>1. f + k \in Int
    BY <1>1
  <2> QED BY <2>1, TokFacts, KindFacts
<1> DEFINE d == [j \in 1..m |-> Tok("data", i, f + j)]
<1>3. d \in [1..m -> TokenOf(i)]
  BY <1>2
<1>4. d \in Seq(TokenOf(i)) /\ Len(d) = m
  BY <1>1, <1>3, LenProperties
<1>5. d = Data(i, f, n)
  BY DEF Data, m
<1> QED BY <1>1, <1>4, <1>5

\* One or two tokens.
LEMMA Tokens ==
  ASSUME NEW i, NEW a \in TokenOf(i), NEW b \in TokenOf(i)
  PROVE  /\ <<a>> \in Seq(TokenOf(i)) /\ Len(<<a>>) = 1 /\ <<a>>[1] = a
         /\ <<a, b>> \in Seq(TokenOf(i)) /\ Len(<<a, b>>) = 2
         /\ <<a, b>>[1] = a /\ <<a, b>>[2] = b
         /\ <<>> \in Seq(TokenOf(i)) /\ Len(<<>>) = 0
OBVIOUS

\* The elements of a sequence made of three.
LEMMA Concat3 ==
  ASSUME NEW T, NEW s \in Seq(T), NEW t \in Seq(T), NEW u \in Seq(T),
         NEW w, w = s \o t \o u
  PROVE  /\ w \in Seq(T) /\ Len(w) = Len(s) + Len(t) + Len(u)
         /\ \A k \in 1..Len(s) : w[k] = s[k]
         /\ \A k \in 1..Len(t) : w[Len(s) + k] = t[k]
         /\ \A k \in 1..Len(u) : w[Len(s) + Len(t) + k] = u[k]
<1> DEFINE a == Len(s)
           b == Len(t)
           c == Len(u)
           p == s \o t
           v == p \o u
<1>1. /\ p \in Seq(T) /\ Len(p) = a + b
      /\ \A k \in 1..a : p[k] = s[k]
      /\ \A k \in 1..b : p[a + k] = t[k]
  BY Concat
<1>2. a \in Nat /\ b \in Nat /\ c \in Nat
  OBVIOUS
<1> HIDE DEF p
<1>6. /\ v \in Seq(T) /\ Len(v) = Len(p) + c
      /\ \A k \in 1..Len(p) : v[k] = p[k]
      /\ \A k \in 1..c : v[Len(p) + k] = u[k]
  <2>1. p \in Seq(T)
    BY <1>1
  <2> QED BY ONLY <2>1, u \in Seq(T), Concat DEF v, c
<1> HIDE DEF a, b, c, v
<1>3. /\ v \in Seq(T) /\ Len(v) = (a + b) + c
      /\ \A k \in 1..(a + b) : v[k] = p[k]
      /\ \A k \in 1..c : v[(a + b) + k] = u[k]
  BY <1>1, <1>6
<1>4. ASSUME NEW k \in 1..a PROVE v[k] = s[k]
  <2>1. k \in 1..(a + b)
    BY <1>2
  <2> QED BY <1>1, <1>3, <2>1
<1>5. ASSUME NEW k \in 1..b PROVE v[a + k] = t[k]
  <2>1. a + k \in 1..(a + b)
    BY <1>2
  <2> QED BY <1>1, <1>3, <2>1
<1> QED BY <1>1, <1>3, <1>4, <1>5 DEF a, b, c, v, p

\* The head of request i: a start, headers and an end.
LEMMA HeadFacts ==
  ASSUME NEW i \in Nat, NEW r \in Shapes
  PROVE  LET h == HeadOf(i, r)
         IN  /\ h \in Seq(TokenOf(i)) /\ Len(h) = r.hlen
             /\ h[1].k = "start" /\ h[r.hlen].k = "end"
             /\ \A k \in 2..(r.hlen - 1) : h[k].k = IF r.flaw = "head" THEN "junk" ELSE "hdr"
<1> DEFINE n == r.hlen
           x == IF r.flaw = "head" THEN "junk" ELSE "hdr"
           s == <<Tok("start", i, 0)>>
           t == [j \in 1..(n - 2) |-> Tok(x, i, j)]
           u == <<Tok("end", i, 0)>>
           h == s \o t \o u
<1>1. n \in Nat /\ n >= 2
  BY ShapeFacts
<1>2. x \in Kinds
  BY DEF Kinds
<1>3. s \in Seq(TokenOf(i)) /\ Len(s) = 1 /\ s[1].k = "start"
  BY TokFacts, KindFacts, Tokens
<1>4. u \in Seq(TokenOf(i)) /\ Len(u) = 1 /\ u[1].k = "end"
  BY TokFacts, KindFacts, Tokens
<1>5. h = HeadOf(i, r)
  BY DEF HeadOf
<1> HIDE DEF n, x
<1>6. ASSUME NEW j \in 1..(n - 2) PROVE Tok(x, i, j) \in TokenOf(i) /\ Tok(x, i, j).k = x
  <2>1. j \in Int
    BY <1>1
  <2> QED BY <1>2, <2>1, TokFacts, KindFacts
<1>7. t \in [1..(n - 2) -> TokenOf(i)] /\ n - 2 \in Nat
  BY <1>1, <1>6
<1>8. t \in Seq(TokenOf(i)) /\ Len(t) = n - 2
  BY <1>7, LenProperties
<1>9. \A j \in 1..(n - 2) : t[j].k = x
  BY <1>6
<1>h. h = s \o t \o u
  OBVIOUS
<1> HIDE DEF s, t, u, h
<1>10. /\ h \in Seq(TokenOf(i)) /\ Len(h) = Len(s) + Len(t) + Len(u)
       /\ \A k \in 1..Len(s) : h[k] = s[k]
       /\ \A k \in 1..Len(t) : h[Len(s) + k] = t[k]
       /\ \A k \in 1..Len(u) : h[Len(s) + Len(t) + k] = u[k]
  <2>1. s \in Seq(TokenOf(i)) /\ t \in Seq(TokenOf(i)) /\ u \in Seq(TokenOf(i))
    BY <1>3, <1>4, <1>8
  <2> QED BY ONLY <2>1, <1>h, Concat3
<1>11. /\ Len(h) = 1 + (n - 2) + 1 /\ 1 + (n - 2) + 1 = n
       /\ \A k \in 1..1 : h[k] = s[k]
       /\ \A k \in 1..(n - 2) : h[1 + k] = t[k]
       /\ \A k \in 1..1 : h[1 + (n - 2) + k] = u[k]
  BY <1>1, <1>3, <1>4, <1>8, <1>10
<1>12. h[1] = s[1] /\ h[n] = u[1]
  BY <1>1, <1>11
<1>13. ASSUME NEW k \in 2..(n - 1) PROVE h[k] = t[k - 1] /\ k - 1 \in 1..(n - 2)
  <2>1. k - 1 \in 1..(n - 2) /\ 1 + (k - 1) = k
    BY <1>1
  <2> QED BY <1>11, <2>1
<1>15. \A k \in 2..(n - 1) : h[k].k = x
  BY <1>9, <1>13
<1>16. h \in Seq(TokenOf(i)) /\ Len(h) = n /\ h[1].k = "start" /\ h[n].k = "end"
  BY <1>3, <1>4, <1>10, <1>11, <1>12
<1> QED BY <1>5, <1>15, <1>16 DEF n, x

\* Chunk j of request i: its size, a line end, the data, a line end.
LEMMA ChunkFacts ==
  ASSUME NEW i \in Nat, NEW r \in Shapes, NEW j \in 1..Len(r.ends)
  PROVE  LET c == Chunk(i, r, j)
             z == r.ends[j] - Before(r, j)
         IN  /\ c \in Seq(TokenOf(i)) /\ Len(c) = z + 3
             /\ c[1] = Tok("size", i, z) /\ c[2] = Tok("nl", i, 0)
             /\ \A k \in 1..z : c[2 + k] = Tok("data", i, Before(r, j) + k)
             /\ c[z + 3] = Tok("nl", i, 0)
<1> DEFINE f == Before(r, j)
           z == r.ends[j] - f
           s == <<Tok("size", i, z), Tok("nl", i, 0)>>
           t == Data(i, f, z)
           u == <<Tok("nl", i, 0)>>
           c == s \o t \o u
<1>1. f \in Nat /\ r.ends[j] \in Nat /\ f < r.ends[j]
  <2>1. j \in 1..(Len(r.ends) + 1)
    BY ShapeFacts
  <2> QED BY <2>1, ShapeFacts
<1>2. z \in Nat /\ z > 0
  BY <1>1
<1>3. c = Chunk(i, r, j)
  BY DEF Chunk
<1> HIDE DEF z, f
<1>4. Tok("size", i, z) \in TokenOf(i) /\ Tok("nl", i, 0) \in TokenOf(i)
  BY <1>2, TokFacts, KindFacts
<1>5. /\ s \in Seq(TokenOf(i)) /\ Len(s) = 2 /\ s[1] = Tok("size", i, z) /\ s[2] = Tok("nl", i, 0)
      /\ u \in Seq(TokenOf(i)) /\ Len(u) = 1 /\ u[1] = Tok("nl", i, 0)
  BY <1>4, Tokens
<1>6. /\ t \in Seq(TokenOf(i)) /\ Len(t) = (IF z <= 0 THEN 0 ELSE z)
      /\ \A k \in 1..Len(t) : t[k] = Tok("data", i, f + k)
  <2>1. f \in Nat /\ z \in Int /\ i \in Nat
    BY <1>1, <1>2
  <2> QED BY ONLY <2>1, DataFacts DEF t
<1>h. c = s \o t \o u
  OBVIOUS
<1> HIDE DEF s, t, u, c
<1>7. /\ c \in Seq(TokenOf(i)) /\ Len(c) = Len(s) + Len(t) + Len(u)
      /\ \A k \in 1..Len(s) : c[k] = s[k]
      /\ \A k \in 1..Len(t) : c[Len(s) + k] = t[k]
      /\ \A k \in 1..Len(u) : c[Len(s) + Len(t) + k] = u[k]
  <2>1. s \in Seq(TokenOf(i)) /\ t \in Seq(TokenOf(i)) /\ u \in Seq(TokenOf(i))
    BY <1>5, <1>6
  <2> QED BY ONLY <2>1, <1>h, Concat3
<1>8. Len(t) = z
  BY <1>2, <1>6
<1>9. /\ Len(c) = 2 + z + 1 /\ (\A k \in 1..2 : c[k] = s[k])
      /\ (\A k \in 1..z : c[2 + k] = t[k]) /\ \A k \in 1..1 : c[2 + z + k] = u[k]
  BY <1>5, <1>7, <1>8
<1>10. c[1] = s[1] /\ c[2] = s[2] /\ c[z + 3] = u[1] /\ Len(c) = z + 3
  BY <1>2, <1>9
<1>11. \A k \in 1..z : c[2 + k] = Tok("data", i, f + k)
  BY <1>6, <1>8, <1>9
<1> QED BY <1>3, <1>5, <1>7, <1>10, <1>11 DEF z, f

\* The last chunk, with its trailer.
LEMMA LastChunkFacts ==
  ASSUME NEW i \in Nat, NEW r \in Shapes
  PROVE  LET c == LastChunk(i, r)
         IN  /\ c \in Seq(TokenOf(i)) /\ Len(c) = IF r.trailer THEN 5 ELSE 3
             /\ c[1] = Tok("size", i, IF r.flaw = "size" THEN -1 ELSE 0)
             /\ c[2] = Tok("nl", i, 0) /\ c[Len(c)] = Tok("nl", i, 0)
             /\ r.trailer => c[3] = Tok("hdr", i, 0) /\ c[4] = Tok("nl", i, 0)
<1> DEFINE z == IF r.flaw = "size" THEN -1 ELSE 0
           s == <<Tok("size", i, z), Tok("nl", i, 0)>>
           t == IF r.trailer THEN <<Tok("hdr", i, 0), Tok("nl", i, 0)>> ELSE <<>>
           u == <<Tok("nl", i, 0)>>
           c == s \o t \o u
<1>1. z \in Int
  OBVIOUS
<1>2. c = LastChunk(i, r)
  BY DEF LastChunk
<1> HIDE DEF z
<1>3. Tok("size", i, z) \in TokenOf(i) /\ Tok("nl", i, 0) \in TokenOf(i) /\ Tok("hdr", i, 0) \in TokenOf(i)
  BY <1>1, TokFacts, KindFacts
<1>4. /\ s \in Seq(TokenOf(i)) /\ Len(s) = 2 /\ s[1] = Tok("size", i, z) /\ s[2] = Tok("nl", i, 0)
      /\ u \in Seq(TokenOf(i)) /\ Len(u) = 1 /\ u[1] = Tok("nl", i, 0)
  BY <1>3, Tokens
<1>5. /\ t \in Seq(TokenOf(i)) /\ Len(t) = (IF r.trailer THEN 2 ELSE 0)
      /\ r.trailer => t[1] = Tok("hdr", i, 0) /\ t[2] = Tok("nl", i, 0)
  BY <1>3, Tokens
<1>h. c = s \o t \o u
  OBVIOUS
<1> HIDE DEF s, t, u, c
<1>6. /\ c \in Seq(TokenOf(i)) /\ Len(c) = Len(s) + Len(t) + Len(u)
      /\ \A k \in 1..Len(s) : c[k] = s[k]
      /\ \A k \in 1..Len(t) : c[Len(s) + k] = t[k]
      /\ \A k \in 1..Len(u) : c[Len(s) + Len(t) + k] = u[k]
  <2>1. s \in Seq(TokenOf(i)) /\ t \in Seq(TokenOf(i)) /\ u \in Seq(TokenOf(i))
    BY <1>4, <1>5
  <2> QED BY ONLY <2>1, <1>h, Concat3
<1>7. CASE r.trailer
  BY <1>2, <1>4, <1>5, <1>6, <1>7 DEF z
<1>8. CASE ~r.trailer
  BY <1>2, <1>4, <1>5, <1>6, <1>8 DEF z
<1> QED BY <1>7, <1>8

\* The data of a request without chunks.
LEMMA PlainRequest ==
  ASSUME NEW i \in Nat, NEW r \in Shapes, ~r.chunked
  PROVE  LET q == Request(i, r)
         IN  /\ q \in Seq(TokenOf(i)) /\ Len(q) = r.hlen + Size(r)
             /\ \A k \in 1..r.hlen : q[k] = HeadOf(i, r)[k]
             /\ \A k \in 1..Size(r) : q[r.hlen + k] = Tok("data", i, k)
<1> DEFINE h == HeadOf(i, r)
           d == Data(i, 0, r.length)
           q == h \o d
<1>1. q = Request(i, r)
  BY DEF Request, Payload
<1>2. h \in Seq(TokenOf(i)) /\ Len(h) = r.hlen
  BY HeadFacts
<1>3. r.length \in Int /\ Size(r) = IF r.length <= 0 THEN 0 ELSE r.length
  BY ShapeFacts
<1>4. /\ d \in Seq(TokenOf(i)) /\ Len(d) = (IF r.length <= 0 THEN 0 ELSE r.length)
      /\ \A k \in 1..Len(d) : d[k] = Tok("data", i, 0 + k)
  <2>1. r.length \in Int /\ 0 \in Nat /\ i \in Nat
    BY <1>3
  <2> QED BY ONLY <2>1, DataFacts
<1>5. Len(d) = Size(r)
  BY <1>3, <1>4
<1>6. \A k \in 1..Len(d) : d[k] = Tok("data", i, k)
  <2>1. \A k \in 1..Len(d) : 0 + k = k
    BY <1>4
  <2> QED BY <1>4, <2>1
<1> HIDE DEF h, d
<1>7. /\ q \in Seq(TokenOf(i)) /\ Len(q) = Len(h) + Len(d)
      /\ \A k \in 1..Len(h) : q[k] = h[k]
      /\ \A k \in 1..Len(d) : q[Len(h) + k] = d[k]
  <2>1. h \in Seq(TokenOf(i)) /\ d \in Seq(TokenOf(i))
    BY <1>2, <1>4
  <2> QED BY ONLY <2>1, Concat
<1> HIDE DEF q
<1>8. /\ q \in Seq(TokenOf(i)) /\ Len(q) = r.hlen + Size(r)
      /\ \A k \in 1..r.hlen : q[k] = h[k]
      /\ \A k \in 1..Size(r) : q[r.hlen + k] = Tok("data", i, k)
  BY <1>2, <1>5, <1>6, <1>7
<1> QED BY <1>1, <1>8 DEF h

\* Where the chunks lie among themselves.
LEMMA ChunksFacts ==
  ASSUME NEW i \in Nat, NEW r \in Shapes, NEW f,
         f = FlattenSeq([j \in 1..Len(r.ends) |-> Chunk(i, r, j)])
  PROVE  LET O(j) == Before(r, j) + 3 * (j - 1)
         IN  /\ f \in Seq(TokenOf(i)) /\ Len(f) = O(Len(r.ends) + 1)
             /\ \A j \in 1..Len(r.ends) :
                  /\ O(j + 1) <= Len(f)
                  /\ \A k \in 1..(r.ends[j] - Before(r, j) + 3) : f[O(j) + k] = Chunk(i, r, j)[k]
<1> DEFINE N == Len(r.ends)
           ss == [j \in 1..N |-> Chunk(i, r, j)]
           off == [m \in 0..N |-> Before(r, m + 1) + 3 * m]
<1>1. /\ N \in Nat /\ (\A j \in 1..(N + 1) : Before(r, j) \in Nat) /\ Before(r, 1) = 0
      /\ \A j \in 1..N : r.ends[j] \in Nat /\ Before(r, j) < r.ends[j] /\ Before(r, j + 1) = r.ends[j]
  BY ShapeFacts
<1>2. \A j \in 1..N : Chunk(i, r, j) \in Seq(TokenOf(i)) /\ Len(Chunk(i, r, j)) = r.ends[j] - Before(r, j) + 3
  BY ChunkFacts
<1>3. f = FlattenSeq(ss)
  OBVIOUS
<1> HIDE DEF N
<1>4. ss \in [1..N -> Seq(TokenOf(i))]
  BY <1>2
<1>5. ss \in Seq(Seq(TokenOf(i))) /\ Len(ss) = N /\ \A j \in 1..N : ss[j] = Chunk(i, r, j)
  BY <1>1, <1>4, LenProperties
<1>6. ASSUME NEW m \in 0..N PROVE off[m] = Before(r, m + 1) + 3 * m /\ off[m] \in Nat
  <2>1. m + 1 \in 1..(N + 1)
    BY <1>1
  <2>2. Before(r, m + 1) \in Nat
    BY <1>1, <2>1
  <2> QED BY <1>1, <2>2
<1> HIDE DEF ss
<1>7. off \in [0..N -> Nat] /\ off[0] = 0
  <2>1. off[0] = 0
    BY <1>1
  <2> QED BY <1>6, <2>1
<1>8. ASSUME NEW m \in 0..(N - 1) PROVE off[m + 1] = off[m] + Len(ss[m + 1])
  <2>1. m + 1 \in 1..N /\ m \in 0..N /\ m + 1 \in 0..N /\ m + 1 \in 1..(N + 1)
    BY <1>1
  <2>2. off[m] = Before(r, m + 1) + 3 * m /\ off[m + 1] = Before(r, (m + 1) + 1) + 3 * (m + 1)
    BY <1>6, <2>1
  <2>3. Before(r, (m + 1) + 1) = r.ends[m + 1] /\ Before(r, m + 1) \in Nat /\ r.ends[m + 1] \in Nat
    BY <1>1, <2>1
  <2>4. Len(ss[m + 1]) = r.ends[m + 1] - Before(r, m + 1) + 3
    BY <1>2, <1>5, <2>1
  <2> HIDE DEF off
  <2>5. \A x, y \in Nat : y + 3 * (m + 1) = (x + 3 * m) + (y - x + 3)
    BY <2>1
  <2> QED BY <2>2, <2>3, <2>4, <2>5
<1> HIDE DEF off
<1>9. /\ f \in Seq(TokenOf(i)) /\ Len(f) = off[N]
      /\ \A j \in 1..N : off[j] <= off[N]
      /\ \A j \in 1..N : \A k \in 1..Len(ss[j]) : f[off[j - 1] + k] = ss[j][k]
  <2>1. /\ ss \in Seq(Seq(TokenOf(i))) /\ off \in [0..Len(ss) -> Nat] /\ off[0] = 0 /\ Len(ss) = N
        /\ \A m \in 0..(Len(ss) - 1) : off[m + 1] = off[m] + Len(ss[m + 1])
    BY <1>5, <1>7, <1>8
  <2>2. /\ FlattenSeq(ss) \in Seq(TokenOf(i)) /\ Len(FlattenSeq(ss)) = off[Len(ss)]
        /\ \A j \in 1..Len(ss) : off[j] <= off[Len(ss)]
        /\ \A j \in 1..Len(ss) : \A k \in 1..Len(ss[j]) : FlattenSeq(ss)[off[j - 1] + k] = ss[j][k]
    BY ONLY <2>1, FlattenFacts
  <2> QED BY <1>3, <2>1, <2>2
<1>10. N \in 0..N /\ (N + 1) - 1 = N /\ off[N] = Before(r, N + 1) + 3 * ((N + 1) - 1)
  BY <1>1, <1>6
<1>11. ASSUME NEW j \in 1..N
       PROVE  /\ Before(r, j + 1) + 3 * ((j + 1) - 1) <= Len(f)
              /\ \A k \in 1..(r.ends[j] - Before(r, j) + 3) :
                   f[Before(r, j) + 3 * (j - 1) + k] = Chunk(i, r, j)[k]
  <2>1. j \in 0..N /\ j - 1 \in 0..N /\ (j - 1) + 1 = j /\ (j + 1) - 1 = j
    BY <1>1
  <2>2. off[j] = Before(r, j + 1) + 3 * j /\ off[j - 1] = Before(r, j) + 3 * (j - 1)
    BY <1>6, <2>1
  <2>3. Len(ss[j]) = r.ends[j] - Before(r, j) + 3 /\ ss[j] = Chunk(i, r, j)
    BY <1>2, <1>5
  <2>4. off[j] <= Len(f) /\ \A k \in 1..Len(ss[j]) : f[off[j - 1] + k] = ss[j][k]
    BY <1>9
  <2> QED BY <2>1, <2>2, <2>3, <2>4
<1> QED BY <1>9, <1>10, <1>11 DEF N

\* The chunks of a request, in their places.
LEMMA ChunkedRequest ==
  ASSUME NEW i \in Nat, NEW r \in Shapes, r.chunked
  PROVE  LET q == Request(i, r)
             l == ChunkAt(r, Len(r.ends) + 1)
         IN  /\ q \in Seq(TokenOf(i)) /\ l \in Nat /\ l >= r.hlen
             /\ Len(q) = l + (IF r.trailer THEN 5 ELSE 3)
             /\ \A k \in 1..r.hlen : q[k] = HeadOf(i, r)[k]
             /\ \A j \in 1..Len(r.ends) :
                  /\ ChunkAt(r, j + 1) <= l
                  /\ \A k \in 1..(r.ends[j] - Before(r, j) + 3) : q[ChunkAt(r, j) + k] = Chunk(i, r, j)[k]
             /\ \A k \in 1..(IF r.trailer THEN 5 ELSE 3) : q[l + k] = LastChunk(i, r)[k]
<1> DEFINE h == HeadOf(i, r)
           f == FlattenSeq([j \in 1..Len(r.ends) |-> Chunk(i, r, j)])
           c == LastChunk(i, r)
           p == f \o c
           q == h \o p
           N == Len(r.ends)
           a == r.hlen
           z == IF r.trailer THEN 5 ELSE 3
           O(j) == Before(r, j) + 3 * (j - 1)
           b == O(N + 1)
<1>1. q = Request(i, r)
  BY DEF Request, Payload
<1>2. h \in Seq(TokenOf(i)) /\ Len(h) = a
  BY HeadFacts
<1>3. c \in Seq(TokenOf(i)) /\ Len(c) = z
  BY LastChunkFacts
<1>4. /\ f \in Seq(TokenOf(i)) /\ Len(f) = b
      /\ \A j \in 1..N :
           /\ O(j + 1) <= b
           /\ \A k \in 1..(r.ends[j] - Before(r, j) + 3) : f[O(j) + k] = Chunk(i, r, j)[k]
  <2>1. f = FlattenSeq([j \in 1..Len(r.ends) |-> Chunk(i, r, j)])
    OBVIOUS
  <2> HIDE DEF f
  <2>2. LET P(j) == Before(r, j) + 3 * (j - 1)
         IN  /\ f \in Seq(TokenOf(i)) /\ Len(f) = P(Len(r.ends) + 1)
             /\ \A j \in 1..Len(r.ends) :
                  /\ P(j + 1) <= Len(f)
                  /\ \A k \in 1..(r.ends[j] - Before(r, j) + 3) : f[P(j) + k] = Chunk(i, r, j)[k]
    BY ONLY <2>1, i \in Nat, r \in Shapes, ChunksFacts, ZenonT(30)
  <2> QED BY <2>2
<1>5. N \in Nat /\ a \in Nat /\ z \in Nat /\ (\A j \in 1..(N + 1) : Before(r, j) \in Nat)
      /\ \A j \in 1..N : r.ends[j] \in Nat /\ Before(r, j) < r.ends[j] /\ Before(r, j + 1) = r.ends[j]
  BY ShapeFacts
<1> HIDE DEF h, f, c, N, a, z
<1>6. ASSUME NEW j \in 1..(N + 1) PROVE O(j) \in Nat /\ ChunkAt(r, j) = a + O(j)
  <2>1. Before(r, j) \in Nat /\ j - 1 \in Nat
    BY <1>5
  <2>2. ChunkAt(r, j) = a + Before(r, j) + 3 * (j - 1)
    BY DEF ChunkAt, a
  <2>3. \A x \in Nat : x + 3 * (j - 1) \in Nat /\ a + x + 3 * (j - 1) = a + (x + 3 * (j - 1))
    BY <1>5, <2>1
  <2> QED BY <2>1, <2>2, <2>3
<1>7. N + 1 \in 1..(N + 1) /\ b \in Nat /\ ChunkAt(r, N + 1) = a + b
  <2>1. N + 1 \in 1..(N + 1)
    BY <1>5
  <2> QED BY <1>6, <2>1
<1>8. /\ p \in Seq(TokenOf(i)) /\ Len(p) = Len(f) + Len(c)
      /\ \A k \in 1..Len(f) : p[k] = f[k]
      /\ \A k \in 1..Len(c) : p[Len(f) + k] = c[k]
  <2>1. f \in Seq(TokenOf(i)) /\ c \in Seq(TokenOf(i))
    BY <1>3, <1>4
  <2> QED BY ONLY <2>1, Concat
<1> HIDE DEF p
<1>9. /\ q \in Seq(TokenOf(i)) /\ Len(q) = Len(h) + Len(p)
      /\ \A k \in 1..Len(h) : q[k] = h[k]
      /\ \A k \in 1..Len(p) : q[Len(h) + k] = p[k]
  <2>1. h \in Seq(TokenOf(i)) /\ p \in Seq(TokenOf(i))
    BY <1>2, <1>8
  <2> QED BY ONLY <2>1, Concat
<1> HIDE DEF q, b, O
<1>10. /\ Len(p) = b + z /\ Len(q) = a + (b + z)
       /\ (\A k \in 1..b : p[k] = f[k]) /\ (\A k \in 1..z : p[b + k] = c[k])
       /\ (\A k \in 1..a : q[k] = h[k]) /\ \A k \in 1..(b + z) : q[a + k] = p[k]
  BY <1>2, <1>3, <1>4, <1>8, <1>9
<1>11. \A k \in 1..b : q[a + k] = f[k]
  <2>1. \A k \in 1..b : k \in 1..(b + z)
    BY <1>5, <1>7
  <2> QED BY <1>10, <2>1
<1>12. ASSUME NEW k \in 1..z PROVE q[a + b + k] = c[k]
  <2>1. b + k \in 1..(b + z) /\ a + b + k = a + (b + k)
    BY <1>5, <1>7
  <2> QED BY <1>10, <2>1
<1>13. ASSUME NEW j \in 1..N
       PROVE  /\ ChunkAt(r, j + 1) <= a + b
              /\ \A k \in 1..(r.ends[j] - Before(r, j) + 3) : q[ChunkAt(r, j) + k] = Chunk(i, r, j)[k]
  <2>1. j \in 1..(N + 1) /\ j + 1 \in 1..(N + 1)
    BY <1>5
  <2>2. O(j) \in Nat /\ O(j + 1) \in Nat /\ ChunkAt(r, j) = a + O(j) /\ ChunkAt(r, j + 1) = a + O(j + 1)
    BY <1>6, <2>1
  <2>3. O(j + 1) <= b
    BY <1>4
  <2>4. ChunkAt(r, j + 1) <= a + b
    BY <1>5, <1>7, <2>2, <2>3
  <2>5. O(j + 1) = O(j) + (r.ends[j] - Before(r, j) + 3)
    <3>1. Before(r, j + 1) = r.ends[j] /\ Before(r, j) \in Nat /\ r.ends[j] \in Nat
      BY <1>5, <2>1
    <3>2. \A x, y \in Nat : y + 3 * ((j + 1) - 1) = (x + 3 * (j - 1)) + (y - x + 3)
      BY <2>1
    <3> QED BY <3>1, <3>2 DEF O
  <2>6. ASSUME NEW k \in 1..(r.ends[j] - Before(r, j) + 3) PROVE q[ChunkAt(r, j) + k] = Chunk(i, r, j)[k]
    <3> DEFINE y == r.ends[j] - Before(r, j) + 3
               x == O(j)
    <3>1. y \in Nat /\ x \in Nat /\ k \in 1..y /\ x + y <= b
      BY <1>5, <2>1, <2>2, <2>3, <2>5
    <3> HIDE DEF x, y
    <3>2. x + k \in 1..b /\ (a + x) + k = a + (x + k)
      BY <1>5, <1>7, <3>1
    <3>3. q[(a + x) + k] = f[x + k]
      BY <1>11, <3>2
    <3>4. f[x + k] = Chunk(i, r, j)[k]
      BY <1>4 DEF x
    <3> QED BY <2>2, <3>3, <3>4 DEF x
  <2> QED BY <2>4, <2>6
<1>14. q \in Seq(TokenOf(i)) /\ Len(q) = a + b + z /\ a + b \in Nat /\ a + b >= a
       /\ \A k \in 1..a : q[k] = h[k]
  <2>1. a + (b + z) = a + b + z /\ a + b \in Nat /\ a + b >= a
    BY <1>5, <1>7
  <2> QED BY <1>9, <1>10, <2>1
<1> DEFINE l == ChunkAt(r, N + 1)
<1>15. l = a + b
  BY <1>7
<1> HIDE DEF l
<1>16. /\ q \in Seq(TokenOf(i)) /\ l \in Nat /\ l >= a /\ Len(q) = l + z
       /\ (\A k \in 1..a : q[k] = h[k])
       /\ (\A j \in 1..N :
             /\ ChunkAt(r, j + 1) <= l
             /\ \A k \in 1..(r.ends[j] - Before(r, j) + 3) : q[ChunkAt(r, j) + k] = Chunk(i, r, j)[k])
       /\ \A k \in 1..z : q[l + k] = c[k]
  BY <1>12, <1>13, <1>14, <1>15
<1> QED BY <1>1, <1>16 DEF l, a, z, N, h, c

\* The tokens of one request.
LEMMA RequestType ==
  ASSUME NEW i \in Nat, NEW r \in Shapes
  PROVE  /\ Request(i, r) \in Seq(Token)
         /\ \A k \in 1..Len(Request(i, r)) : Request(i, r)[k] \in Token /\ Request(i, r)[k].req = i
         /\ Len(Request(i, r)) \in Nat /\ Len(Request(i, r)) >= r.hlen
         /\ \A k \in 1..r.hlen : Request(i, r)[k] = HeadOf(i, r)[k]
<1> DEFINE q == Request(i, r)
<1>1. /\ q \in Seq(TokenOf(i)) /\ Len(q) \in Nat /\ Len(q) >= r.hlen
      /\ \A k \in 1..r.hlen : q[k] = HeadOf(i, r)[k]
  <2>1. r.hlen \in Nat /\ Size(r) \in Nat
    BY ShapeFacts
  <2>2. CASE r.chunked
    <3>1. q \in Seq(TokenOf(i)) /\ \A k \in 1..r.hlen : q[k] = HeadOf(i, r)[k]
      BY <2>2, ChunkedRequest
    <3> DEFINE l == ChunkAt(r, Len(r.ends) + 1)
    <3>2. l \in Nat /\ l >= r.hlen /\ Len(q) = l + (IF r.trailer THEN 5 ELSE 3)
      BY <2>2, ChunkedRequest
    <3> HIDE DEF l, q
    <3> QED BY <2>1, <3>1, <3>2
  <2>3. CASE ~r.chunked
    <3>1. q \in Seq(TokenOf(i)) /\ Len(q) = r.hlen + Size(r) /\ \A k \in 1..r.hlen : q[k] = HeadOf(i, r)[k]
      BY <2>3, PlainRequest
    <3> HIDE DEF q
    <3> QED BY <2>1, <3>1
  <2> QED BY <2>2, <2>3
<1> HIDE DEF q
<1>2. \A k \in 1..Len(q) : q[k] \in TokenOf(i)
  BY <1>1, ElementOfSeq
<1>3. \A t \in TokenOf(i) : t \in Token /\ t.req = i
  BY DEF TokenOf, Token
<1>4. q \in Seq(Token)
  <2>1. q = [k \in 1..Len(q) |-> q[k]]
    BY <1>1
  <2>2. \A k \in 1..Len(q) : q[k] \in Token
    BY <1>2, <1>3
  <2>3. [k \in 1..Len(q) |-> q[k]] \in [1..Len(q) -> Token]
    BY <2>2
  <2> QED BY <1>1, <2>1, <2>3
<1> QED BY <1>1, <1>2, <1>3, <1>4 DEF q

\* The requests behind each other.
LEMMA WireFacts ==
  ASSUME NEW rs \in Seq(Shapes)
  PROVE  /\ Wire(rs) \in Seq(Token) /\ Len(Wire(rs)) = End(rs, Len(rs))
         /\ End(rs, 0) = 0 /\ \A i \in 0..Len(rs) : End(rs, i) \in Nat
         /\ \A i \in 1..Len(rs) : End(rs, i) = End(rs, i - 1) + Len(Request(i, rs[i]))
         /\ \A i \in 1..Len(rs) : \A k \in 1..Len(Request(i, rs[i])) :
              Wire(rs)[End(rs, i - 1) + k] = Request(i, rs[i])[k]
<1> DEFINE N == Len(rs)
           Q(i) == Request(i, rs[i])
           Pre(n) == [i \in 1..n |-> Q(i)]
           off == [m \in 0..N |-> End(rs, m)]
<1>1. N \in Nat /\ \A i \in 1..N : rs[i] \in Shapes
  BY ElementOfSeq
<1>2. ASSUME NEW n \in 0..N
      PROVE  SubSeq(rs, 1, n) \in Seq(Shapes) /\ Len(SubSeq(rs, 1, n)) = n /\ \A i \in 1..n : SubSeq(rs, 1, n)[i] = rs[i]
  BY Split
<1>3. ASSUME NEW n \in 0..N PROVE Wire(SubSeq(rs, 1, n)) = FlattenSeq(Pre(n))
  <2> DEFINE s == SubSeq(rs, 1, n)
  <2>1. Len(s) = n /\ \A i \in 1..n : s[i] = rs[i]
    BY <1>2
  <2> HIDE DEF s
  <2>2. [i \in 1..Len(s) |-> HeadOf(i, s[i]) \o Payload(i, s[i])] = Pre(n)
    BY <2>1 DEF Request
  <2>3. Wire(s) = FlattenSeq([i \in 1..Len(s) |-> HeadOf(i, s[i]) \o Payload(i, s[i])])
    BY DEF Wire
  <2> HIDE DEF Pre
  <2> QED BY <2>2, <2>3 DEF s
<1>4. SubSeq(rs, 1, N) = rs
  BY SubSeqFull
<1> HIDE DEF N
<1>5. \A i \in 1..N : Q(i) \in Seq(Token) /\ Len(Q(i)) \in Nat
  <2>1. \A i \in 1..N : i \in Nat
    BY <1>1
  <2> QED BY <1>1, <2>1, RequestType
<1> HIDE DEF Q
<1>6. ASSUME NEW n \in 0..N PROVE Pre(n) \in Seq(Seq(Token)) /\ Len(Pre(n)) = n /\ \A i \in 1..n : Pre(n)[i] = Q(i)
  <2>1. n \in Nat /\ \A i \in 1..n : i \in 1..N
    BY <1>1
  <2>2. Pre(n) \in [1..n -> Seq(Token)]
    BY <1>5, <2>1
  <2> QED BY <2>1, <2>2, LenProperties
<1> HIDE DEF Pre
<1>7. FlattenSeq(Pre(0)) = <<>> /\ End(rs, 0) = 0
  <2>1. 0 \in 0..N
    BY <1>1
  <2>2. Pre(0) \in Seq(Seq(Token)) /\ Len(Pre(0)) = 0
    BY <1>6, <2>1
  <2>3. FlattenSeq(Pre(0)) = Pre(0) /\ Pre(0) = <<>>
    BY <2>2, EmptySeq DEF FlattenSeq
  <2>4. Len(<<>>) = 0
    OBVIOUS
  <2> QED BY <1>3, <2>1, <2>3, <2>4 DEF End
<1>8. ASSUME NEW m \in 0..(N - 1)
      PROVE  /\ FlattenSeq(Pre(m)) \in Seq(Token) /\ FlattenSeq(Pre(m + 1)) \in Seq(Token)
             /\ End(rs, m + 1) = End(rs, m) + Len(Q(m + 1))
  <2>1. m \in 0..N /\ m + 1 \in 0..N /\ m + 1 \in 1..N /\ m + 1 \in 1..(m + 1) /\ \A i \in 1..m : i \in 1..(m + 1)
    BY <1>1
  <2> DEFINE s == Pre(m)
             t == Pre(m + 1)
  <2>2. /\ s \in Seq(Seq(Token)) /\ t \in Seq(Seq(Token)) /\ Len(s) = m /\ Len(t) = m + 1
        /\ (\A i \in 1..m : s[i] = t[i]) /\ t[m + 1] = Q(m + 1)
    BY <1>6, <2>1
  <2> DEFINE f == FlattenSeq(s)
             g == FlattenSeq(t)
  <2>3. f \in Seq(Token) /\ g = f \o Q(m + 1)
    <3> HIDE DEF s, t
    <3>1. Len(t) = Len(s) + 1 /\ \A i \in 1..Len(s) : s[i] = t[i]
      BY <2>2
    <3>2. f \in Seq(Token) /\ g = f \o t[Len(t)]
      BY ONLY <2>2, <3>1, FlattenAppend
    <3> QED BY <2>2, <3>2
  <2>4. Q(m + 1) \in Seq(Token)
    BY <1>5, <2>1
  <2>5. End(rs, m) = Len(f) /\ End(rs, m + 1) = Len(g)
    BY <1>3, <2>1 DEF End
  <2> HIDE DEF f, g
  <2>6. f \o Q(m + 1) \in Seq(Token) /\ Len(f \o Q(m + 1)) = Len(f) + Len(Q(m + 1))
    BY ONLY <2>3, <2>4, Concat
  <2> QED BY <2>3, <2>5, <2>6 DEF f, g
<1>9. ASSUME NEW m \in 0..N PROVE FlattenSeq(Pre(m)) \in Seq(Token) /\ End(rs, m) \in Nat
  <2>1. m = 0 \/ (m - 1 \in 0..(N - 1) /\ (m - 1) + 1 = m)
    BY <1>1
  <2>2. <<>> \in Seq(Token)
    OBVIOUS
  <2>3. FlattenSeq(Pre(m)) \in Seq(Token)
    BY <1>7, <1>8, <2>1, <2>2
  <2>4. End(rs, m) = Len(FlattenSeq(Pre(m)))
    BY <1>3 DEF End
  <2> DEFINE f == FlattenSeq(Pre(m))
  <2> HIDE DEF f
  <2>5. f \in Seq(Token) => Len(f) \in Nat
    OBVIOUS
  <2> QED BY <2>3, <2>4, <2>5 DEF f
<1>10. ASSUME NEW i \in 1..N PROVE End(rs, i) = End(rs, i - 1) + Len(Q(i))
  <2>1. i - 1 \in 0..(N - 1) /\ (i - 1) + 1 = i
    BY <1>1
  <2>2. End(rs, (i - 1) + 1) = End(rs, i - 1) + Len(Q((i - 1) + 1))
    BY <1>8, <2>1
  <2> QED BY <2>1, <2>2
<1>11. off \in [0..N -> Nat] /\ off[0] = 0 /\ \A m \in 0..N : off[m] = End(rs, m)
  BY <1>1, <1>7, <1>9
<1> HIDE DEF off
<1>12. N \in 0..N /\ Wire(rs) = FlattenSeq(Pre(N)) /\ Pre(N) \in Seq(Seq(Token)) /\ Len(Pre(N)) = N
  <2>1. N \in 0..N
    BY <1>1
  <2> QED BY <1>3, <1>4, <1>6, <2>1
<1>13. \A m \in 0..(Len(Pre(N)) - 1) : off[m + 1] = off[m] + Len(Pre(N)[m + 1])
  <2> SUFFICES ASSUME NEW m \in 0..(N - 1) PROVE off[m + 1] = off[m] + Len(Pre(N)[m + 1])
    BY <1>12
  <2>1. m + 1 \in 1..N /\ m \in 0..N /\ m + 1 \in 0..N
    BY <1>1
  <2>2. Pre(N)[m + 1] = Q(m + 1)
    BY <1>6, <1>12, <2>1
  <2> QED BY <1>8, <1>11, <2>1, <2>2
<1>14. /\ Wire(rs) \in Seq(Token) /\ Len(Wire(rs)) = off[N]
       /\ \A j \in 1..N : \A k \in 1..Len(Pre(N)[j]) : Wire(rs)[off[j - 1] + k] = Pre(N)[j][k]
  <2> DEFINE s == Pre(N)
  <2>1. s \in Seq(Seq(Token)) /\ Len(s) = N /\ off \in [0..Len(s) -> Nat] /\ off[0] = 0
        /\ \A m \in 0..(Len(s) - 1) : off[m + 1] = off[m] + Len(s[m + 1])
    BY <1>11, <1>12, <1>13
  <2>2. Wire(rs) = FlattenSeq(s)
    BY <1>12
  <2> HIDE DEF s
  <2>3. /\ FlattenSeq(s) \in Seq(Token) /\ Len(FlattenSeq(s)) = off[Len(s)]
        /\ \A j \in 1..Len(s) : \A k \in 1..Len(s[j]) : FlattenSeq(s)[off[j - 1] + k] = s[j][k]
    BY ONLY <2>1, FlattenFacts
  <2> QED BY <2>1, <2>2, <2>3 DEF s
<1>15. ASSUME NEW i \in 1..N, NEW k \in 1..Len(Q(i)) PROVE Wire(rs)[End(rs, i - 1) + k] = Q(i)[k]
  <2>1. i - 1 \in 0..N
    BY <1>1
  <2>2. Pre(N)[i] = Q(i) /\ off[i - 1] = End(rs, i - 1)
    BY <1>6, <1>11, <1>12, <2>1
  <2> QED BY <1>14, <2>2
<1>16. Len(Wire(rs)) = End(rs, N)
  BY <1>11, <1>12, <1>14
<1> QED BY <1>7, <1>9, <1>10, <1>14, <1>15, <1>16 DEF N, Q

\* The ends are in order, and behind the end of request i are later requests.
LEMMA WireOrder ==
  ASSUME NEW rs \in Seq(Shapes)
  PROVE  /\ \A i, j \in 0..Len(rs) : i <= j => End(rs, i) <= End(rs, j)
         /\ \A i \in 0..Len(rs) : \A p \in 1..Len(Wire(rs)) : p > End(rs, i) => Wire(rs)[p].req > i
<1> DEFINE N == Len(rs)
           w == Wire(rs)
           E(i) == End(rs, i)
           Q(i) == Request(i, rs[i])
<1>1. /\ N \in Nat /\ Len(w) = E(N) /\ E(0) = 0 /\ (\A i \in 0..N : E(i) \in Nat)
      /\ (\A i \in 1..N : E(i) = E(i - 1) + Len(Q(i)))
      /\ \A i \in 1..N : \A k \in 1..Len(Q(i)) : w[E(i - 1) + k] = Q(i)[k]
  BY WireFacts
<1>2. ASSUME NEW i \in 1..N PROVE Len(Q(i)) \in Nat /\ \A k \in 1..Len(Q(i)) : Q(i)[k].req = i
  <2>1. i \in Nat /\ rs[i] \in Shapes
    BY <1>1, ElementOfSeq
  <2> QED BY <2>1, RequestType
<1> HIDE DEF N, w, E, Q
<1>3. ASSUME NEW i \in 0..N, NEW j \in 0..N, i <= j PROVE E(i) <= E(j)
  <2> DEFINE G == {n \in Nat : i + n <= N => E(i) <= E(i + n)}
  <2>1. 0 \in G
    <3>1. i + 0 = i /\ E(i) \in Nat
      BY <1>1
    <3> QED BY <3>1
  <2>2. ASSUME NEW n \in Nat, n \in G PROVE n + 1 \in G
    <3> SUFFICES ASSUME i + (n + 1) <= N PROVE E(i) <= E(i + (n + 1))
      OBVIOUS
    <3>1. i + n <= N /\ i + n \in 0..N /\ i + (n + 1) \in 1..N /\ (i + (n + 1)) - 1 = i + n
      BY <1>1
    <3>2. E(i + (n + 1)) = E(i + n) + Len(Q(i + (n + 1))) /\ Len(Q(i + (n + 1))) \in Nat
      BY <1>1, <1>2, <3>1
    <3>3. E(i) <= E(i + n) /\ E(i) \in Nat /\ E(i + n) \in Nat
      BY <1>1, <2>2, <3>1
    <3> QED BY <3>2, <3>3
  <2> HIDE DEF G
  <2>3. j - i \in Nat /\ i + (j - i) = j /\ j <= N
    BY <1>1, <1>3
  <2>4. j - i \in G
    BY <2>1, <2>2, <2>3, Induction
  <2> QED BY <2>3, <2>4 DEF G
<1>4. ASSUME NEW i \in 0..N, NEW p \in 1..Len(w), p > E(i) PROVE w[p].req > i
  <2> DEFINE T == {j \in 0..N : p <= E(j)}
  <2>1. T \in SUBSET Nat /\ N \in T
    BY <1>1
  <2>2. PICK j \in T : \A n \in T : j <= n
    BY <2>1, LeastNat
  <2>3. j \in 0..N /\ p <= E(j) /\ j # 0
    BY <1>1, <2>2
  <2>4. j \in 1..N /\ j - 1 \in 0..N /\ ~(j <= j - 1)
    BY <1>1, <2>3
  <2>5. ~(p <= E(j - 1))
    BY <2>2, <2>4
  <2> HIDE DEF T
  <2> DEFINE a == E(j - 1)
             b == Len(Q(j))
  <2>6. a \in Nat /\ b \in Nat /\ p > a /\ p <= a + b /\ p \in Nat
    BY <1>1, <1>2, <2>3, <2>4, <2>5
  <2>7. \A k \in 1..b : w[a + k] = Q(j)[k] /\ Q(j)[k].req = j
    BY <1>1, <1>2, <2>4
  <2> HIDE DEF a, b
  <2>8. p - a \in 1..b /\ a + (p - a) = p
    BY <2>6
  <2>9. w[p].req = j
    BY <2>7, <2>8
  <2>10. ~(j <= i)
    <3> SUFFICES ASSUME j <= i PROVE FALSE
      OBVIOUS
    <3>1. E(j) <= E(i) /\ E(j) \in Nat /\ E(i) \in Nat
      BY <1>1, <1>3, <2>3
    <3> QED BY <1>1, <1>4, <2>3, <2>6, <3>1
  <2> QED BY <1>1, <2>3, <2>9, <2>10
<1> QED BY <1>3, <1>4 DEF N, w, E

-----------------------------------------------------------------------------
(* The helpers of the parser *)

\* What parse makes of a buffer that holds z empty lines and (a part of) a head
\* of h tokens, with junk in it when bad: the head once it is complete, and an
\* error only for junk.
LEMMA ParseFacts ==
  ASSUME NEW b \in Seq(Token), NEW z \in Nat, NEW h \in Nat, h >= 2, NEW bad \in BOOLEAN,
         \A k \in 1..Len(b) :
           /\ k <= z => b[k].k = "nl"
           /\ k = z + 1 => b[k].k = "start"
           /\ z + 1 < k /\ k < z + h => b[k].k = IF bad THEN "junk" ELSE "hdr"
           /\ k = z + h => b[k].k = "end"
  PROVE  /\ parse(b) \in Int
         /\ parse(b) > 0 => parse(b) = z + h /\ z + h <= Len(b)
         /\ ~bad => parse(b) = IF z + h <= Len(b) THEN z + h ELSE 0
<1> DEFINE n == Len(b)
           S1 == {j \in 1..(n + 1) : j > n \/ b[j].k # "nl"}
           first == Min(S1)
           S2 == {j \in first..(n + 1) : j > n \/ b[j].k # (IF j = first THEN "start" ELSE "hdr")}
           stop == Min(S2)
<1>1. parse(b) = CASE stop > n -> 0
                   [] stop \in (first + 1)..n /\ b[stop].k = "end" -> stop
                   [] OTHER -> -1
  BY DEF parse
<1>2. n \in Nat
  OBVIOUS
<1>3. \A k \in 1..n :
        /\ k <= z => b[k].k = "nl"
        /\ k = z + 1 => b[k].k = "start"
        /\ z + 1 < k /\ k < z + h => b[k].k = IF bad THEN "junk" ELSE "hdr"
        /\ k = z + h => b[k].k = "end"
  OBVIOUS
<1> HIDE DEF n
<1>4. CASE n <= z
  <2>1. first = n + 1
    <3>1. S1 \in SUBSET Int /\ n + 1 \in S1 /\ \A y \in S1 : n + 1 <= y
      BY <1>2, <1>3, <1>4
    <3> HIDE DEF S1
    <3> QED BY <3>1, MinIs
  <2> HIDE DEF first
  <2>2. stop = n + 1
    <3>1. S2 \in SUBSET Int /\ n + 1 \in S2 /\ \A y \in S2 : n + 1 <= y
      BY <1>2, <2>1
    <3> HIDE DEF S2
    <3> QED BY <3>1, MinIs
  <2> HIDE DEF stop
  <2>3. parse(b) = 0
    BY <1>1, <1>2, <2>2
  <2>4. ~(z + h <= n)
    BY <1>2, <1>4
  <2> QED BY <2>3, <2>4 DEF n
<1>5. CASE z < n
  <2>1. first = z + 1
    <3>1. z + 1 \in 1..n /\ z + 1 \in 1..(n + 1) /\ b[z + 1].k = "start"
      BY <1>2, <1>3, <1>5
    <3>2. S1 \in SUBSET Int /\ z + 1 \in S1
      BY <1>2, <3>1
    <3>3. ASSUME NEW y \in S1 PROVE z + 1 <= y
      <4> SUFFICES ASSUME ~(z + 1 <= y) PROVE FALSE
        OBVIOUS
      <4>1. y \in 1..n /\ y <= z
        BY <1>2, <1>5
      <4> QED BY <1>2, <1>3, <4>1
    <3> HIDE DEF S1
    <3> QED BY <3>2, <3>3, MinIs
  <2> HIDE DEF first
  <2>2. /\ S2 \in SUBSET Nat /\ n + 1 \in S2
        /\ \A j \in S2 : j \in (z + 1)..(n + 1) /\ (j > n \/ b[j].k # (IF j = z + 1 THEN "start" ELSE "hdr"))
        /\ \A j \in (z + 1)..n : b[j].k # (IF j = z + 1 THEN "start" ELSE "hdr") => j \in S2
    BY <1>2, <1>5, <2>1
  <2>3. stop \in S2 /\ \A y \in S2 : stop <= y
    <3> HIDE DEF S2
    <3>1. \E m \in S2 : \A y \in S2 : m <= y
      BY <2>2, LeastNat
    <3> QED BY <3>1 DEF Min
  <2> HIDE DEF stop, S2
  <2>4. /\ stop \in (z + 1)..(n + 1) /\ (stop > n \/ b[stop].k # (IF stop = z + 1 THEN "start" ELSE "hdr"))
    BY <2>2, <2>3
  <2>5. stop > z + 1
    BY <1>2, <1>3, <1>5, <2>4
  <2>6. CASE stop > n
    <3>0. ~(stop \in (first + 1)..n)
      BY <1>2, <2>4, <2>6
    <3>1. parse(b) = 0
      BY <1>1, <2>6, <3>0
    <3>2. ~(z + h <= n)
      <4> SUFFICES ASSUME z + h <= n PROVE FALSE
        OBVIOUS
      <4>1. z + h \in (z + 1)..n /\ z + h # z + 1 /\ z + h \in 1..n
        BY <1>2
      <4>2. b[z + h].k = "end"
        BY <1>3, <4>1
      <4>3. z + h \in S2
        BY <2>2, <4>1, <4>2
      <4> QED BY <1>2, <2>3, <2>4, <2>6, <4>1, <4>3
    <3> QED BY <3>1, <3>2 DEF n
  <2>7. CASE stop <= n /\ stop < z + h
    <3>1. stop \in 1..n
      BY <1>2, <2>4, <2>7
    <3>2. bad /\ b[stop].k = "junk"
      BY <1>2, <1>3, <2>4, <2>5, <2>7, <3>1
    <3>3. parse(b) = -1
      BY <1>1, <1>2, <2>4, <2>7, <3>2
    <3> QED BY <3>2, <3>3
  <2>8. CASE stop <= n /\ stop >= z + h
    <3>1. z + h \in (z + 1)..n /\ z + h # z + 1 /\ z + h \in 1..n
      BY <1>2, <2>4, <2>8
    <3>2. b[z + h].k = "end"
      BY <1>3, <3>1
    <3>3. z + h \in S2
      BY <2>2, <3>1, <3>2
    <3>4. stop <= z + h
      BY <2>3, <3>3
    <3>5. stop = z + h
      BY <1>2, <2>4, <2>8, <3>4
    <3>6. parse(b) = z + h
      BY <1>1, <1>2, <2>1, <2>5, <2>8, <3>2, <3>5
    <3> QED BY <3>1, <3>6 DEF n
  <2> QED BY <1>2, <2>4, <2>6, <2>7, <2>8
<1> QED BY <1>2, <1>4, <1>5

\* What a client has sent: no more than the stream, and, if it waits for its
\* answers, nothing behind the request after the answered ones.
LEMMA ArrivedFacts ==
  ASSUME Types, Sending
  PROVE  /\ Arrived \in 0..Len(stream)
         /\ ~mode[2] /\ Len(answers) < Len(reqs) => Arrived <= End(reqs, Len(answers) + 1)
<1> DEFINE n == Len(stream)
           i == Len(answers) + 1
           S == {0} \cup {j \in 1..n : stream[j].req <= i}
<1>1. n \in Nat /\ Len(answers) \in Nat /\ Len(reqs) \in Nat /\ reqs \in Seq(Shapes)
  BY DEF Types
<1>2. Arrived = IF mode[2] THEN n ELSE Max(S)
  BY DEF Arrived
<1>3. Max(S) \in S
  <2> DEFINE T == {k \in Nat : \A y \in S : y <= k}
  <2>1. S \in SUBSET Nat /\ 0 \in S /\ \A y \in S : y <= n
    BY <1>1
  <2> HIDE DEF S
  <2>2. T \in SUBSET Nat /\ n \in T
    BY <1>1, <2>1
  <2>3. PICK k \in T : \A y \in T : k <= y
    BY <2>2, LeastNat
  <2>4. k \in Nat /\ \A y \in S : y <= k
    BY <2>3
  <2>5. k \in S
    <3> SUFFICES ASSUME k \notin S PROVE FALSE
      OBVIOUS
    <3>1. k # 0 /\ k - 1 \in Nat /\ ~(k <= k - 1)
      BY <2>1, <2>4
    <3>2. \A y \in S : y <= k - 1
      BY <2>1, <2>4
    <3>3. k - 1 \in T
      BY <3>1, <3>2
    <3> QED BY <2>3, <3>1, <3>3
  <2>6. \A y \in S : k >= y
    BY <2>1, <2>4
  <2> QED BY <2>5, <2>6 DEF Max
<1>4. Arrived \in 0..n
  <2>1. \A y \in S : y \in 0..n
    BY <1>1
  <2> HIDE DEF S
  <2> QED BY <1>1, <1>2, <1>3, <2>1
<1>5. ASSUME ~mode[2], Len(answers) < Len(reqs) PROVE Arrived <= End(reqs, i)
  <2>1. Arrived = Max(S)
    BY <1>2, <1>5
  <2>2. Arrived = 0 \/ (Arrived \in 1..n /\ stream[Arrived].req <= i)
    BY <1>3, <2>1
  <2>3. i \in 0..Len(reqs) /\ End(reqs, i) \in Nat
    <3>1. i \in 0..Len(reqs)
      BY <1>1, <1>5
    <3> QED BY <1>1, <3>1, WireFacts
  <2>4. ASSUME Arrived \in 1..n, stream[Arrived].req <= i PROVE Arrived <= End(reqs, i)
    <3> DEFINE w == Wire(reqs)
               a == Arrived
    <3>1. w \in Seq(Token) /\ n <= Len(w) /\ stream[a] = w[0 + a] /\ a \in 1..n /\ Len(w) \in Nat
      <4>1. w \in Seq(Token)
        BY <1>1, WireFacts
      <4>2. n <= Len(w) /\ \A k \in 1..n : stream[k] = w[0 + k]
        BY DEF Sending, Piece
      <4> QED BY <2>4, <4>1, <4>2
    <3> HIDE DEF n, w, a
    <3>2. a \in 1..Len(w) /\ 0 + a = a
      BY <1>1, <3>1
    <3>3. w[a].req <= i
      BY <2>4, <3>1, <3>2 DEF a
    <3>4. w[a] \in Token
      BY <3>1, <3>2, ElementOfSeq
    <3>5. w[a].req \in Nat
      BY <3>4 DEF Token
    <3>6. ~(a > End(reqs, i))
      <4>1. a > End(reqs, i) => w[a].req > i
        BY <1>1, <2>3, <3>2, WireOrder DEF w
      <4> QED BY <1>1, <3>3, <3>5, <4>1
    <3>7. a \in Nat
      BY <3>2
    <3> QED BY <2>3, <3>6, <3>7 DEF a
  <2> QED BY <2>2, <2>3, <2>4
<1> QED BY <1>4, <1>5

-----------------------------------------------------------------------------
(* The wire, by position: w is what is sent and e the end of the request      *)
(* before request i.                                                        *)

\* The head, and the bounds of the request.
LEMMA HeadLayout ==
  ASSUME NEW rs \in Seq(Shapes), NEW i \in 1..Len(rs), NEW r, r = rs[i],
         NEW w, w = Wire(rs), NEW e, e = End(rs, i - 1)
  PROVE  /\ r \in Shapes /\ i \in Nat /\ w \in Seq(Token) /\ Len(w) \in Nat
         /\ e \in Nat /\ End(rs, i) \in Nat
         /\ End(rs, i) = e + Len(Request(i, r)) /\ End(rs, i) <= Len(w)
         /\ e + r.hlen <= End(rs, i)
         /\ \A k \in 1..Len(Request(i, r)) : w[e + k] = Request(i, r)[k]
         /\ w[e + 1].k = "start" /\ w[e + r.hlen].k = "end" /\ w[e + r.hlen].req = i
         /\ \A k \in 2..(r.hlen - 1) : w[e + k].k = IF r.flaw = "head" THEN "junk" ELSE "hdr"
<1> DEFINE q == Request(i, r)
           m == Len(q)
<1>1. i \in Nat /\ i - 1 \in 0..Len(rs) /\ i \in 0..Len(rs) /\ Len(rs) \in 0..Len(rs) /\ i <= Len(rs)
  OBVIOUS
<1>2. r \in Shapes
  BY ElementOfSeq
<1>3. /\ w \in Seq(Token) /\ Len(w) = End(rs, Len(rs)) /\ e \in Nat /\ End(rs, i) \in Nat
      /\ End(rs, i) = e + m /\ \A k \in 1..m : w[e + k] = q[k]
  BY <1>1, WireFacts
<1>4. End(rs, i) <= Len(w)
  BY <1>1, <1>3, WireOrder
<1>5. /\ m \in Nat /\ r.hlen \in Nat /\ r.hlen >= 2 /\ m >= r.hlen
      /\ \A k \in 1..m : q[k].req = i
      /\ \A k \in 1..r.hlen : q[k] = HeadOf(i, r)[k]
  BY <1>1, <1>2, RequestType, ShapeFacts
<1>6. /\ HeadOf(i, r)[1].k = "start" /\ HeadOf(i, r)[r.hlen].k = "end"
      /\ \A k \in 2..(r.hlen - 1) : HeadOf(i, r)[k].k = IF r.flaw = "head" THEN "junk" ELSE "hdr"
  BY <1>1, <1>2, HeadFacts, ZenonT(30)
<1>7. Len(w) \in Nat
  BY <1>3
<1> HIDE DEF q, m
<1>8. e + r.hlen <= End(rs, i)
  BY <1>3, <1>5
<1>9. 1 \in 1..m /\ r.hlen \in 1..m /\ 1 \in 1..r.hlen /\ r.hlen \in 1..r.hlen
  BY <1>5
<1> DEFINE h == r.hlen
           g == HeadOf(i, r)
<1>a. /\ \A k \in 1..m : w[e + k] = q[k] /\ q[k].req = i
      /\ \A k \in 1..h : k \in 1..m /\ q[k] = g[k]
      /\ 1 \in 1..h /\ h \in 1..h /\ g[1].k = "start" /\ g[h].k = "end"
      /\ \A k \in 2..(h - 1) : k \in 1..h /\ g[k].k = IF r.flaw = "head" THEN "junk" ELSE "hdr"
  BY <1>3, <1>5, <1>6, <1>9, SMTT(30)
<1> HIDE DEF h, g
<1>b. \A k \in 1..h : w[e + k] = g[k] /\ g[k].req = i
  BY <1>a
<1>10. w[e + 1].k = "start" /\ w[e + h].k = "end" /\ w[e + h].req = i
  BY <1>a, <1>b
<1>11. \A k \in 2..(h - 1) : w[e + k].k = IF r.flaw = "head" THEN "junk" ELSE "hdr"
  BY <1>a, <1>b
<1> QED BY <1>1, <1>2, <1>3, <1>4, <1>7, <1>8, <1>10, <1>11 DEF q, m, h

\* A request with a body of a given length.
LEMMA PlainLayout ==
  ASSUME NEW rs \in Seq(Shapes), NEW i \in 1..Len(rs), NEW r, r = rs[i], ~r.chunked,
         NEW w, w = Wire(rs), NEW e, e = End(rs, i - 1)
  PROVE  /\ End(rs, i) = e + r.hlen + Size(r) /\ Done(rs, i) = End(rs, i)
         /\ \A k \in 1..Size(r) : w[e + r.hlen + k] = Tok("data", i, k)
<1> DEFINE q == Request(i, r)
<1>1. /\ r \in Shapes /\ i \in Nat /\ e \in Nat /\ End(rs, i) = e + Len(q) /\ End(rs, i) \in Nat
      /\ \A k \in 1..Len(q) : w[e + k] = q[k]
  BY HeadLayout
<1>2. r.hlen \in Nat /\ Size(r) \in Nat
  BY <1>1, ShapeFacts
<1>3. Len(q) = r.hlen + Size(r) /\ \A k \in 1..Size(r) : q[r.hlen + k] = Tok("data", i, k)
  BY <1>1, PlainRequest
<1>4. Left(r) = 0 /\ i # 0
  BY DEF Left
<1>5. Done(rs, i) = End(rs, i)
  BY <1>1, <1>4 DEF Done
<1> DEFINE s == Size(r)
           h == r.hlen
           m == Len(q)
           x == End(rs, i)
<1>0. /\ e \in Nat /\ h \in Nat /\ s \in Nat /\ m = h + s /\ x = e + m
      /\ \A k \in 1..m : w[e + k] = q[k]
      /\ \A k \in 1..s : q[h + k] = Tok("data", i, k)
  BY <1>1, <1>2, <1>3
<1> HIDE DEF q, s, h, m, x
<1>6. ASSUME NEW k \in 1..s PROVE w[e + h + k] = Tok("data", i, k)
  <2>1. h + k \in 1..m /\ e + (h + k) = e + h + k
    BY ONLY k \in 1..s, <1>0
  <2>2. w[e + (h + k)] = q[h + k] /\ q[h + k] = Tok("data", i, k)
    BY <1>0, <2>1
  <2> QED BY <2>1, <2>2
<1>7. x = e + h + s
  BY ONLY <1>0
<1> QED BY <1>5, <1>6, <1>7 DEF s, h, x

\* Chunk j: its size line, its data and its line end.
ChunkFormat(w, i, r, e, x, j) ==
    LET a == e + ChunkAt(r, j)
        z == r.ends[j] - Before(r, j)
    IN  /\ a \in Nat /\ z \in Nat /\ z > 0 /\ a + z + 3 <= x
        /\ e + ChunkEnd(r, j) = a + z + 2 /\ e + ChunkAt(r, j + 1) = a + z + 3
        /\ w[a + 1] = Tok("size", i, z) /\ w[a + 2] = Tok("nl", i, 0)
        /\ \A k \in 1..z : w[a + 2 + k] = Tok("data", i, Before(r, j) + k)
        /\ w[a + z + 3] = Tok("nl", i, 0)

\* Every chunk of a request has this format.
LEMMA ChunkLayout ==
  ASSUME NEW rs \in Seq(Shapes), NEW i \in 1..Len(rs), NEW r, r = rs[i], r.chunked,
         NEW w, w = Wire(rs), NEW e, e = End(rs, i - 1), NEW j \in 1..Len(r.ends)
  PROVE  ChunkFormat(w, i, r, e, End(rs, i), j)
<1> SUFFICES ASSUME NEW a, a = e + ChunkAt(r, j), NEW z, z = r.ends[j] - Before(r, j)
             PROVE  /\ a \in Nat /\ z \in Nat /\ z > 0 /\ a + z + 3 <= End(rs, i)
                    /\ e + ChunkEnd(r, j) = a + z + 2 /\ e + ChunkAt(r, j + 1) = a + z + 3
                    /\ w[a + 1] = Tok("size", i, z) /\ w[a + 2] = Tok("nl", i, 0)
                    /\ \A k \in 1..z : w[a + 2 + k] = Tok("data", i, Before(r, j) + k)
                    /\ w[a + z + 3] = Tok("nl", i, 0)
  BY DEF ChunkFormat
<1> DEFINE q == Request(i, r)
           c == Chunk(i, r, j)
           l == ChunkAt(r, Len(r.ends) + 1)
           b == Before(r, j)
           t == r.ends[j]
           h == r.hlen
           m == Len(q)
<1>1. /\ r \in Shapes /\ i \in Nat /\ e \in Nat /\ End(rs, i) = e + m /\ End(rs, i) \in Nat
      /\ \A k \in 1..m : w[e + k] = q[k]
  <2>1. rs \in Seq(Shapes) /\ i \in 1..Len(rs) /\ r = rs[i] /\ w = Wire(rs) /\ e = End(rs, i - 1)
    OBVIOUS
  <2>2. /\ r \in Shapes /\ i \in Nat /\ e \in Nat
        /\ End(rs, i) = e + Len(Request(i, r)) /\ End(rs, i) \in Nat
        /\ \A k \in 1..Len(Request(i, r)) : w[e + k] = Request(i, r)[k]
    BY ONLY <2>1, HeadLayout
  <2> QED BY <2>2
<1>2. h \in Nat /\ b \in Nat /\ t \in Nat /\ b < t /\ Before(r, j + 1) = t /\ j \in Nat /\ j >= 1
  <2>1. Len(r.ends) \in Nat
    BY <1>1, ShapeFacts
  <2>2. j \in 1..(Len(r.ends) + 1) /\ j \in Nat /\ j >= 1
    BY <2>1
  <2>3. r.hlen \in Nat /\ Before(r, j) \in Nat
    BY <1>1, <2>2, ShapeFacts
  <2>4. r.ends[j] \in Nat /\ Before(r, j) < r.ends[j] /\ Before(r, j + 1) = r.ends[j]
    BY <1>1, ShapeFacts
  <2> QED BY <2>2, <2>3, <2>4
<1>3. /\ l \in Nat /\ m = l + (IF r.trailer THEN 5 ELSE 3) /\ ChunkAt(r, j + 1) <= l
      /\ \A k \in 1..(t - b + 3) : q[ChunkAt(r, j) + k] = c[k]
  BY ONLY <1>1, r.chunked, j \in 1..Len(r.ends), ChunkedRequest
<1>4. /\ c[1] = Tok("size", i, t - b) /\ c[2] = Tok("nl", i, 0)
      /\ \A k \in 1..(t - b) : c[2 + k] = Tok("data", i, b + k)
      /\ c[t - b + 3] = Tok("nl", i, 0)
  BY ONLY <1>1, j \in 1..Len(r.ends), ChunkFacts
<1> DEFINE o == ChunkAt(r, j)
           o2 == ChunkAt(r, j + 1)
           d == ChunkEnd(r, j)
           x == End(rs, i)
<1>5. o = h + b + 3 * (j - 1) /\ d = h + t + 3 * (j - 1) + 2 /\ o2 = h + t + 3 * ((j + 1) - 1)
  BY <1>2 DEF ChunkAt, ChunkEnd
<1>6. a = e + o /\ z = t - b
  OBVIOUS
<1>a. e \in Nat /\ x = e + m /\ o2 <= l /\ l \in Nat /\ m = l + (IF r.trailer THEN 5 ELSE 3)
  BY <1>1, <1>3
<1>b. /\ \A k \in 1..m : w[e + k] = q[k]
      /\ \A k \in 1..(t - b + 3) : q[o + k] = c[k]
  BY <1>1, <1>3
<1> HIDE DEF q, c, l, b, t, h, m, o, o2, d, x
<1>7. z \in Nat /\ z > 0 /\ o \in Nat /\ d = o + z + 2 /\ o2 = o + z + 3
  BY ONLY <1>2, <1>5, <1>6
<1>8. o + z + 3 <= m /\ m \in Nat
  BY ONLY <1>7, <1>a
<1>9. ASSUME NEW k \in 1..(z + 3) PROVE w[a + k] = c[k]
  <2>1. o + k \in 1..m /\ e + (o + k) = a + k
    BY ONLY k \in 1..(z + 3), <1>a, <1>6, <1>7, <1>8, SMTT(30)
  <2>2. k \in 1..(t - b + 3)
    BY ONLY k \in 1..(z + 3), <1>6
  <2> QED BY ONLY <1>b, <2>1, <2>2
<1>d. a \in Nat
  BY ONLY <1>a, <1>6, <1>7
<1>10. /\ 1 \in 1..(z + 3) /\ 2 \in 1..(z + 3) /\ z + 3 \in 1..(z + 3) /\ a + (z + 3) = a + z + 3
       /\ \A k \in 1..z : 2 + k \in 1..(z + 3) /\ a + (2 + k) = a + 2 + k
  BY ONLY <1>d, <1>7
<1>c. /\ c[1] = Tok("size", i, z) /\ c[2] = Tok("nl", i, 0) /\ c[z + 3] = Tok("nl", i, 0)
      /\ \A k \in 1..z : c[2 + k] = Tok("data", i, b + k)
  BY ONLY <1>4, <1>6
<1>11. /\ w[a + 1] = Tok("size", i, z) /\ w[a + 2] = Tok("nl", i, 0) /\ w[a + z + 3] = Tok("nl", i, 0)
       /\ \A k \in 1..z : w[a + 2 + k] = Tok("data", i, b + k)
  <2>1. w[a + 1] = c[1] /\ w[a + 2] = c[2] /\ w[a + z + 3] = c[z + 3]
    BY <1>9, <1>10
  <2>2. \A k \in 1..z : w[a + 2 + k] = c[2 + k]
    BY <1>9, <1>10, SMTT(30)
  <2> QED BY <1>c, <2>1, <2>2
<1>12. a + z + 3 <= x /\ e + d = a + z + 2 /\ e + o2 = a + z + 3
  <2>1. \A p, u, v, y \in Nat : u + v + 3 <= y =>
          (p + u) + v + 3 <= p + y /\ p + (u + v + 2) = (p + u) + v + 2 /\ p + (u + v + 3) = (p + u) + v + 3
    OBVIOUS
  <2>2. (e + o) + z + 3 <= e + m /\ e + (o + z + 2) = (e + o) + z + 2 /\ e + (o + z + 3) = (e + o) + z + 3
    BY ONLY <1>a, <1>7, <1>8, <2>1
  <2>3. a = e + o /\ x = e + m /\ d = o + z + 2 /\ o2 = o + z + 3
    BY <1>a, <1>6, <1>7
  <2> QED BY ONLY <2>2, <2>3, Zenon
<1> QED BY <1>d, <1>7, <1>11, <1>12 DEF b, x, d, o2

\* The last chunk, the trailer and the empty line that ends a chunked body.
LastFormat(w, i, r, e, x, d) ==
    LET a == e + ChunkAt(r, Len(r.ends) + 1)
    IN  /\ a \in Nat /\ a + 3 <= d /\ d \in Nat
        /\ w[a + 1] = Tok("size", i, IF r.flaw = "size" THEN -1 ELSE 0)
        /\ w[a + 2] = Tok("nl", i, 0)
        /\ ~r.trailer => w[a + 3] = Tok("nl", i, 0) /\ d = a + 3 /\ x = a + 3
        /\ r.trailer => /\ w[a + 3] = Tok("hdr", i, 0) /\ w[a + 4] = Tok("nl", i, 0)
                        /\ w[a + 5] = Tok("nl", i, 0) /\ d = a + 4 /\ x = a + 5

\* Every chunked request ends in this format.
LEMMA LastLayout ==
  ASSUME NEW rs \in Seq(Shapes), NEW i \in 1..Len(rs), NEW r, r = rs[i], r.chunked,
         NEW w, w = Wire(rs), NEW e, e = End(rs, i - 1)
  PROVE  LastFormat(w, i, r, e, End(rs, i), Done(rs, i))
<1> SUFFICES ASSUME NEW a, a = e + ChunkAt(r, Len(r.ends) + 1)
             PROVE  /\ a \in Nat /\ a + 3 <= Done(rs, i) /\ Done(rs, i) \in Nat
                    /\ w[a + 1] = Tok("size", i, IF r.flaw = "size" THEN -1 ELSE 0)
                    /\ w[a + 2] = Tok("nl", i, 0)
                    /\ ~r.trailer => /\ w[a + 3] = Tok("nl", i, 0)
                                     /\ Done(rs, i) = a + 3 /\ End(rs, i) = a + 3
                    /\ r.trailer => /\ w[a + 3] = Tok("hdr", i, 0) /\ w[a + 4] = Tok("nl", i, 0)
                                    /\ w[a + 5] = Tok("nl", i, 0)
                                    /\ Done(rs, i) = a + 4 /\ End(rs, i) = a + 5
  BY DEF LastFormat
<1> DEFINE q == Request(i, r)
           c == LastChunk(i, r)
           l == ChunkAt(r, Len(r.ends) + 1)
           m == IF r.trailer THEN 5 ELSE 3
<1>1. /\ r \in Shapes /\ i \in Nat /\ e \in Nat /\ End(rs, i) = e + Len(q) /\ End(rs, i) \in Nat
      /\ \A k \in 1..Len(q) : w[e + k] = q[k]
  BY HeadLayout
<1>2. l \in Nat /\ Len(q) = l + m /\ \A k \in 1..m : q[l + k] = c[k]
  BY <1>1, ChunkedRequest
<1>3. /\ Len(c) = m
      /\ c[1] = Tok("size", i, IF r.flaw = "size" THEN -1 ELSE 0)
      /\ c[2] = Tok("nl", i, 0) /\ c[Len(c)] = Tok("nl", i, 0)
      /\ r.trailer => c[3] = Tok("hdr", i, 0) /\ c[4] = Tok("nl", i, 0)
  BY <1>1, LastChunkFacts
<1>4. r.trailer \in BOOLEAN
  BY <1>1, ShapeFacts
<1>5. Done(rs, i) = End(rs, i) - (IF r.trailer THEN 1 ELSE 0)
  BY <1>1 DEF Done, Left
<1>6. a = e + l
  OBVIOUS
<1> HIDE DEF q, c, l
<1>7. ASSUME NEW k \in 1..m PROVE w[a + k] = c[k]
  <2> DEFINE n == Len(q)
  <2>1. m \in Nat /\ l \in Nat /\ e \in Nat /\ n = l + m /\ k \in 1..m
    BY <1>1, <1>2
  <2>2. l + k \in 1..n /\ e + (l + k) = (e + l) + k
    <3> HIDE DEF m, n
    <3> QED BY ONLY <2>1
  <2>3. w[e + (l + k)] = q[l + k] /\ q[l + k] = c[k]
    BY ONLY <1>1, <1>2, <2>1, <2>2
  <2>4. a + k = e + (l + k)
    BY <1>6, <2>2
  <2> QED BY ONLY <2>3, <2>4
<1>8. a \in Nat /\ End(rs, i) = a + m
  <2> DEFINE x == End(rs, i)
             n == Len(q)
  <2>1. /\ e \in Nat /\ l \in Nat /\ m \in Nat /\ a = e + l
        /\ x = e + n /\ n = l + m
    BY <1>1, <1>2, <1>6
  <2> HIDE DEF x, n, m
  <2>2. a \in Nat /\ x = a + m
    BY ONLY <2>1
  <2> QED BY <2>2 DEF x
<1>9. CASE r.trailer
  <2>1. m = 5 /\ 1 \in 1..m /\ 2 \in 1..m /\ 3 \in 1..m /\ 4 \in 1..m /\ 5 \in 1..m
    BY <1>9
  <2>2. Done(rs, i) = a + 4 /\ End(rs, i) = a + 5
    BY <1>5, <1>8, <1>9
  <2>3. w[a + 1] = c[1] /\ w[a + 2] = c[2] /\ w[a + 3] = c[3] /\ w[a + 4] = c[4] /\ w[a + 5] = c[5]
    BY <1>7, <2>1
  <2> QED BY <1>3, <1>8, <1>9, <2>1, <2>2, <2>3, SMTT(30)
<1>10. CASE ~r.trailer
  <2>1. m = 3 /\ 1 \in 1..m /\ 2 \in 1..m /\ 3 \in 1..m
    BY <1>10
  <2>2. Done(rs, i) = a + 3 /\ End(rs, i) = a + 3
    BY <1>5, <1>8, <1>10
  <2>3. w[a + 1] = c[1] /\ w[a + 2] = c[2] /\ w[a + 3] = c[3]
    BY <1>7, <2>1
  <2> QED BY <1>3, <1>8, <1>10, <2>1, <2>2, <2>3
<1> QED BY <1>9, <1>10

\* Where the parser is done with the first i requests, and the empty line it
\* may leave.
LEMMA LeftLayout ==
  ASSUME NEW rs \in Seq(Shapes), NEW i \in 0..Len(rs), NEW w, w = Wire(rs),
         NEW x, x = End(rs, i), NEW d, d = Done(rs, i)
  PROVE  /\ x \in Nat /\ d \in Nat /\ w \in Seq(Token) /\ x <= Len(w)
         /\ d = x \/ (d + 1 = x /\ i # 0 /\ rs[i].chunked /\ rs[i].trailer /\ w[x].k = "nl")
<1>1. CASE i = 0
  BY <1>1, WireFacts DEF Done
<1>2. CASE i # 0
  <2>1. i \in 1..Len(rs)
    BY <1>2
  <2> DEFINE r == rs[i]
             e == End(rs, i - 1)
             a == e + ChunkAt(r, Len(r.ends) + 1)
  <2>2. /\ w \in Seq(Token) /\ x <= Len(w) /\ x \in Nat /\ r \in Shapes
    BY <2>1, HeadLayout
  <2>3. CASE ~r.chunked
    BY <2>1, <2>2, <2>3, PlainLayout
  <2>4. CASE r.chunked
    <3>1. /\ a \in Nat
          /\ ~r.trailer => d = a + 3 /\ x = a + 3
          /\ r.trailer => w[a + 5] = Tok("nl", i, 0) /\ d = a + 4 /\ x = a + 5
      <4>1. r = rs[i] /\ e = End(rs, i - 1) /\ a = e + ChunkAt(r, Len(r.ends) + 1) /\ w = Wire(rs)
            /\ rs \in Seq(Shapes)
        OBVIOUS
      <4> HIDE DEF r, e, a
      <4>2. LastFormat(w, i, r, e, x, d)
        BY <2>1, <2>4, <4>1, LastLayout
      <4> QED BY <4>1, <4>2 DEF LastFormat
    <3> HIDE DEF a
    <3>2. CASE ~r.trailer
      BY <2>2, <3>1, <3>2
    <3>3. CASE r.trailer
      <4>1. w[a + 5].k = "nl"
        BY <2>1, <3>1, <3>3 DEF Tok
      <4>2. d = a + 4 /\ x = a + 5 /\ w[x].k = "nl"
        BY <3>1, <3>3, <4>1
      <4>3. d + 1 = x /\ d \in Nat
        BY ONLY <3>1, <4>2
      <4> QED BY <1>2, <2>2, <2>4, <3>3, <4>2, <4>3
    <3> QED BY <3>2, <3>3
  <2> QED BY <2>3, <2>4
<1> QED BY <1>1, <1>2

-----------------------------------------------------------------------------
(* Moving along the wire *)

\* What was read last and what is read next.
LEMMA PieceConcat ==
  ASSUME NEW s \in Seq(Token), NEW t \in Seq(Token), NEW w, NEW a \in Nat,
         Piece(s, w, a), Piece(t, w, a + Len(s))
  PROVE  Piece(s \o t, w, a)
<1> DEFINE n == Len(s)
           m == Len(t)
           u == s \o t
<1>1. /\ n \in Nat /\ m \in Nat /\ Len(u) = n + m
      /\ \A k \in 1..n : u[k] = s[k]
      /\ \A k \in 1..m : u[n + k] = t[k]
  BY Concat
<1>2. (\A k \in 1..n : s[k] = w[a + k]) /\ (\A k \in 1..m : t[k] = w[a + n + k])
  BY DEF Piece
<1> HIDE DEF n, m, u
<1>3. ASSUME NEW k \in 1..(n + m) PROVE u[k] = w[a + k]
  <2>1. CASE k <= n
    <3>1. k \in 1..n
      BY <1>1, <2>1
    <3> QED BY <1>1, <1>2, <3>1
  <2>2. CASE k > n
    <3>1. k - n \in 1..m /\ n + (k - n) = k /\ a + n + (k - n) = a + k
      BY <1>1, <2>2
    <3>2. u[n + (k - n)] = w[a + n + (k - n)]
      BY <1>1, <1>2, <3>1
    <3> QED BY <3>1, <3>2
  <2> QED BY <1>1, <2>1, <2>2
<1> QED BY <1>1, <1>3 DEF Piece, u

\* What is left of the buffer continues where the part that was used ends.
LEMMA PieceDrop ==
  ASSUME NEW s \in Seq(Token), NEW w, NEW a \in Nat, Piece(s, w, a), NEW n \in 0..Len(s)
  PROVE  /\ Drop(s, n) \in Seq(Token) /\ Len(Drop(s, n)) = Len(s) - n
         /\ Piece(Drop(s, n), w, a + n)
         /\ n = Len(s) => Drop(s, n) = <<>>
<1> DEFINE d == Drop(s, n)
           m == Len(s)
<1>1. d \in Seq(Token) /\ Len(d) = m - n /\ (\A k \in 1..(m - n) : d[k] = s[n + k]) /\ m \in Nat
  BY Split
<1>2. \A k \in 1..m : s[k] = w[a + k]
  BY DEF Piece
<1>3. n \in 0..m
  OBVIOUS
<1>4. n = m => d = <<>>
  <2> SUFFICES ASSUME n = m PROVE d = <<>>
    OBVIOUS
  <2>1. Len(d) = 0
    BY <1>1
  <2> HIDE DEF d
  <2> QED BY <1>1, <2>1, EmptySeq
<1> HIDE DEF d, m
<1>5. ASSUME NEW k \in 1..(m - n) PROVE d[k] = w[a + n + k]
  <2>1. n + k \in 1..m /\ a + (n + k) = a + n + k
    BY <1>1, <1>3
  <2> QED BY <1>1, <1>2, <2>1
<1> QED BY <1>1, <1>4, <1>5 DEF Piece, d, m

\* A read returns what follows position p.
LEMMA PieceRead ==
  ASSUME NEW s \in Seq(Token), NEW w, Piece(s, w, 0), NEW p \in Nat, NEW n \in Nat, p + n <= Len(s)
  PROVE  /\ SubSeq(s, p + 1, p + n) \in Seq(Token) /\ Len(SubSeq(s, p + 1, p + n)) = n
         /\ Piece(SubSeq(s, p + 1, p + n), w, p)
<1> DEFINE d == SubSeq(s, p + 1, p + n)
           m == Len(s)
<1>1. d \in Seq(Token) /\ Len(d) = n /\ (\A k \in 1..n : d[k] = s[p + k]) /\ m \in Nat
  BY Part
<1>2. \A k \in 1..m : s[k] = w[0 + k]
  BY DEF Piece
<1>3. p + n <= m
  OBVIOUS
<1> HIDE DEF d, m
<1>4. ASSUME NEW k \in 1..n PROVE d[k] = w[p + k]
  <2>1. p + k \in 1..m /\ 0 + (p + k) = p + k
    BY <1>1, <1>3
  <2> QED BY <1>1, <1>2, <2>1
<1> QED BY <1>1, <1>4 DEF Piece, d

\* The body grows by the bytes that follow it on the wire.
LEMMA BodyGrows ==
  ASSUME NEW s \in Seq(Token), NEW t \in Seq(Token), NEW w, NEW a \in Nat, NEW i, NEW d \in Nat,
         IsBody(s, i, d), Piece(t, w, a), DataAt(w, a, Len(t), i, d)
  PROVE  s \o t \in Seq(Token) /\ IsBody(s \o t, i, d + Len(t))
<1> DEFINE m == Len(t)
           u == s \o t
<1>1. Len(s) = d /\ \A k \in 1..d : s[k] = Tok("data", i, k)
  BY DEF IsBody
<1>2. /\ u \in Seq(Token) /\ m \in Nat /\ Len(u) = d + m
      /\ \A k \in 1..d : u[k] = s[k]
      /\ \A k \in 1..m : u[d + k] = t[k]
  <2>1. /\ u \in Seq(Token) /\ Len(u) = Len(s) + Len(t)
        /\ \A k \in 1..Len(s) : u[k] = s[k]
        /\ \A k \in 1..Len(t) : u[Len(s) + k] = t[k]
    BY Concat
  <2>2. m \in Nat
    OBVIOUS
  <2> HIDE DEF u
  <2> QED BY <1>1, <2>1, <2>2
<1>3. \A k \in 1..m : t[k] = Tok("data", i, d + k)
  BY DEF Piece, DataAt
<1> HIDE DEF m, u
<1>4. ASSUME NEW k \in 1..(d + m) PROVE u[k] = Tok("data", i, k)
  <2>1. CASE k <= d
    <3>1. k \in 1..d
      BY <2>1
    <3> QED BY <1>1, <1>2, <3>1
  <2>2. CASE k > d
    <3>1. k - d \in 1..m /\ d + (k - d) = k
      BY <1>2, <2>2
    <3>2. u[d + (k - d)] = Tok("data", i, d + (k - d))
      BY <1>2, <1>3, <3>1
    <3> QED BY <3>1, <3>2
  <2> QED BY <1>2, <2>1, <2>2
<1> QED BY <1>2, <1>4 DEF IsBody, u, m

\* What the buffer supplies of n body bytes, and what stays in it.
LEMMA Taken ==
  ASSUME NEW s \in Seq(Token), NEW w, NEW a \in Nat, Piece(s, w, a), NEW n \in Nat,
         NEW i, NEW d \in Nat, DataAt(w, a, n, i, d),
         NEW k, k = from_buf(Len(s), n)
  PROVE  /\ k \in 0..Len(s) /\ k \in 0..n
         /\ Drop(s, k) \in Seq(Token) /\ Len(Drop(s, k)) = Len(s) - k
         /\ Piece(Drop(s, k), w, a + k) /\ (k < n => Drop(s, k) = <<>>)
         /\ SubSeq(s, 1, k) \in Seq(Token) /\ Len(SubSeq(s, 1, k)) = k
         /\ \A m \in 1..k : SubSeq(s, 1, k)[m] = Tok("data", i, d + m)
         /\ Piece(SubSeq(s, 1, k), w, a) /\ DataAt(w, a, k, i, d)
<1> DEFINE t == SubSeq(s, 1, k)
           l == Len(s)
<1>1. l \in Nat
  OBVIOUS
<1>2. k = IF l <= n THEN l ELSE n
  BY <1>1, MinOfTwo DEF from_buf
<1>3. k \in 0..l /\ k \in 0..n /\ (k < n => k = l)
  <2> HIDE DEF l
  <2> QED BY <1>1, <1>2
<1>4. /\ Drop(s, k) \in Seq(Token) /\ Len(Drop(s, k)) = Len(s) - k
      /\ Piece(Drop(s, k), w, a + k) /\ (k < n => Drop(s, k) = <<>>)
  BY <1>3, PieceDrop
<1>5. t \in Seq(Token) /\ Len(t) = k /\ \A m \in 1..k : t[m] = s[m]
  BY <1>3, Split
<1>6. \A m \in 1..l : s[m] = w[a + m]
  BY DEF Piece
<1> HIDE DEF t, l
<1>7. \A m \in 1..k : m \in 1..l /\ m \in 1..n
  BY <1>1, <1>3
<1>8. \A m \in 1..k : t[m] = w[a + m] /\ w[a + m] = Tok("data", i, d + m)
  BY <1>5, <1>6, <1>7 DEF DataAt
<1>9. Piece(t, w, a) /\ DataAt(w, a, k, i, d)
  BY <1>5, <1>8 DEF Piece, DataAt
<1> QED BY <1>3, <1>4, <1>5, <1>8, <1>9 DEF t, l

\* The body with what the buffer supplies.
LEMMA FromBuf ==
  ASSUME NEW s \in Seq(Token), NEW w, NEW a \in Nat, Piece(s, w, a), NEW n \in Nat,
         NEW i, NEW d \in Nat, DataAt(w, a, n, i, d),
         NEW b \in Seq(Token), IsBody(b, i, d), NEW k, k = from_buf(Len(s), n)
  PROVE  b \o SubSeq(s, 1, k) \in Seq(Token) /\ IsBody(b \o SubSeq(s, 1, k), i, d + k)
<1> DEFINE t == SubSeq(s, 1, k)
<1>1. /\ t \in Seq(Token) /\ Len(t) = k /\ Piece(t, w, a)
      /\ DataAt(w, a, k, i, d)
  BY Taken, SMTT(30)
<1> HIDE DEF t
<1>2. b \o t \in Seq(Token) /\ IsBody(b \o t, i, d + Len(t))
  BY <1>1, BodyGrows
<1> QED BY <1>1, <1>2 DEF t

\* The line that begins at position a of the wire ends at position a + q.  While
\* it is incomplete the server has not read that far; when it is complete, it is
\* the text up to there, and the buffer goes on behind it.
SplitAt(l, b, w, a, q) ==
    LET S == {j \in DOMAIN b : b[j].k = "nl"}
    IN  /\ S = {} => Len(l) + Len(b) < q
        /\ S # {} =>
             /\ Min(S) \in 1..Len(b) /\ Len(l) + Min(S) = q
             /\ l \o SubSeq(b, 1, Min(S) - 1) \in Seq(Token)
             /\ Len(l \o SubSeq(b, 1, Min(S) - 1)) = q - 1
             /\ Piece(l \o SubSeq(b, 1, Min(S) - 1), w, a)
             /\ Drop(b, Min(S)) \in Seq(Token) /\ Len(Drop(b, Min(S))) = Len(l) + Len(b) - q
             /\ Piece(Drop(b, Min(S)), w, a + q)

\* The line and the buffer, wherever the reads cut the line.
LEMMA LineFound ==
  ASSUME NEW l \in Seq(Token), NEW b \in Seq(Token), NEW w, NEW a \in Nat, NEW q \in Nat, q > 0,
         Piece(l, w, a), Piece(b, w, a + Len(l)), \A k \in 1..Len(l) : l[k].k # "nl",
         LineEnds(w, a, q)
  PROVE  SplitAt(l, b, w, a, q)
<1> SUFFICES ASSUME NEW S, S = {j \in DOMAIN b : b[j].k = "nl"}
    PROVE  /\ S = {} => Len(l) + Len(b) < q
           /\ S # {} =>
                /\ Min(S) \in 1..Len(b) /\ Len(l) + Min(S) = q
                /\ l \o SubSeq(b, 1, Min(S) - 1) \in Seq(Token)
                /\ Len(l \o SubSeq(b, 1, Min(S) - 1)) = q - 1
                /\ Piece(l \o SubSeq(b, 1, Min(S) - 1), w, a)
                /\ Drop(b, Min(S)) \in Seq(Token) /\ Len(Drop(b, Min(S))) = Len(l) + Len(b) - q
                /\ Piece(Drop(b, Min(S)), w, a + q)
  BY DEF SplitAt
<1> DEFINE n == Len(l)
           m == Len(b)
<1>1. n \in Nat /\ m \in Nat /\ DOMAIN b = 1..m
  OBVIOUS
<1>2. /\ \A k \in 1..n : l[k] = w[a + k] /\ l[k].k # "nl"
      /\ \A k \in 1..m : b[k] = w[a + n + k]
  BY DEF Piece
<1>3. S = {j \in 1..m : b[j].k = "nl"}
  BY <1>1
<1>e. w[a + q].k = "nl" /\ \A k \in 1..(q - 1) : w[a + k].k # "nl"
  BY DEF LineEnds
<1> HIDE DEF n, m
<1>4. n < q
  <2> SUFFICES ASSUME ~(n < q) PROVE FALSE
    OBVIOUS
  <2>1. q \in 1..n
    BY <1>1
  <2> QED BY <1>e, <1>2, <2>1
<1>5. ASSUME q <= n + m PROVE q - n \in S
  <2>1. q - n \in 1..m /\ a + n + (q - n) = a + q
    BY <1>1, <1>4, <1>5
  <2>2. b[q - n].k = "nl"
    BY <1>e, <1>2, <2>1
  <2> QED BY <1>3, <2>1, <2>2
<1>6. ASSUME NEW j \in S PROVE j \in 1..m /\ q <= n + j
  <2>1. j \in 1..m /\ b[j].k = "nl"
    BY <1>3
  <2>2. a + n + j = a + (n + j) /\ n + j >= 1
    BY <1>1, <2>1
  <2>3. w[a + (n + j)].k = "nl"
    BY <1>2, <2>1, <2>2
  <2>4. ~(n + j \in 1..(q - 1))
    BY <1>e, <2>3
  <2> QED BY <1>1, <2>1, <2>4
<1>7. S = {} => n + m < q
  BY <1>1, <1>5
<1>8. ASSUME S # {} 
      PROVE  /\ Min(S) \in 1..m /\ n + Min(S) = q
             /\ l \o SubSeq(b, 1, Min(S) - 1) \in Seq(Token)
             /\ Len(l \o SubSeq(b, 1, Min(S) - 1)) = q - 1
             /\ Piece(l \o SubSeq(b, 1, Min(S) - 1), w, a)
             /\ Drop(b, Min(S)) \in Seq(Token) /\ Len(Drop(b, Min(S))) = n + m - q
             /\ Piece(Drop(b, Min(S)), w, a + q)
  <2> DEFINE p == q - n
  <2>1. PICK j \in S : TRUE
    BY <1>8
  <2>2. j \in 1..m /\ q <= n + j
    BY <1>6
  <2>3. q <= n + m /\ p \in 1..m /\ n + p = q
    BY <1>1, <1>4, <2>2
  <2>4. p \in S
    BY <1>5, <2>3
  <2>5. S \in SUBSET Int /\ \A y \in S : p <= y
    BY <1>1, <1>6
  <2>6. Min(S) = p
    <3> HIDE DEF p
    <3> QED BY <2>4, <2>5, MinIs
  <2> HIDE DEF p
  <2> DEFINE t == SubSeq(b, 1, p - 1)
  <2>7. p - 1 \in 0..m /\ p \in 0..m /\ p \in Nat
    BY <1>1, <2>3
  <2>8. t \in Seq(Token) /\ Len(t) = p - 1 /\ \A k \in 1..(p - 1) : t[k] = b[k]
    <3>1. p - 1 \in 0..Len(b)
      BY <2>7 DEF m
    <3> QED BY <3>1, Split
  <2>9. Piece(t, w, a + n)
    <3>1. \A k \in 1..(p - 1) : k \in 1..m
      BY <1>1, <2>7
    <3> QED BY <1>2, <2>8, <3>1 DEF Piece
  <2>10. Drop(b, p) \in Seq(Token) /\ Len(Drop(b, p)) = m - p /\ Piece(Drop(b, p), w, a + n + p)
    <3>1. p \in 0..Len(b) /\ a + n \in Nat /\ Piece(b, w, a + n)
      BY <1>1, <2>7 DEF m, n
    <3> QED BY <3>1, PieceDrop DEF m
  <2> HIDE DEF t
  <2>11. l \o t \in Seq(Token) /\ Len(l \o t) = n + (p - 1) /\ Piece(l \o t, w, a)
    <3>1. l \in Seq(Token) /\ t \in Seq(Token) /\ a \in Nat /\ Piece(l, w, a) /\ Piece(t, w, a + Len(l))
      BY <2>8, <2>9 DEF n
    <3>2. l \o t \in Seq(Token) /\ Len(l \o t) = Len(l) + Len(t)
      BY ONLY <3>1, Concat
    <3>3. Piece(l \o t, w, a)
      BY ONLY <3>1, PieceConcat
    <3> QED BY <2>8, <3>2, <3>3 DEF n
  <2>12. m - p = n + m - q /\ n + (p - 1) = q - 1 /\ a + n + p = a + q
    BY <1>1, <2>3, <2>7
  <2> QED BY <2>3, <2>6, <2>10, <2>11, <2>12 DEF t
<1> QED BY <1>7, <1>8 DEF n, m

\* Answers that are numbered from 1 have no 400 among them.
LEMMA Numbered ==
  ASSUME NEW s \in Seq(Nat), \A k \in 1..Len(s) : s[k] = k
  PROVE  0 \notin Range(s) /\ \A k \in 1..Len(s) : k \in Range(s)
BY DEF Range

-----------------------------------------------------------------------------
(* The steps that end the task, and what the others have in common *)

\* The numbers of a state in which the task is running.
LEMMA Running ==
  ASSUME HttpInv, pc \in Active
  PROVE  /\ reqs \in Seq(Shapes) /\ Len(reqs) \in Nat /\ Len(reqs) >= 1
         /\ Len(answers) \in Nat /\ Len(answers) <= Len(reqs)
         /\ Len(buf) \in Nat /\ Len(line) \in Nat /\ pos \in Nat /\ Len(stream) \in Nat
         /\ pos <= Len(stream) /\ need \in Nat
         /\ At \in Nat /\ pos = At + Len(buf) /\ Piece(buf, Wire(reqs), At)
         /\ (pc \in Reading => cur = Len(answers) + 1 /\ cur \in 1..Len(reqs) /\ cur - 1 = Len(answers))
         /\ (pc \in Reading \ {"respond"} => Len(handled) = Len(answers))
         /\ (pc = "head" => Len(handled) = Len(answers))
<1>1. /\ reqs \in Seq(Shapes) /\ reqs # <<>> /\ answers \in Seq(Nat) /\ stream \in Seq(Token)
      /\ buf \in Seq(Token) /\ line \in Seq(Token) /\ pos \in 0..Len(stream) /\ need \in Nat
      /\ cur \in Nat
  BY DEF HttpInv, Types
<1>2. /\ Len(reqs) \in Nat /\ Len(answers) \in Nat /\ Len(buf) \in Nat /\ Len(line) \in Nat
      /\ Len(stream) \in Nat
  BY <1>1
<1>3. Len(reqs) >= 1
  BY <1>1, <1>2, EmptySeq
<1>4. /\ At >= 0 /\ Piece(buf, Wire(reqs), At)
      /\ (pc \in Reading => cur = Len(answers) + 1 /\ cur <= Len(reqs))
      /\ (pc \in Reading \ {"respond"} => Len(handled) = Len(answers))
      /\ (pc = "head" => Len(handled) = Len(answers) /\ Len(answers) <= Len(reqs))
  BY DEF HttpInv, Buffered, Turns, Active, Reading, LineStates
<1>5. At = pos - Len(buf)
  BY DEF At
<1>6. pos \in Nat /\ pos <= Len(stream)
  BY <1>1, <1>2
<1>7. pc \in Reading \/ pc = "head"
  BY DEF Active
<1> DEFINE m == Len(answers)
           n == Len(reqs)
           t == At
           b == Len(buf)
<1>8. /\ m \in Nat /\ n \in Nat /\ b \in Nat /\ pos \in Nat /\ t = pos - b /\ t >= 0 /\ cur \in Nat
      /\ (pc \in Reading => cur = m + 1 /\ cur <= n) /\ (pc = "head" => m <= n)
  BY <1>1, <1>2, <1>4, <1>5, <1>6
<1> HIDE DEF m, n, t, b
<1>9. t \in Nat /\ pos = t + b
  BY <1>8
<1>10. m <= n /\ (pc \in Reading => cur \in 1..n /\ cur - 1 = m)
  BY <1>7, <1>8
<1> QED BY <1>1, <1>2, <1>3, <1>4, <1>6, <1>9, <1>10 DEF m, n, t, b

\* A step that ends the task.
LEMMA Ending ==
  ASSUME HttpInv, pc \in Active, pc' \in Ended, answers' \in Seq(Nat),
         UNCHANGED <<clientVars, pos, parserVars, handled>>,
         0 \in Range(answers') => ~Due(Len(handled) + 1),
         pc' = "closed" =>
           /\ peer # "open"
           /\ \A i \in DOMAIN reqs : Due(i) /\ EndOf(i) <= Len(stream) => i \in Range(answers')
  PROVE  HttpInv'
<1> USE DEF clientVars, parserVars
<1>1. Types'
  BY DEF HttpInv, Types
<1>2. pc' \notin Active /\ pc' \notin Reading /\ pc' \notin LineStates /\ pc' # "head"
      /\ pc' \notin {"size", "chunk", "crlf", "last", "body", "respond"}
      /\ pc' \notin LineStates \cup {"chunk"}
  BY DEF Ended, Active, Reading, LineStates
<1>3. Sending'
  BY <1>2 DEF HttpInv, Sending, Piece
<1>4. Turns' /\ Buffered' /\ Placed'
  BY <1>2 DEF Turns, Buffered, Placed
<1>5. RequestsExact'
  BY DEF HttpInv, RequestsExact, BodyOf
<1>6. BadRequestJustified'
  BY DEF BadRequestJustified, Due, Served, HeadSpan, should_keep_alive
<1>7. NothingLost' /\ (pc = "closed" => peer # "open")'
  BY DEF NothingLost, Due, Served, HeadSpan, should_keep_alive, EndOf
<1> QED BY <1>1, <1>3, <1>4, <1>5, <1>6, <1>7 DEF HttpInv

\* A failure: the request it is about must be one that is not due.
LEMMA Failing ==
  ASSUME HttpInv, pc \in Active \ {"respond"}, Fail, UNCHANGED <<clientVars, handled>>,
         peer # "reset" => ~Due(Len(answers) + 1)
  PROVE  HttpInv'
<1>1. pc \in Active /\ answers \in Seq(Nat) /\ \A k \in 1..Len(answers) : answers[k] = k
  BY DEF HttpInv, Types, Turns
<1>2. Len(handled) = Len(answers)
  BY <1>1, Running DEF Active
<1>3. pc' = "failed" /\ UNCHANGED <<clientVars, pos, parserVars, handled>>
  BY DEF Fail
<1>4. CASE peer = "reset"
  <2>1. answers' = answers
    BY <1>4 DEF Fail
  <2>2. 0 \notin Range(answers)
    BY <1>1, Numbered
  <2> QED BY <1>1, <1>3, <2>1, <2>2, Ending DEF Ended
<1>5. CASE peer # "reset"
  <2>1. answers' = Append(answers, 0)
    BY <1>5 DEF Fail, write_response
  <2>2. answers' \in Seq(Nat)
    BY <1>1, <2>1
  <2> QED BY <1>1, <1>2, <1>3, <1>5, <2>2, Ending DEF Ended
<1> QED BY <1>4, <1>5

\* The end of the stream: the request that is not answered was not complete.
LEMMA Closing ==
  ASSUME HttpInv, pc \in Active, AtEof, Closed, UNCHANGED <<clientVars, handled>>,
         Len(answers) < Len(reqs) /\ Served(Len(answers) + 1) => pos < End(reqs, Len(answers) + 1)
  PROVE  HttpInv'
<1>1. answers \in Seq(Nat) /\ \A k \in 1..Len(answers) : answers[k] = k
  BY DEF HttpInv, Types, Turns
<1>2. /\ pc' = "closed" /\ UNCHANGED <<clientVars, pos, parserVars, handled>> /\ answers' = answers
  BY DEF Closed
<1>3. peer = "fin" /\ pos = Len(stream)
  BY DEF AtEof
<1>4. 0 \notin Range(answers) /\ \A k \in 1..Len(answers) : k \in Range(answers)
  BY <1>1, Numbered
<1>5. reqs \in Seq(Shapes) /\ Len(reqs) \in Nat /\ Len(answers) \in Nat
  BY Running
<1>6. ASSUME NEW i \in DOMAIN reqs, Due(i), EndOf(i) <= Len(stream) PROVE i \in Range(answers)
  <2> SUFFICES ASSUME i \notin Range(answers) PROVE FALSE
    OBVIOUS
  <2> DEFINE m == Len(answers)
             n == Len(reqs)
  <2>1. i \in 1..n /\ n \in Nat /\ m \in Nat /\ i \notin 1..m
    BY <1>4, <1>5
  <2>2. m < n /\ m + 1 \in 1..i /\ m + 1 \in 0..n /\ i \in 0..n /\ m + 1 <= i
    <3> HIDE DEF m, n
    <3> QED BY <2>1
  <2>3. Served(m + 1)
    BY <1>6, <2>2 DEF Due
  <2>4. pos < End(reqs, m + 1)
    BY <2>2, <2>3
  <2>5. End(reqs, m + 1) <= End(reqs, i) /\ End(reqs, m + 1) \in Nat /\ End(reqs, i) \in Nat
    <3> HIDE DEF m
    <3> QED BY <1>5, <2>2, WireOrder, WireFacts
  <2>6. EndOf(i) = End(reqs, i)
    BY DEF EndOf, End
  <2>7. pos \in Nat /\ End(reqs, i) <= pos
    BY <1>3, <1>6, <2>6, Running
  <2> HIDE DEF m
  <2> QED BY <2>4, <2>5, <2>7
<1>7. peer # "open"
  BY <1>3
<1> QED BY <1>1, <1>2, <1>4, <1>6, <1>7, Ending DEF Ended

\* While the task is running there is no 400, and nothing can be lost.
LEMMA GoingOn ==
  ASSUME pc' \in Active, Types', Sending', Turns', Buffered', Placed', RequestsExact'
  PROVE  HttpInv'
<1>1. answers' \in Seq(Nat) /\ \A k \in 1..Len(answers') : answers'[k] = k
  BY DEF Types, Turns
<1>2. 0 \notin Range(answers')
  BY <1>1, Numbered
<1>3. BadRequestJustified'
  BY <1>2 DEF BadRequestJustified
<1>4. pc' # "closed"
  BY DEF Active, Reading, LineStates
<1> QED BY <1>3, <1>4 DEF HttpInv, NothingLost

\* A step after which the client has still to wait for the same answer.
LEMMA Waiting ==
  ASSUME HttpInv, pc \in Active, pos' = pos \/ pos' <= Arrived, Types',
         UNCHANGED <<clientVars, answers>>
  PROVE  Sending'
<1> USE DEF clientVars
<1>1. Len(stream') <= Len(Wire(reqs')) /\ Piece(stream', Wire(reqs'), 0)
  BY DEF HttpInv, Sending
<1>2. ASSUME ~mode[2], Len(answers) < Len(reqs) PROVE pos' <= End(reqs, Len(answers) + 1)
  <2>1. pos <= End(reqs, Len(answers) + 1)
    BY <1>2 DEF HttpInv, Sending
  <2>2. Arrived <= End(reqs, Len(answers) + 1) /\ Arrived \in 0..Len(stream)
    BY <1>2, ArrivedFacts DEF HttpInv
  <2>3. pos' \in Nat /\ Arrived \in Nat
    BY <2>2, Running DEF Types
  <2>4. End(reqs, Len(answers) + 1) \in Nat
    <3>1. reqs \in Seq(Shapes) /\ Len(reqs) \in Nat /\ Len(answers) \in Nat
      BY Running
    <3>2. Len(answers) + 1 \in 0..Len(reqs)
      BY <1>2, <3>1
    <3> QED BY <3>1, <3>2, WireFacts
  <2> QED BY <2>1, <2>2, <2>3, <2>4
<1> QED BY <1>1, <1>2 DEF Sending

\* A step after which the task goes on with the same request.
LEMMA Continuing ==
  ASSUME HttpInv, pc \in Active, pc' \in Active, UNCHANGED <<clientVars, answers, handled>>,
         Types', pos' = pos \/ pos' <= Arrived, Turns', Buffered', Placed'
  PROVE  HttpInv'
<1>1. RequestsExact'
  BY DEF HttpInv, RequestsExact, BodyOf, clientVars
<1>2. Sending'
  BY Waiting
<1> QED BY <1>1, <1>2, GoingOn

-----------------------------------------------------------------------------
(* The client *)

\* What the client does leaves the server as it is.
LEMMA ServerFrame ==
  ASSUME Turns, Buffered, Placed, RequestsExact, BadRequestJustified,
         UNCHANGED <<reqs, mode, pos, pc, parserVars, handled, answers>>
  PROVE  Turns' /\ Buffered' /\ Placed' /\ RequestsExact' /\ BadRequestJustified'
<1> USE DEF parserVars
<1>1. Turns'
  BY DEF Turns
<1>2. Buffered'
  BY DEF Buffered, At, LineAt, Piece
<1>3. Placed'
  <2>1. AtHead' <=> AtHead
    BY DEF AtHead, At
  <2>2. reqs' = reqs /\ cur' = cur /\ pc' = pc
    OBVIOUS
  <2>3. \A i, r, e : /\ AtSize(i, r, e)' <=> AtSize(i, r, e)
                     /\ AtChunk(i, r, e)' <=> AtChunk(i, r, e)
                     /\ AtCrlf(i, r, e)' <=> AtCrlf(i, r, e)
                     /\ AtLast(i, r, e)' <=> AtLast(i, r, e)
                     /\ AtBody(i, r)' <=> AtBody(i, r)
    BY DEF AtSize, AtChunk, AtCrlf, AtLast, AtBody, At, LineAt
  <2>4. At' = At
    BY DEF At
  <2> QED BY <2>1, <2>2, <2>3, <2>4 DEF Placed
<1>4. RequestsExact'
  BY DEF RequestsExact, BodyOf
<1>5. BadRequestJustified'
  BY DEF BadRequestJustified, Due, Served, HeadSpan, should_keep_alive
<1> QED BY <1>1, <1>2, <1>3, <1>4, <1>5

\* The client stops sending.
LEMMA ClientCloseStep ==
  ASSUME HttpInv, ClientClose
  PROVE  HttpInv'
<1> USE DEF parserVars
<1>1. PICK k \in pos..Arrived : stream' = SubSeq(stream, 1, k)
  BY DEF ClientClose
<1>2. /\ peer = "open" /\ peer' = "fin"
      /\ UNCHANGED <<reqs, mode, pos, pc, parserVars, handled, answers>>
  BY DEF ClientClose
<1>3. stream \in Seq(Token) /\ pos \in 0..Len(stream) /\ Len(stream) \in Nat
  BY DEF HttpInv, Types
<1>4. Arrived \in 0..Len(stream)
  BY ArrivedFacts DEF HttpInv
<1>5. k \in 0..Len(stream) /\ pos \in 0..k
  BY <1>3, <1>4
<1>6. stream' \in Seq(Token) /\ Len(stream') = k /\ \A j \in 1..k : stream'[j] = stream[j]
  BY <1>1, <1>3, <1>5, Split
<1>7. Types'
  BY <1>2, <1>5, <1>6 DEF HttpInv, Types
<1>8. Sending'
  <2>1. Len(stream) <= Len(Wire(reqs)) /\ \A j \in 1..Len(stream) : stream[j] = Wire(reqs)[0 + j]
    BY DEF HttpInv, Sending, Piece
  <2>2. Len(Wire(reqs)) \in Nat
    BY WireFacts DEF HttpInv, Types
  <2>3. Len(stream') <= Len(Wire(reqs))
    BY <1>3, <1>5, <1>6, <2>1, <2>2
  <2>4. \A j \in 1..k : j \in 1..Len(stream)
    BY <1>3, <1>5
  <2>5. Piece(stream', Wire(reqs), 0)
    BY <1>6, <2>1, <2>4 DEF Piece
  <2>6. ~mode[2] /\ Len(answers) < Len(reqs) /\ pc \in Active => pos <= End(reqs, Len(answers) + 1)
    BY DEF HttpInv, Sending
  <2> QED BY <1>2, <2>3, <2>5, <2>6 DEF Sending
<1>9. Turns' /\ Buffered' /\ Placed' /\ RequestsExact' /\ BadRequestJustified'
  BY <1>2, ServerFrame DEF HttpInv
<1>10. pc' # "closed"
  BY <1>2 DEF HttpInv
<1> QED BY <1>7, <1>8, <1>9, <1>10 DEF HttpInv, NothingLost

\* The client resets the connection.
LEMMA ClientResetStep ==
  ASSUME HttpInv, ClientReset
  PROVE  HttpInv'
<1> USE DEF parserVars
<1>1. /\ peer' = "reset"
      /\ UNCHANGED <<reqs, mode, stream, pos, pc, parserVars, handled, answers>>
  BY DEF ClientReset
<1>2. Types'
  BY <1>1 DEF HttpInv, Types
<1>3. Sending'
  BY <1>1 DEF HttpInv, Sending
<1>4. Turns' /\ Buffered' /\ Placed' /\ RequestsExact' /\ BadRequestJustified'
  BY <1>1, ServerFrame DEF HttpInv
<1>5. NothingLost'
  BY <1>1 DEF HttpInv, NothingLost, Due, Served, HeadSpan, should_keep_alive, EndOf
<1> QED BY <1>1, <1>2, <1>3, <1>4, <1>5 DEF HttpInv

-----------------------------------------------------------------------------
(* parse_headers *)

\* The buffer of a connection that waits for head i: empty lines and a part of
\* the head, so that parse finds this head, once it is complete, and no other.
HeadFound(i, e, h) ==
    /\ e \in Nat /\ h \in Nat /\ e - At \in Nat /\ e - At + h <= HeadSpan(i) /\ HeadSpan(i) \in Nat
    /\ e + h <= End(reqs, i) /\ i \in 1..Len(reqs) /\ End(reqs, i) \in Nat
    /\ parse(buf) \in Int
    /\ parse(buf) > 0 =>
         parse(buf) = e - At + h /\ parse(buf) \in 1..Len(buf) /\ buf[parse(buf)].req = i
    /\ reqs[i].flaw # "head" => parse(buf) = IF e - At + h <= Len(buf) THEN e - At + h ELSE 0

\* parse finds the head that comes next.
LEMMA HeadBuffer ==
  ASSUME HttpInv, pc = "head", Len(answers) < Len(reqs),
         NEW i, i = Len(answers) + 1, NEW e, e = End(reqs, i - 1), NEW h, h = reqs[i].hlen
  PROVE  HeadFound(i, e, h)
<1> DEFINE w == Wire(reqs)
           r == reqs[i]
           m == Len(answers)
           n == Len(buf)
           t == At
           z == e - t
           d == Done(reqs, m)
           bad == r.flaw = "head"
<1>1. /\ reqs \in Seq(Shapes) /\ Len(reqs) \in Nat /\ m \in Nat /\ t \in Nat /\ n \in Nat
      /\ \A k \in 1..n : buf[k] = w[t + k]
  BY Running DEF Active, Piece
<1>2. i \in 1..Len(reqs) /\ i - 1 = m /\ m \in 0..Len(reqs) /\ i \in Nat /\ i = m + 1
  BY <1>1
<1>3. /\ r \in Shapes /\ e \in Nat /\ e + r.hlen <= End(reqs, i) /\ End(reqs, i) \in Nat
      /\ w[e + 1].k = "start" /\ w[e + r.hlen].k = "end" /\ w[e + r.hlen].req = i
      /\ \A k \in 2..(r.hlen - 1) : w[e + k].k = IF bad THEN "junk" ELSE "hdr"
  <2>1. r = reqs[i] /\ w = Wire(reqs) /\ e = End(reqs, i - 1) /\ reqs \in Seq(Shapes) /\ i \in 1..Len(reqs)
    BY <1>1, <1>2
  <2> HIDE DEF r, w
  <2> QED BY ONLY <2>1, HeadLayout, SMTT(30)
<1>4. h = r.hlen /\ h \in Nat /\ h >= 2
  BY <1>3, ShapeFacts
<1>5. /\ d \in Nat
      /\ d = e \/ (d + 1 = e /\ m # 0 /\ reqs[m].chunked /\ reqs[m].trailer /\ w[e].k = "nl")
  BY <1>1, <1>2, LeftLayout
<1>6. t \in d..e
  BY <1>2 DEF HttpInv, Placed, AtHead
<1>7. HeadSpan(i) = h + (IF i > 1 /\ reqs[m].chunked /\ reqs[m].trailer THEN 1 ELSE 0)
  BY <1>2, <1>4 DEF HeadSpan
<1> DEFINE sp == HeadSpan(i)
           x == End(reqs, i)
<1> HIDE DEF w, r, m, n, t, d, bad, sp, x
<1>8. z \in Nat /\ z <= 1 /\ (z = 1 => w[e].k = "nl" /\ m # 0 /\ reqs[m].chunked /\ reqs[m].trailer)
  BY <1>1, <1>3, <1>5, <1>6
<1>9. z + h <= sp /\ sp \in Nat
  <2>1. sp = h + (IF i > 1 /\ reqs[m].chunked /\ reqs[m].trailer THEN 1 ELSE 0)
    BY <1>7 DEF sp
  <2>2. z = 1 => i > 1 /\ reqs[m].chunked /\ reqs[m].trailer
    BY <1>1, <1>2, <1>8
  <2> HIDE DEF z
  <2>3. sp = h \/ sp = h + 1
    BY <1>4, <2>1
  <2>4. z = 1 => sp = h + 1
    BY <2>1, <2>2
  <2>5. z = 0 \/ z = 1
    BY <1>8
  <2> QED BY <1>4, <2>3, <2>4, <2>5
<1>10. t + z = e
  BY <1>1, <1>3
<1> HIDE DEF z
<1>11. ASSUME NEW k \in 1..n
       PROVE  /\ k <= z => buf[k].k = "nl"
              /\ k = z + 1 => buf[k].k = "start"
              /\ z + 1 < k /\ k < z + h => buf[k].k = IF bad THEN "junk" ELSE "hdr"
              /\ k = z + h => buf[k].k = "end"
  <2>1. buf[k] = w[t + k]
    BY <1>1
  <2>2. ASSUME k <= z PROVE buf[k].k = "nl"
    <3>1. z = 1 /\ t + k = e
      BY <1>1, <1>8, <1>10, <2>2
    <3> QED BY <1>8, <2>1, <3>1
  <2>3. t + k = e + (k - z)
    BY <1>1, <1>8, <1>10
  <2>4. ASSUME k = z + 1 PROVE buf[k].k = "start"
    <3>1. k - z = 1
      BY <1>8, <2>4
    <3> QED BY <1>3, <2>1, <2>3, <3>1
  <2>5. ASSUME z + 1 < k, k < z + h PROVE buf[k].k = IF bad THEN "junk" ELSE "hdr"
    <3>1. k - z \in 2..(h - 1)
      BY <1>4, <1>8, <2>5
    <3> QED BY <1>3, <1>4, <2>1, <2>3, <3>1, SMTT(30)
  <2>6. ASSUME k = z + h PROVE buf[k].k = "end"
    <3>1. k - z = h
      BY <1>4, <1>8, <2>6
    <3> QED BY <1>3, <1>4, <2>1, <2>3, <3>1
  <2> QED BY <2>2, <2>4, <2>5, <2>6
<1>12. buf \in Seq(Token) /\ bad \in BOOLEAN /\ n = Len(buf)
  BY DEF HttpInv, Types, bad, n
<1>13. /\ parse(buf) \in Int
       /\ parse(buf) > 0 => parse(buf) = z + h /\ z + h <= n
       /\ ~bad => parse(buf) = IF z + h <= n THEN z + h ELSE 0
  BY <1>4, <1>8, <1>11, <1>12, ParseFacts, ZenonT(30)
<1>14. ASSUME parse(buf) > 0 PROVE parse(buf) \in 1..n /\ buf[parse(buf)].req = i
  <2>1. parse(buf) = z + h /\ z + h \in 1..n
    BY <1>1, <1>4, <1>8, <1>13, <1>14
  <2>2. t + (z + h) = e + h
    <3>1. t \in Nat /\ z \in Nat /\ h \in Nat /\ t + z = e
      BY <1>1, <1>4, <1>8, <1>10
    <3> HIDE DEF t
    <3> QED BY ONLY <3>1
  <2> QED BY <1>1, <1>3, <1>4, <2>1, <2>2, SMTT(30)
<1>15. /\ e - At \in Nat /\ e - At + h <= HeadSpan(i) /\ HeadSpan(i) \in Nat
       /\ reqs[i].flaw # "head" => parse(buf) = IF e - At + h <= Len(buf) THEN e - At + h ELSE 0
  BY <1>8, <1>9, <1>13 DEF z, t, n, sp, bad, r
<1>16. parse(buf) > 0 =>
         parse(buf) = e - At + h /\ parse(buf) \in 1..Len(buf) /\ buf[parse(buf)].req = i
  BY <1>13, <1>14 DEF z, t, n
<1> QED BY <1>2, <1>3, <1>4, <1>13, <1>15, <1>16 DEF HeadFound

\* After the last request the buffer holds at most the empty line behind its
\* trailer.
LEMMA NoHead ==
  ASSUME HttpInv, pc = "head", ~(Len(answers) < Len(reqs))
  PROVE  parse(buf) = 0 /\ Len(buf) <= 1
<1> DEFINE w == Wire(reqs)
           m == Len(answers)
           n == Len(buf)
           t == At
           x == End(reqs, m)
           d == Done(reqs, m)
<1>1. /\ reqs \in Seq(Shapes) /\ Len(reqs) \in Nat /\ m = Len(reqs) /\ t \in Nat /\ n \in Nat
      /\ \A k \in 1..n : buf[k] = w[t + k]
      /\ pos = t + n /\ pos <= Len(stream) /\ pos \in Nat /\ Len(stream) \in Nat
  <2>1. Len(answers) <= Len(reqs) /\ Len(answers) \in Nat /\ Len(reqs) \in Nat
    BY Running DEF Active
  <2>2. Len(answers) = Len(reqs)
    BY <2>1
  <2> QED BY <2>2, Running DEF Active, Piece
<1>2. m \in 0..Len(reqs) /\ m \in Nat
  BY <1>1
<1>3. /\ d \in Nat /\ x \in Nat
      /\ d = x \/ (d + 1 = x /\ w[x].k = "nl")
  BY <1>1, <1>2, LeftLayout
<1>4. t \in d..x
  BY DEF HttpInv, Placed, AtHead
<1>5. Len(w) = x /\ Len(stream) <= Len(w)
  BY <1>1, WireFacts DEF HttpInv, Sending
<1>6. buf \in Seq(Token)
  BY DEF HttpInv, Types
<1>7. n = Len(buf)
  OBVIOUS
<1> HIDE DEF w, m, n, t, x, d
<1>8. t + n <= x
  BY <1>1, <1>3, <1>5
<1>9. n <= 1 /\ (n = 1 => t + 1 = x /\ w[x].k = "nl")
  BY <1>1, <1>3, <1>4, <1>8
<1>10. \A k \in 1..n : k = 1 /\ buf[k].k = "nl"
  BY <1>1, <1>9
<1>11. parse(buf) = IF n + 2 <= n THEN n + 2 ELSE 0
  <2>1. \A k \in 1..n :
          /\ k <= n => buf[k].k = "nl"
          /\ k = n + 1 => buf[k].k = "start"
          /\ n + 1 < k /\ k < n + 2 => buf[k].k = IF FALSE THEN "junk" ELSE "hdr"
          /\ k = n + 2 => buf[k].k = "end"
    BY <1>1, <1>10
  <2>2. 2 >= 2 /\ 2 \in Nat /\ FALSE \in BOOLEAN
    OBVIOUS
  <2> QED BY <1>1, <1>6, <1>7, <2>1, <2>2, ParseFacts
<1> QED BY <1>1, <1>9, <1>11 DEF n

\* A read: some of what has arrived, in order.
LEMMA ReadFacts ==
  ASSUME HttpInv, pc \in Active, NEW room \in Nat, NEW n, Reads(room, n)
  PROVE  /\ n \in Nat /\ n > 0 /\ n <= room /\ pos' = pos + n
         /\ pos' \in 0..Len(stream) /\ pos' <= Arrived
         /\ SubSeq(stream, pos + 1, pos + n) \in Seq(Token)
         /\ Len(SubSeq(stream, pos + 1, pos + n)) = n
         /\ Piece(SubSeq(stream, pos + 1, pos + n), Wire(reqs), pos)
<1>1. pos \in Nat /\ Len(stream) \in Nat
  BY Running
<1>2. Arrived \in 0..Len(stream)
  BY ArrivedFacts DEF HttpInv
<1> DEFINE v == Arrived
           l == Len(stream)
<1>3. v \in Int /\ v <= l /\ v - pos \in Int
  BY <1>1, <1>2
<1>4. n \in 1..Min({room, v - pos}) /\ pos' = pos + n
  BY DEF Reads
<1> HIDE DEF v, l
<1>5. Min({room, v - pos}) = IF room <= v - pos THEN room ELSE v - pos
  BY <1>3, MinOfTwo
<1>6. n \in Nat /\ n > 0 /\ n <= room /\ pos + n <= v
  BY <1>1, <1>3, <1>4, <1>5
<1>7. pos + n <= l /\ l \in Nat
  BY <1>1, <1>3, <1>6 DEF l
<1>8. pos + n \in 0..l
  BY <1>1, <1>6, <1>7
<1>9. stream \in Seq(Token) /\ Piece(stream, Wire(reqs), 0)
  BY DEF HttpInv, Types, Sending
<1>10. /\ SubSeq(stream, pos + 1, pos + n) \in Seq(Token)
       /\ Len(SubSeq(stream, pos + 1, pos + n)) = n
       /\ Piece(SubSeq(stream, pos + 1, pos + n), Wire(reqs), pos)
  BY <1>1, <1>6, <1>7, <1>9, PieceRead DEF l
<1> QED BY <1>4, <1>6, <1>8, <1>10 DEF v, l

\* A read that extends the buffer by what follows it.
LEMMA BufferGrows ==
  ASSUME NEW b \in Seq(Token), NEW c \in Seq(Token), NEW w, NEW p \in Nat, NEW t \in Nat,
         p = t + Len(b), Piece(b, w, t), Piece(c, w, p)
  PROVE  /\ b \o c \in Seq(Token) /\ Len(b \o c) = Len(b) + Len(c)
         /\ (p + Len(c)) - Len(b \o c) = t /\ Piece(b \o c, w, t)
<1>1. b \o c \in Seq(Token) /\ Len(b \o c) = Len(b) + Len(c)
  BY Concat
<1>2. Piece(b \o c, w, t)
  BY PieceConcat
<1>3. Len(b) \in Nat /\ Len(c) \in Nat
  OBVIOUS
<1>4. (p + Len(c)) - (Len(b) + Len(c)) = t
  BY <1>3
<1> QED BY <1>1, <1>2, <1>4

\* The head that fills the largest buffer is not due.
LEMMA HeadTooLarge ==
  ASSUME HttpInv, pc = "head", parse(buf) = 0, TooLarge(buf)
  PROVE  ~Due(Len(answers) + 1)
<1> DEFINE m == Len(answers)
           i == m + 1
           n == Len(buf)
<1>1. /\ reqs \in Seq(Shapes) /\ Len(reqs) \in Nat /\ Len(reqs) >= 1 /\ m \in Nat /\ n \in Nat
      /\ m <= Len(reqs)
  BY Running DEF Active
<1>2. n = cap /\ cap >= MaxBufSize /\ MaxBufSize \in Nat /\ cap \in Nat
  BY BufAssumption DEF TooLarge, HttpInv, Types
<1> SUFFICES ASSUME Due(i) PROVE FALSE
  OBVIOUS
<1>3. CASE m < Len(reqs)
  <2>1. Served(i)
    BY <1>1 DEF Due
  <2>2. reqs[i].flaw = "none" /\ HeadSpan(i) <= MaxBufSize
    BY <2>1 DEF Served
  <2> DEFINE y == End(reqs, i - 1) - At + reqs[i].hlen
             z == End(reqs, i - 1) - At
             h == reqs[i].hlen
  <2>3. /\ z \in Nat /\ h \in Nat /\ y = z + h /\ y <= HeadSpan(i) /\ HeadSpan(i) \in Nat
        /\ (reqs[i].flaw # "head" => parse(buf) = IF y <= n THEN y ELSE 0)
        /\ i \in 1..Len(reqs)
    <3>1. HeadFound(i, End(reqs, i - 1), h)
      BY <1>3, HeadBuffer
    <3> QED BY <3>1 DEF HeadFound
  <2>4. h >= 2
    BY <1>1, <2>3, ElementOfSeq, ShapeFacts
  <2>5. parse(buf) = IF y <= n THEN y ELSE 0
    BY <2>2, <2>3
  <2> HIDE DEF y, z, h, n, i
  <2>6. y \in Nat /\ y > 0
    BY <2>3, <2>4
  <2>7. ~(y <= n)
    BY <2>5, <2>6
  <2> QED BY <1>1, <1>2, <2>2, <2>3, <2>6, <2>7
<1>4. CASE ~(m < Len(reqs))
  <2>1. n <= 1
    BY <1>4, NoHead
  <2>2. 1 \in 1..i /\ 1 \in 1..Len(reqs)
    BY <1>1
  <2>3. Served(1)
    BY <2>2 DEF Due
  <2>4. HeadSpan(1) <= MaxBufSize
    BY <2>3 DEF Served
  <2>5. reqs[1].hlen \in Nat /\ reqs[1].hlen >= 2
    BY <1>1, <2>2, ElementOfSeq, ShapeFacts
  <2>6. HeadSpan(1) = reqs[1].hlen + 0
    BY DEF HeadSpan
  <2> QED BY <1>1, <1>2, <2>1, <2>4, <2>5, <2>6
<1> QED BY <1>3, <1>4

\* A head that is complete is found: at the end of the stream the request the
\* server waits for was cut.
LEMMA HeadAtEof ==
  ASSUME HttpInv, pc = "head", parse(buf) = 0, Len(answers) < Len(reqs), Served(Len(answers) + 1)
  PROVE  pos < End(reqs, Len(answers) + 1)
<1> DEFINE i == Len(answers) + 1
           n == Len(buf)
           e == End(reqs, i - 1)
           t == At
           z == e - t
           h == reqs[i].hlen
           x == End(reqs, i)
<1>1. reqs \in Seq(Shapes) /\ n \in Nat /\ t \in Nat /\ pos = t + n
  BY Running DEF Active
<1>2. reqs[i].flaw # "head"
  BY DEF Served
<1>3. /\ e \in Nat /\ z \in Nat /\ h \in Nat /\ e + h <= x /\ x \in Nat
      /\ parse(buf) = (IF z + h <= n THEN z + h ELSE 0)
      /\ i \in 1..Len(reqs)
  <2>1. /\ HttpInv /\ pc = "head" /\ Len(answers) < Len(reqs)
        /\ i = Len(answers) + 1 /\ e = End(reqs, i - 1) /\ h = reqs[i].hlen
    OBVIOUS
  <2> HIDE DEF i, e, h
  <2>2. HeadFound(i, e, h)
    BY ONLY <2>1, HeadBuffer
  <2> QED BY <1>2, <2>2 DEF HeadFound
<1>4. h >= 2
  BY <1>1, <1>3, ElementOfSeq, ShapeFacts
<1>5. z = e - t
  OBVIOUS
<1> HIDE DEF i, n, e, t, z, h, x
<1>6. ~(z + h <= n)
  BY <1>3, <1>4
<1>7. t + n < x
  BY <1>1, <1>3, <1>5, <1>6
<1> QED BY <1>1, <1>7 DEF x, i

\* The state while the server waits for a head.
LEMMA HeadState ==
  ASSUME NEW h, h = "head"
  PROVE  /\ h \in Active /\ h \notin Reading /\ h \notin LineStates /\ h \notin LineStates \cup {"chunk"}
         /\ h \notin {"size", "chunk", "crlf", "last", "body", "respond"} /\ h \in Active \ {"respond"}
BY DEF Active, Reading, LineStates

\* read_more in parse_headers.
LEMMA ReadHeadStep ==
  ASSUME HttpInv, ReadHead
  PROVE  HttpInv'
<1>1. pc = "head" /\ parse(buf) = 0 /\ read_more(buf) /\ UNCHANGED <<clientVars, handled>>
  BY DEF ReadHead
<1>2. pc \in Active /\ pc \in Active \ {"respond"} /\ pc \notin Reading
  BY <1>1, HeadState
<1> DEFINE size == IF Len(buf) = cap THEN 2 * cap ELSE cap
<1>3. CASE TooLarge(buf) /\ Fail
  <2>1. ~Due(Len(answers) + 1)
    BY <1>1, <1>3, HeadTooLarge
  <2> QED BY <1>1, <1>2, <1>3, <2>1, Failing
<1>4. CASE AtEof /\ Closed
  <2>1. Len(answers) < Len(reqs) /\ Served(Len(answers) + 1) => pos < End(reqs, Len(answers) + 1)
    BY <1>1, HeadAtEof
  <2> QED BY <1>1, <1>2, <1>4, <2>1, Closing
<1>5. CASE peer = "reset" /\ Fail
  BY <1>1, <1>2, <1>5, Failing
<1>6. ASSUME NEW n \in 1..(size - Len(buf)), Reads(size - Len(buf), n),
             buf' = buf \o SubSeq(stream, pos + 1, pos + n), cap' = size, line' = line,
             UNCHANGED <<pc, need, body, cur, answers>>
      PROVE  HttpInv'
  <2> DEFINE c == SubSeq(stream, pos + 1, pos + n)
             room == size - Len(buf)
             t == At
             w == Wire(reqs)
  <2>1. buf \in Seq(Token) /\ Len(buf) \in Nat /\ cap \in Nat /\ cap > 0
    BY DEF HttpInv, Types
  <2>2. size \in Nat \ {0}
    BY <2>1
  <2>3. room \in Nat
    BY <1>6, <2>1, <2>2
  <2>4. /\ n \in Nat /\ pos' = pos + n /\ pos' \in 0..Len(stream) /\ pos' <= Arrived
        /\ c \in Seq(Token) /\ Len(c) = n /\ Piece(c, w, pos)
    <3> HIDE DEF room
    <3>1. Reads(room, n)
      BY <1>6 DEF room
    <3> QED BY <1>2, <2>3, <3>1, ReadFacts
  <2>5. t \in Nat /\ pos \in Nat /\ pos = t + Len(buf) /\ Piece(buf, w, t)
    BY <1>2, Running
  <2>6. buf' \in Seq(Token) /\ pos' - Len(buf') = t /\ Piece(buf', w, t)
    <3> HIDE DEF c, t, w
    <3>0. /\ buf \in Seq(Token) /\ c \in Seq(Token) /\ pos \in Nat /\ t \in Nat
          /\ pos = t + Len(buf) /\ Piece(buf, w, t) /\ Piece(c, w, pos)
      BY <2>1, <2>4, <2>5
    <3>1. /\ buf \o c \in Seq(Token) /\ (pos + Len(c)) - Len(buf \o c) = t /\ Piece(buf \o c, w, t)
      BY ONLY <3>0, BufferGrows
    <3>2. buf' = buf \o c
      BY <1>6 DEF c
    <3> QED BY <2>4, <3>1, <3>2
  <2>7. Types'
    BY <1>1, <1>6, <2>2, <2>4, <2>6 DEF HttpInv, Types, clientVars
  <2>8. pc' = "head" /\ pc' \in Active /\ reqs' = reqs /\ answers' = answers /\ handled' = handled
    BY <1>1, <1>2, <1>6 DEF clientVars
  <2>9. Turns'
    BY <1>1, <2>8, HeadState DEF HttpInv, Turns
  <2>10. At' = t
    BY <2>6 DEF At
  <2>11. Buffered'
    BY <2>5, <2>6, <2>8, <2>10, HeadState DEF Buffered
  <2>12. Placed'
    <3>1. AtHead
      BY <1>1 DEF HttpInv, Placed
    <3>2. AtHead'
      BY <2>8, <2>10, <3>1 DEF AtHead
    <3> QED BY <2>8, <3>2, HeadState DEF Placed
  <2> QED BY <1>1, <1>2, <2>4, <2>7, <2>8, <2>9, <2>11, <2>12, Continuing
<1>7. \/ TooLarge(buf) /\ Fail
      \/ \E n \in 1..(size - Len(buf)) :
           /\ Reads(size - Len(buf), n)
           /\ buf' = buf \o SubSeq(stream, pos + 1, pos + n) /\ cap' = size /\ line' = line
           /\ UNCHANGED <<pc, need, body, cur, answers>>
      \/ AtEof /\ Closed
      \/ peer = "reset" /\ Fail
  BY <1>1 DEF read_more
<1> QED BY <1>3, <1>4, <1>5, <1>6, <1>7

\* A head that httparse refuses.
LEMMA BadHeadStep ==
  ASSUME HttpInv, BadHead
  PROVE  HttpInv'
<1>1. pc = "head" /\ parse(buf) = -1 /\ Fail /\ UNCHANGED <<clientVars, handled>>
  BY DEF BadHead
<1>2. pc \in Active /\ pc \in Active \ {"respond"}
  BY <1>1, HeadState
<1>3. Len(answers) < Len(reqs)
  BY <1>1, NoHead
<1> DEFINE i == Len(answers) + 1
           n == Len(buf)
           e == End(reqs, i - 1)
           z == e - At
           h == reqs[i].hlen
<1>4. /\ z \in Nat /\ h \in Nat
      /\ reqs[i].flaw # "head" => parse(buf) = (IF z + h <= n THEN z + h ELSE 0)
  <2>1. HeadFound(i, e, h)
    BY <1>1, <1>3, HeadBuffer
  <2> QED BY <2>1 DEF HeadFound
<1>5. reqs[i].flaw = "head"
  <2> HIDE DEF i, n, z, h
  <2> QED BY <1>1, <1>4
<1>6. ~Served(i)
  BY <1>5 DEF Served
<1>7. i \in 1..i
  BY <1>2, Running
<1>8. ~Due(i)
  BY <1>6, <1>7 DEF Due
<1> QED BY <1>1, <1>2, <1>8, Failing

\* The states of a request that is being read.
LEMMA ReadingState ==
  /\ \A p \in {"size", "chunk", "crlf", "last", "body", "respond"} :
       p \in Reading /\ p \in Active /\ p # "head"
  /\ \A p \in {"size", "chunk", "crlf", "last", "body"} :
       p \in Reading \ {"respond"} /\ p \in Active \ {"respond"} /\ p # "respond"
  /\ \A p \in {"size", "crlf", "last"} : p \in LineStates /\ p \in LineStates \cup {"chunk"}
  /\ LineStates = {"size", "crlf", "last"} /\ "body" \notin LineStates /\ "chunk" \notin LineStates
  /\ "respond" \notin LineStates /\ "respond" \notin LineStates \cup {"chunk"}
  /\ "body" \notin LineStates \cup {"chunk"} /\ "chunk" \in LineStates \cup {"chunk"}
BY DEF Active, Reading, LineStates

\* No tokens at all are a piece of any wire.
LEMMA NoTokens ==
  ASSUME NEW w, NEW a
  PROVE  /\ <<>> \in Seq(Token) /\ Len(<<>>) = 0 /\ Piece(<<>>, w, a)
         /\ \A k \in 1..Len(<<>>) : <<>>[k].k # "nl"
         /\ \A i : IsBody(<<>>, i, 0)
BY DEF Piece, IsBody

\* What has to be shown of the next state to know where the parser is in it.
LEMMA PlacedAtSize ==
  ASSUME pc' = "size", NEW i, i = cur', NEW r, r = reqs'[i], NEW e, e = End(reqs', i - 1), r.chunked,
         NEW j \in 1..(Len(r.ends) + 1), need' = 0, LineAt' = e + ChunkAt(r, j),
         IsBody(body', i, Before(r, j))
  PROVE  Placed'
BY ReadingState DEF Placed, AtSize

\* Likewise in the data of a chunk.
LEMMA PlacedAtChunk ==
  ASSUME pc' = "chunk", NEW i, i = cur', NEW r, r = reqs'[i], NEW e, e = End(reqs', i - 1), r.chunked,
         NEW j \in 1..Len(r.ends), need' <= r.ends[j] - Before(r, j), need' > 0 => buf' = <<>>,
         line' = <<>>, At' + need' = e + ChunkEnd(r, j), IsBody(body', i, r.ends[j] - need')
  PROVE  Placed'
BY ReadingState DEF Placed, AtChunk

\* Likewise behind the data of a chunk.
LEMMA PlacedAtCrlf ==
  ASSUME pc' = "crlf", NEW i, i = cur', NEW r, r = reqs'[i], NEW e, e = End(reqs', i - 1), r.chunked,
         NEW j \in 1..Len(r.ends), need' = 0, LineAt' = e + ChunkEnd(r, j), IsBody(body', i, r.ends[j])
  PROVE  Placed'
BY ReadingState DEF Placed, AtCrlf

\* Likewise behind the last chunk.
LEMMA PlacedAtLast ==
  ASSUME pc' = "last", NEW i, i = cur', NEW r, r = reqs'[i], NEW e, e = End(reqs', i - 1), r.chunked,
         need' = 0, LineAt' = e + ChunkAt(r, Len(r.ends) + 1) + 2, IsBody(body', i, Size(r))
  PROVE  Placed'
BY ReadingState DEF Placed, AtLast

\* Likewise in a body of a given length, or at the end of a body.
LEMMA PlacedAtBody ==
  ASSUME pc' = "body", NEW i, i = cur', NEW r, r = reqs'[i], need' <= Size(r),
         need' > 0 => buf' = <<>> /\ ~r.chunked,
         At' + need' = Done(reqs', i), IsBody(body', i, Size(r) - need')
  PROVE  Placed'
BY ReadingState DEF Placed, AtBody

\* parse_request takes the head from the buffer and the body from what follows.
LEMMA ParsedStep ==
  ASSUME HttpInv, Parsed
  PROVE  HttpInv'
<1> DEFINE i == Len(answers) + 1
           r == reqs[i]
           p == parse(buf)
           n == read_body(r)
           rest == Drop(buf, p)
           k == from_buf(Len(rest), n)
           w == Wire(reqs)
           e == End(reqs, i - 1)
           h == reqs[i].hlen
           t == At
           a == e + h
           x == End(reqs, i)
<1>1. pc = "head" /\ p > 0 /\ pc \in Active /\ UNCHANGED <<clientVars, pos, cap, handled, answers>>
  BY HeadState DEF Parsed
<1>2. Len(answers) < Len(reqs)
  BY <1>1, NoHead
<1>3. /\ e \in Nat /\ h \in Nat /\ a <= x /\ i \in 1..Len(reqs) /\ e - t \in Nat
      /\ p = e - t + h /\ p \in 1..Len(buf) /\ buf[p].req = i
  <2>1. HeadFound(i, e, h)
    BY <1>1, <1>2, HeadBuffer
  <2> QED BY <1>1, <2>1 DEF HeadFound
<1>4. /\ cur' = i /\ body' = SubSeq(rest, 1, k) /\ buf' = Drop(rest, k) /\ need' = n - k
      /\ pc' = (IF is_chunked(r) THEN "size" ELSE "body") /\ line' = <<>>
  <2>1. cur' = i
    BY <1>3 DEF Parsed
  <2> QED BY <2>1 DEF Parsed
<1>5. /\ reqs \in Seq(Shapes) /\ Len(reqs) \in Nat /\ t \in Nat /\ pos \in Nat /\ Len(buf) \in Nat
      /\ pos = t + Len(buf) /\ Piece(buf, w, t) /\ Len(answers) \in Nat /\ Len(handled) = Len(answers)
  BY <1>1, Running
<1>6. r \in Shapes /\ i \in Nat /\ i - 1 = Len(answers)
  BY <1>3, <1>5, ElementOfSeq
<1>7. buf \in Seq(Token)
  BY DEF HttpInv, Types
<1>8. /\ rest \in Seq(Token) /\ Len(rest) = Len(buf) - p /\ Piece(rest, w, t + p)
  <2>1. p \in 0..Len(buf)
    BY <1>3, <1>5
  <2> HIDE DEF p, w, t
  <2> QED BY <1>5, <1>7, <2>1, PieceDrop
<1>9. a \in Nat /\ t + p = a
  <2> HIDE DEF p, e, h, t
  <2>1. e \in Nat /\ h \in Nat /\ t \in Nat /\ p = e - t + h
    BY <1>3, <1>5
  <2> QED BY ONLY <2>1
<1>10. /\ n \in Nat /\ (r.chunked => n = 0) /\ (~r.chunked => n = Size(r) /\ a + n = Done(reqs, i))
       /\ DataAt(w, a, n, i, 0)
  <2>1. CASE r.chunked
    BY <2>1 DEF read_body, is_chunked, DataAt
  <2>2. CASE ~r.chunked
    <3>1. n = Size(r) /\ Size(r) \in Nat
      BY <1>6, <2>2, ShapeFacts DEF read_body, is_chunked, get_content_length, Size
    <3>2. /\ x = e + r.hlen + Size(r) /\ Done(reqs, i) = x
          /\ \A m \in 1..Size(r) : w[e + r.hlen + m] = Tok("data", i, m)
      BY <1>3, <1>5, <2>2, PlainLayout, SMTT(30)
    <3>3. \A m \in 1..Size(r) : 0 + m = m
      BY <3>1
    <3> HIDE DEF n, w
    <3> QED BY <2>2, <3>1, <3>2, <3>3 DEF DataAt
  <2> QED BY <2>1, <2>2
<1>11. /\ k \in 0..Len(rest) /\ k \in 0..n
       /\ Drop(rest, k) \in Seq(Token) /\ Len(Drop(rest, k)) = Len(rest) - k
       /\ Piece(Drop(rest, k), w, a + k) /\ (k < n => Drop(rest, k) = <<>>)
       /\ SubSeq(rest, 1, k) \in Seq(Token) /\ Len(SubSeq(rest, 1, k)) = k
       /\ \A m \in 1..k : SubSeq(rest, 1, k)[m] = Tok("data", i, 0 + m)
  <2>1. /\ k = from_buf(Len(rest), n) /\ Piece(rest, w, a) /\ rest \in Seq(Token) /\ a \in Nat
        /\ n \in Nat /\ 0 \in Nat /\ DataAt(w, a, n, i, 0)
    BY <1>8, <1>9, <1>10
  <2> HIDE DEF rest, n, w, a, k, i
  <2> QED BY ONLY <2>1, Taken
<1> HIDE DEF i, r, p, n, rest, k, w, e, h, t, a, x
<1>12. IsBody(body', i, k) /\ body' \in Seq(Token)
  <2>1. \A m \in 1..k : 0 + m = m
    BY <1>11
  <2> QED BY <1>4, <1>11, <2>1 DEF IsBody
<1>13. /\ buf' \in Seq(Token) /\ Piece(buf', w, a + k) /\ need' \in Nat /\ need' = n - k
       /\ (need' > 0 => buf' = <<>>) /\ Len(buf') = (Len(buf) - p) - k /\ line' = <<>>
  BY <1>4, <1>8, <1>10, <1>11
<1>14. At' = a + k /\ a + k \in Nat /\ k \in Nat
  <2>1. At' = pos' - Len(buf') /\ pos' = pos
    BY <1>1 DEF At
  <2>2. k \in Nat /\ Len(buf) \in Nat /\ p \in Nat /\ t \in Nat /\ a \in Nat
    BY <1>3, <1>5, <1>9, <1>11 DEF p
  <2> DEFINE b == Len(buf)
             b2 == Len(buf')
  <2>3. b2 = (b - p) - k /\ pos = t + b /\ b \in Nat
    BY <1>5, <1>13
  <2> HIDE DEF b, b2
  <2>4. pos - b2 = (t + p) + k
    BY ONLY <2>2, <2>3
  <2> QED BY <1>9, <2>1, <2>2, <2>4 DEF b2
<1>15. /\ reqs' = reqs /\ cur' = i /\ answers' = answers /\ handled' = handled /\ pos' = pos
       /\ clientVars' = clientVars
  BY <1>1, <1>4 DEF clientVars
<1>16. pc' \in Reading /\ pc' \in Active /\ pc' # "respond" /\ pc' # "head" /\ pc' \in {"size", "body"}
  BY <1>4, ReadingState
<1>17. Types'
  BY <1>1, <1>4, <1>6, <1>12, <1>13, <1>15, <1>16, NoTokens DEF HttpInv, Types, clientVars
<1>18. Turns'
  <2>1. i = Len(answers) + 1 /\ i <= Len(reqs) /\ \A m \in 1..Len(answers) : answers[m] = m
    BY <1>1, <1>3, <1>5 DEF HttpInv, Turns, i
  <2> QED BY <1>5, <1>15, <1>16, <2>1 DEF Turns
<1>19. LineAt' = a + k
  <2>1. LineAt' = At' - Len(line') /\ Len(line') = 0
    BY <1>13, NoTokens DEF LineAt
  <2> QED BY <1>14, <2>1
<1>20. Buffered'
  <2>1. At' >= 0 /\ LineAt' >= 0 /\ Piece(buf', Wire(reqs'), At') /\ Piece(line', Wire(reqs'), LineAt')
    BY <1>13, <1>14, <1>15, <1>19, NoTokens DEF w
  <2> QED BY <1>13, <2>1, NoTokens DEF Buffered
<1>21. Placed'
  <2>1. CASE r.chunked
    <3>1. pc' = "size" /\ k = 0 /\ need' = 0
      BY <1>4, <1>10, <1>11, <1>13, <2>1 DEF is_chunked
    <3>2. LineAt' = e + ChunkAt(r, 1)
      <4>1. ChunkAt(r, 1) = h
        BY <1>3, <1>6, ShapeFacts DEF ChunkAt, Before, h, r
      <4> QED BY <1>9, <1>19, <3>1, <4>1 DEF a
    <3>3. IsBody(body', i, Before(r, 1)) /\ 1 \in 1..(Len(r.ends) + 1)
      BY <1>6, <1>12, <3>1, ShapeFacts
    <3>4. i = cur' /\ r = reqs'[i] /\ e = End(reqs', i - 1)
      BY <1>15 DEF r, e
    <3> QED BY ONLY <2>1, <3>1, <3>2, <3>3, <3>4, PlacedAtSize
  <2>2. CASE ~r.chunked
    <3>1. pc' = "body"
      BY <1>4, <2>2 DEF is_chunked
    <3>2. n = Size(r) /\ a + n = Done(reqs, i)
      BY <1>10, <2>2
    <3>3. need' <= Size(r) /\ At' + need' = Done(reqs, i) /\ Size(r) - need' = k
      BY <1>9, <1>10, <1>11, <1>13, <1>14, <3>2, SMTT(30)
    <3>4. i = cur' /\ r = reqs'[i] /\ At' + need' = Done(reqs', i) /\ IsBody(body', i, Size(r) - need')
      BY <1>12, <1>15, <3>3 DEF r
    <3>5. need' > 0 => buf' = <<>> /\ ~r.chunked
      BY <1>13, <2>2
    <3> QED BY ONLY <3>1, <3>3, <3>4, <3>5, PlacedAtBody
  <2> QED BY <2>1, <2>2
<1> QED BY <1>1, <1>15, <1>16, <1>17, <1>18, <1>20, <1>21, Continuing

-----------------------------------------------------------------------------
(* read_fixed_body, read_exact, the handler and the response *)

\* A read of body bytes past the buffer.
LEMMA RestRead ==
  ASSUME HttpInv, pc \in {"body", "chunk"}, need > 0, buf = <<>>, NEW d \in Nat,
         IsBody(body, cur, d), DataAt(Wire(reqs), pos, need, cur, d), NEW n, Reads(need, n),
         body' = body \o SubSeq(stream, pos + 1, pos + n), need' = need - n,
         UNCHANGED <<pc, buf, cap, line, cur, answers>>, UNCHANGED <<clientVars, handled>>
  PROVE  /\ Types' /\ Turns' /\ Buffered' /\ pos' <= Arrived
         /\ n \in Nat /\ n <= need /\ IsBody(body', cur, d + n) /\ At' = pos + n /\ At = pos
<1> DEFINE c == SubSeq(stream, pos + 1, pos + n)
           w == Wire(reqs)
<1>1. pc \in Active /\ pc \in Reading /\ pc \notin LineStates
  BY ReadingState
<1>2. need \in Nat /\ pos \in Nat /\ body \in Seq(Token)
  BY <1>1, Running DEF HttpInv, Types
<1>3. /\ n \in Nat /\ n <= need /\ pos' = pos + n /\ pos' \in 0..Len(stream) /\ pos' <= Arrived
      /\ c \in Seq(Token) /\ Len(c) = n /\ Piece(c, w, pos)
  BY <1>1, <1>2, ReadFacts
<1>4. DataAt(w, pos, n, cur, d)
  BY <1>2, <1>3 DEF DataAt
<1>5. body \o c \in Seq(Token) /\ IsBody(body \o c, cur, d + n)
  <2> HIDE DEF c, w
  <2>1. /\ body \in Seq(Token) /\ c \in Seq(Token) /\ pos \in Nat /\ d \in Nat /\ IsBody(body, cur, d)
        /\ Piece(c, w, pos) /\ DataAt(w, pos, Len(c), cur, d)
    BY <1>2, <1>3, <1>4
  <2>2. body \o c \in Seq(Token) /\ IsBody(body \o c, cur, d + Len(c))
    BY ONLY <2>1, BodyGrows
  <2> QED BY <1>3, <2>2
<1>6. body' = body \o c /\ need' \in Nat
  BY <1>2, <1>3
<1> HIDE DEF c, w
<1>7. Types'
  BY <1>3, <1>5, <1>6 DEF HttpInv, Types, clientVars
<1>8. Turns'
  BY DEF HttpInv, Turns, clientVars
<1>9. At' = pos' /\ At = pos
  <2>1. At' = pos' - 0 /\ At = pos - 0
    BY DEF At
  <2> QED BY <1>2, <1>3, <2>1
<1>10. Buffered'
  <2>1. At' >= 0
    BY <1>2, <1>3, <1>9
  <2>2. Piece(buf', Wire(reqs'), At')
    BY NoTokens
  <2> QED BY <1>1, <2>1, <2>2 DEF Buffered
<1> QED BY <1>3, <1>5, <1>6, <1>7, <1>8, <1>9, <1>10

\* What ReadRest does.
LEMMA RestCases ==
  ASSUME ReadRest
  PROVE  /\ need > 0 /\ UNCHANGED <<clientVars, handled>>
         /\ \/ \E n \in 1..need :
                 /\ Reads(need, n)
                 /\ body' = body \o SubSeq(stream, pos + 1, pos + n)
                 /\ need' = need - n
                 /\ UNCHANGED <<pc, buf, cap, line, cur, answers>>
            \/ AtEof /\ Closed
            \/ peer = "reset" /\ Fail
BY DEF ReadRest

\* read_fixed_body.
LEMMA BodyReadStep ==
  ASSUME HttpInv, read_fixed_body
  PROVE  HttpInv'
<1> DEFINE i == cur
           r == reqs[i]
           e == End(reqs, i - 1)
           h == r.hlen
           z == Size(r)
           d == z - need
           w == Wire(reqs)
           x == End(reqs, i)
<1>1. pc = "body" /\ ReadRest /\ pc \in Active /\ pc \in Reading /\ pc \in Active \ {"respond"}
  BY ReadingState DEF read_fixed_body
<1>2. need > 0 /\ UNCHANGED <<clientVars, handled>>
  BY <1>1, RestCases
<1>3. /\ reqs \in Seq(Shapes) /\ i \in 1..Len(reqs) /\ i = Len(answers) + 1 /\ need \in Nat
      /\ pos \in Nat /\ pos = At + Len(buf)
  BY <1>1, Running
<1>4. /\ buf = <<>> /\ ~r.chunked /\ need <= z /\ At + need = Done(reqs, i) /\ IsBody(body, i, d)
  BY <1>1, <1>2 DEF HttpInv, Placed, AtBody
<1>5. r \in Shapes /\ e \in Nat /\ x \in Nat
  BY <1>3, HeadLayout
<1>6. h \in Nat /\ z \in Nat
  BY <1>5, ShapeFacts
<1>7. x = e + h + z /\ Done(reqs, i) = x /\ \A k \in 1..z : w[e + h + k] = Tok("data", i, k)
  BY <1>3, <1>4, PlainLayout
<1>8. At = pos
  BY <1>3, <1>4 DEF At
<1>9. i = cur /\ i - 1 = cur - 1 /\ w = Wire(reqs) /\ d = z - need
  OBVIOUS
<1> HIDE DEF i, r, e, h, z, d, w, x
<1>10. d \in Nat /\ pos + need = x /\ pos = e + h + d /\ pos < x
  BY <1>2, <1>3, <1>4, <1>5, <1>6, <1>7, <1>8, <1>9
<1>11. DataAt(w, pos, need, i, d)
  <2>1. ASSUME NEW m \in 1..need PROVE w[pos + m] = Tok("data", i, d + m)
    <3>1. d + m \in 1..z /\ pos + m = e + h + (d + m)
      BY <1>3, <1>4, <1>5, <1>6, <1>9, <1>10, SMTT(30)
    <3> QED BY <1>7, <3>1
  <2> QED BY <2>1 DEF DataAt
<1>12. CASE AtEof /\ Closed
  <2>1. pos < End(reqs, Len(answers) + 1)
    BY <1>3, <1>10 DEF x
  <2> QED BY <1>1, <1>2, <1>12, <2>1, Closing
<1>13. CASE peer = "reset" /\ Fail
  BY <1>1, <1>2, <1>13, Failing
<1>14. ASSUME NEW n \in 1..need, Reads(need, n),
              body' = body \o SubSeq(stream, pos + 1, pos + n), need' = need - n,
              UNCHANGED <<pc, buf, cap, line, cur, answers>>
       PROVE  HttpInv'
  <2>1. pc \in {"body", "chunk"} /\ IsBody(body, cur, d) /\ DataAt(Wire(reqs), pos, need, cur, d)
    BY <1>1, <1>4, <1>9, <1>11
  <2>2. /\ Types' /\ Turns' /\ Buffered' /\ pos' <= Arrived
        /\ n \in Nat /\ n <= need /\ IsBody(body', cur, d + n) /\ At' = pos + n
    BY <1>2, <1>4, <1>10, <1>14, <2>1, RestRead
  <2>3. pc' = "body" /\ i = cur' /\ r = reqs'[i] /\ reqs' = reqs
    BY <1>1, <1>2, <1>9, <1>14 DEF r, clientVars
  <2>4. need' <= z /\ z - need' = d + n /\ At' + need' = x
    BY <1>3, <1>4, <1>6, <1>9, <1>10, <1>14, <2>2
  <2>5. /\ need' <= Size(r) /\ (need' > 0 => buf' = <<>> /\ ~r.chunked)
        /\ At' + need' = Done(reqs', i) /\ IsBody(body', i, Size(r) - need')
    BY <1>4, <1>7, <1>9, <1>14, <2>2, <2>3, <2>4 DEF z
  <2>6. Placed'
    BY ONLY <2>3, <2>5, PlacedAtBody
  <2> QED BY <1>1, <1>2, <1>14, <2>2, <2>6, Continuing
<1> QED BY <1>1, <1>12, <1>13, <1>14, RestCases

\* read_exact.
LEMMA ReadExactStep ==
  ASSUME HttpInv, read_exact
  PROVE  HttpInv'
<1> DEFINE i == cur
           r == reqs[i]
           e == End(reqs, i - 1)
           w == Wire(reqs)
           x == End(reqs, i)
<1>1. pc = "chunk" /\ ReadRest /\ pc \in Active /\ pc \in Reading /\ pc \in Active \ {"respond"}
  BY ReadingState DEF read_exact
<1>2. need > 0 /\ UNCHANGED <<clientVars, handled>>
  BY <1>1, RestCases
<1>3. /\ reqs \in Seq(Shapes) /\ i \in 1..Len(reqs) /\ i = Len(answers) + 1 /\ need \in Nat
      /\ pos \in Nat /\ pos = At + Len(buf)
  BY <1>1, Running
<1>4. r.chunked /\ AtChunk(i, r, e)
  BY <1>1 DEF HttpInv, Placed, LineStates
<1>5. PICK j \in 1..Len(r.ends) :
        /\ need <= r.ends[j] - Before(r, j) /\ (need > 0 => buf = <<>>) /\ line = <<>>
        /\ At + need = e + ChunkEnd(r, j) /\ IsBody(body, i, r.ends[j] - need)
  BY <1>4 DEF AtChunk
<1>6. r \in Shapes /\ e \in Nat /\ x \in Nat
  BY <1>3, HeadLayout
<1> DEFINE a == e + ChunkAt(r, j)
           z == r.ends[j] - Before(r, j)
           b == Before(r, j)
           t == r.ends[j]
           d == t - need
<1>7. b \in Nat /\ t \in Nat
  <2>1. Len(r.ends) \in Nat
    BY <1>6, ShapeFacts
  <2>2. j \in 1..(Len(r.ends) + 1)
    BY <2>1
  <2> QED BY <1>6, <2>2, ShapeFacts
<1>8. /\ a \in Nat /\ z \in Nat /\ a + z + 3 <= x /\ e + ChunkEnd(r, j) = a + z + 2
      /\ \A k \in 1..z : w[a + 2 + k] = Tok("data", i, b + k)
  <2>1. r = reqs[i] /\ w = Wire(reqs) /\ e = End(reqs, i - 1) /\ a = e + ChunkAt(r, j) /\ z = r.ends[j] - b
        /\ b = Before(r, j) /\ x = End(reqs, i)
    OBVIOUS
  <2>2. ChunkFormat(w, i, r, e, x, j)
    <3> HIDE DEF i, r, e, w, a, z, b, x
    <3> QED BY <1>3, <1>4, <2>1, ChunkLayout
  <2> QED BY <2>2 DEF ChunkFormat
<1>9. At = pos /\ buf = <<>>
  BY <1>2, <1>3, <1>5 DEF At
<1>10. i = cur /\ w = Wire(reqs) /\ d = t - need /\ z = t - b /\ need <= z
  BY <1>5
<1>11. pos + need = a + z + 2 /\ IsBody(body, i, d)
  BY <1>5, <1>8, <1>9
<1>12. e = End(reqs, i - 1) /\ r = reqs[i] /\ t = r.ends[j] /\ b = Before(r, j)
  OBVIOUS
<1> HIDE DEF i, r, e, z, d, w, x, a, b, t
<1>13. d \in Nat /\ pos < x /\ d = b + (z - need) /\ pos = a + 2 + (z - need)
  BY <1>2, <1>3, <1>6, <1>7, <1>8, <1>10, <1>11, SMTT(30)
<1>14. DataAt(w, pos, need, i, d)
  <2>1. ASSUME NEW m \in 1..need PROVE w[pos + m] = Tok("data", i, d + m)
    <3> DEFINE y == z - need
               k == y + m
    <3>a. z \in Nat /\ need \in Nat /\ need <= z
      BY <1>3, <1>8, <1>10
    <3>b. m \in Nat /\ m >= 1 /\ m <= need
      BY <3>a
    <3>0. y \in Nat /\ m \in Nat
      BY ONLY <3>a, <3>b
    <3>1. k \in 1..z
      BY ONLY <3>a, <3>b
    <3>2. pos = a + 2 + y /\ d = b + y /\ a \in Nat /\ b \in Nat
      BY <1>7, <1>8, <1>13
    <3> HIDE DEF y
    <3>3. (a + 2 + y) + m = a + 2 + k /\ (b + y) + m = b + k
      BY ONLY <3>0, <3>2
    <3>4. w[a + 2 + k] = Tok("data", i, b + k)
      BY <1>8, <3>1
    <3> QED BY <3>2, <3>3, <3>4
  <2> QED BY <2>1 DEF DataAt
<1>15. CASE AtEof /\ Closed
  <2>1. pos < End(reqs, Len(answers) + 1)
    BY <1>3, <1>13 DEF x
  <2> QED BY <1>1, <1>2, <1>15, <2>1, Closing
<1>16. CASE peer = "reset" /\ Fail
  BY <1>1, <1>2, <1>16, Failing
<1>17. ASSUME NEW n \in 1..need, Reads(need, n),
              body' = body \o SubSeq(stream, pos + 1, pos + n), need' = need - n,
              UNCHANGED <<pc, buf, cap, line, cur, answers>>
       PROVE  HttpInv'
  <2>1. pc \in {"body", "chunk"} /\ IsBody(body, cur, d) /\ DataAt(Wire(reqs), pos, need, cur, d)
    BY <1>1, <1>10, <1>11, <1>14
  <2>2. /\ Types' /\ Turns' /\ Buffered' /\ pos' <= Arrived
        /\ n \in Nat /\ n <= need /\ IsBody(body', cur, d + n) /\ At' = pos + n
    BY <1>2, <1>9, <1>13, <1>17, <2>1, RestRead
  <2>3. /\ pc' = "chunk" /\ i = cur' /\ r = reqs'[i] /\ e = End(reqs', i - 1) /\ line' = <<>>
        /\ buf' = <<>> /\ r.chunked
    BY <1>1, <1>2, <1>4, <1>5, <1>9, <1>10, <1>12, <1>17 DEF clientVars
  <2>4. need' <= z /\ t - need' = d + n /\ At' + need' = a + z + 2
    BY <1>3, <1>7, <1>8, <1>10, <1>11, <1>17, <2>2, SMTT(30)
  <2>5. /\ j \in 1..Len(r.ends) /\ need' <= r.ends[j] - Before(r, j)
        /\ At' + need' = e + ChunkEnd(r, j) /\ IsBody(body', i, r.ends[j] - need')
    BY <1>5, <1>8, <1>10, <1>12, <2>2, <2>4
  <2>6. Placed'
    BY ONLY <2>3, <2>5, PlacedAtChunk
  <2> QED BY <1>1, <1>2, <1>17, <2>2, <2>6, Continuing
<1> QED BY <1>1, <1>15, <1>16, <1>17, RestCases

\* The body is complete: it is the one the client sent.
LEMMA BodyIs ==
  ASSUME reqs \in Seq(Shapes), NEW i \in 1..Len(reqs), NEW s \in Seq(Token), IsBody(s, i, Size(reqs[i]))
  PROVE  s = BodyOf(i)
<1> DEFINE r == reqs[i]
           n == IF r.chunked THEN Before(r, Len(r.ends) + 1) ELSE r.length
           d == Data(i, 0, n)
<1>1. BodyOf(i) = d
  BY DEF BodyOf
<1>2. r \in Shapes /\ i \in Nat
  BY ElementOfSeq
<1>3. /\ r.length \in Nat \cup {-1} /\ Len(r.ends) \in Nat
      /\ \A j \in 1..(Len(r.ends) + 1) : Before(r, j) \in Nat
      /\ (~r.chunked => Size(r) = IF r.length = -1 THEN 0 ELSE r.length) /\ Size(r) \in Nat
  BY <1>2, ShapeFacts
<1>4. r.chunked => n = Size(r)
  BY DEF Size
<1>5. n \in Int /\ Size(r) = (IF n <= 0 THEN 0 ELSE n)
  <2>1. CASE r.chunked
    <3>1. n = Size(r)
      BY <1>4, <2>1
    <3> HIDE DEF n
    <3> QED BY <1>3, <3>1
  <2>2. CASE ~r.chunked
    BY <1>3, <2>2
  <2> QED BY <2>1, <2>2
<1> HIDE DEF n
<1>6. /\ d \in Seq(TokenOf(i)) /\ Len(d) = Size(r)
      /\ \A k \in 1..Len(d) : d[k] = Tok("data", i, 0 + k)
  BY <1>2, <1>5, DataFacts
<1> DEFINE m == Size(r)
<1>7. Len(s) = m /\ \A k \in 1..m : s[k] = Tok("data", i, k)
  BY DEF IsBody
<1> HIDE DEF d, m
<1>8. Len(d) = m /\ m \in Nat
  BY <1>3, <1>6 DEF m
<1>9. \A k \in 1..m : d[k] = s[k]
  <2>1. \A k \in 1..m : 0 + k = k
    BY <1>8
  <2> QED BY <1>6, <1>7, <1>8, <2>1
<1>10. s = [k \in 1..m |-> s[k]] /\ d = [k \in 1..m |-> d[k]]
  BY <1>6, <1>7, <1>8
<1>11. s = d
  BY <1>9, <1>10
<1> QED BY <1>1, <1>11

\* The request is built and handled.
LEMMA HandleStep ==
  ASSUME HttpInv, Handle
  PROVE  HttpInv'
<1> DEFINE i == cur
           r == reqs[i]
<1>1. pc = "body" /\ need = 0 /\ UNCHANGED clientVars
  BY DEF Handle
<1>2. pc \in Active /\ pc \in Reading /\ pc \in Active \ {"respond"} /\ pc \in Reading \ {"respond"}
  BY <1>1, ReadingState
<1>3. /\ reqs \in Seq(Shapes) /\ i \in 1..Len(reqs) /\ i = Len(answers) + 1 /\ Len(answers) \in Nat
      /\ Len(handled) = Len(answers) /\ pos \in Nat /\ At \in Nat
  BY <1>2, Running
<1>4. CASE r.flaw = "uri" /\ Fail /\ UNCHANGED handled
  <2>1. ~Served(i) /\ i \in 1..i
    BY <1>3, <1>4 DEF Served
  <2>2. ~Due(Len(answers) + 1)
    BY <1>3, <2>1 DEF Due
  <2> QED BY <1>1, <1>2, <1>4, <2>2, Failing
<1>5. CASE /\ handled' = Append(handled, [req |-> cur, body |-> body]) /\ pc' = "respond"
           /\ UNCHANGED <<pos, answers, parserVars>>
  <2> USE DEF parserVars, clientVars
  <2>1. AtBody(i, r)
    BY <1>1 DEF HttpInv, Placed
  <2>2. At = Done(reqs, i) /\ IsBody(body, i, Size(r))
    <3>1. At + 0 = Done(reqs, i) /\ IsBody(body, i, Size(r) - 0)
      BY <1>1, <2>1 DEF AtBody
    <3>2. r \in Shapes
      BY <1>3, ElementOfSeq
    <3>3. Size(r) \in Nat
      BY <3>2, ShapeFacts
    <3> QED BY <1>3, <3>1, <3>3
  <2>3. body \in Seq(Token) /\ cur \in Nat /\ handled \in Seq([req : Nat, body : Seq(Token)])
    BY DEF HttpInv, Types
  <2>4. body = BodyOf(i)
    BY <1>3, <2>2, <2>3, BodyIs
  <2>5. /\ handled' \in Seq([req : Nat, body : Seq(Token)]) /\ Len(handled') = i
        /\ \A k \in 1..(i - 1) : handled'[k] = handled[k]
        /\ handled'[i] = [req |-> i, body |-> body]
    <3> DEFINE y == [req |-> cur, body |-> body]
               T == [req : Nat, body : Seq(Token)]
    <3>1. y \in T /\ handled' = Append(handled, y) /\ handled \in Seq(T) /\ Len(handled) = i - 1
      BY <1>3, <1>5, <2>3
    <3> HIDE DEF y, T
    <3>2. /\ Append(handled, y) \in Seq(T) /\ Len(Append(handled, y)) = Len(handled) + 1
          /\ \A k \in 1..Len(handled) : Append(handled, y)[k] = handled[k]
          /\ Append(handled, y)[Len(handled) + 1] = y
      BY <3>1, AppendProperties
    <3>3. (i - 1) + 1 = i
      BY <1>3
    <3> QED BY <3>1, <3>2, <3>3 DEF y, T
  <2>6. pc' \in Active /\ pc' \in Reading /\ pc' # "head" /\ pc' \notin LineStates
        /\ pc' \notin LineStates \cup {"chunk"}
    BY <1>5, ReadingState
  <2>7. Types'
    BY <1>1, <1>5, <2>5, <2>6 DEF HttpInv, Types
  <2>8. Sending'
    BY <1>1, <1>2, <1>5, <2>7, Waiting
  <2>9. Turns'
    <3>1. \A k \in 1..Len(answers) : answers[k] = k
      BY <1>2 DEF HttpInv, Turns
    <3>2. i <= Len(reqs)
      BY <1>3
    <3> QED BY <1>1, <1>3, <1>5, <2>5, <2>6, <3>1, <3>2 DEF Turns
  <2>10. Buffered'
    BY <1>1, <1>2, <1>5, <2>6 DEF HttpInv, Buffered, At
  <2>11. Placed'
    BY <1>1, <1>5, <2>2, <2>6 DEF Placed, At
  <2>12. RequestsExact'
    <3>1. \A k \in 1..(i - 1) : handled[k] = [req |-> k, body |-> BodyOf(k)]
      BY <1>3, <2>3 DEF HttpInv, RequestsExact
    <3>2. \A k : BodyOf(k)' = BodyOf(k)
      BY <1>1 DEF BodyOf
    <3>3. DOMAIN handled' = 1..i
      BY <2>5
    <3>4. \A k \in 1..i : k = i \/ k \in 1..(i - 1)
      BY <1>3
    <3> QED BY <2>4, <2>5, <3>1, <3>2, <3>3, <3>4 DEF RequestsExact
  <2> QED BY <2>6, <2>7, <2>8, <2>9, <2>10, <2>11, <2>12, GoingOn
<1> QED BY <1>4, <1>5 DEF Handle

\* The chunk is complete.
LEMMA ChunkReadStep ==
  ASSUME HttpInv, ChunkRead
  PROVE  HttpInv'
<1> DEFINE i == cur
           r == reqs[i]
           e == End(reqs, i - 1)
<1> USE DEF parserVars, clientVars
<1>1. pc = "chunk" /\ need = 0 /\ pc' = "crlf" /\ UNCHANGED <<clientVars, pos, parserVars, handled, answers>>
  BY DEF ChunkRead
<1>2. pc \in Active /\ pc \in Reading /\ pc' \in Active /\ pc' \in Reading /\ pc' # "respond"
      /\ pc' # "head" /\ pc # "respond"
  BY <1>1, ReadingState
<1>3. /\ i \in 1..Len(reqs) /\ At \in Nat
  BY <1>2, Running
<1>4. r.chunked /\ AtChunk(i, r, e)
  BY <1>1 DEF HttpInv, Placed, LineStates
<1>5. PICK j \in 1..Len(r.ends) :
        line = <<>> /\ At + need = e + ChunkEnd(r, j) /\ IsBody(body, i, r.ends[j] - need)
  BY <1>4 DEF AtChunk
<1>6. At = e + ChunkEnd(r, j) /\ IsBody(body, i, r.ends[j])
  <2>1. r \in Shapes
    BY <1>3, ElementOfSeq DEF HttpInv, Types
  <2>2. r.ends[j] \in Nat
    BY <2>1, ShapeFacts
  <2>3. At + 0 = At /\ r.ends[j] - 0 = r.ends[j]
    BY <1>3, <2>2
  <2> QED BY <1>1, <1>5, <2>3
<1>7. At' = At /\ LineAt' = At
  <2>1. At' = At
    BY <1>1 DEF At
  <2>2. LineAt' = At' - 0
    BY <1>1, <1>5, NoTokens DEF LineAt
  <2> QED BY <1>3, <2>1, <2>2
<1>8. Types'
  BY <1>1, <1>2 DEF HttpInv, Types
<1>9. Turns'
  BY <1>1, <1>2 DEF HttpInv, Turns
<1>10. Buffered'
  <2>1. At >= 0 /\ Piece(buf, Wire(reqs), At)
    BY <1>2 DEF HttpInv, Buffered
  <2>2. line' = <<>>
    BY <1>1, <1>5
  <2>3. Piece(line', Wire(reqs'), LineAt') /\ \A k \in 1..Len(line') : line'[k].k # "nl"
    BY <2>2, NoTokens
  <2> QED BY <1>1, <1>7, <2>1, <2>3 DEF Buffered
<1>11. Placed'
  <2>1. i = cur' /\ r = reqs'[i] /\ e = End(reqs', i - 1) /\ need' = 0 /\ body' = body
    BY <1>1
  <2>2. LineAt' = e + ChunkEnd(r, j) /\ IsBody(body', i, r.ends[j]) /\ pc' = "crlf"
    BY <1>1, <1>6, <1>7, <2>1
  <2> HIDE DEF i, r, e
  <2> QED BY ONLY <1>4, <1>5, <2>1, <2>2, PlacedAtCrlf
<1> QED BY <1>1, <1>2, <1>8, <1>9, <1>10, <1>11, Continuing

\* The response, and the next request or the end of the connection.
LEMMA RespondStep ==
  ASSUME HttpInv, Respond
  PROVE  HttpInv'
<1> DEFINE i == cur
           m == Len(answers)
<1> USE DEF parserVars, clientVars
<1>1. pc = "respond" /\ UNCHANGED <<clientVars, pos, cap, line, need, body, cur, handled>>
  BY DEF Respond
<1>2. pc \in Active /\ pc \in Reading
  BY <1>1, ReadingState
<1>3. /\ reqs \in Seq(Shapes) /\ Len(reqs) \in Nat /\ i \in 1..Len(reqs) /\ i = m + 1 /\ m \in Nat
      /\ pos \in Nat /\ At \in Nat /\ Len(buf) \in Nat /\ pos = At + Len(buf) /\ Piece(buf, Wire(reqs), At)
  BY <1>2, Running
<1>4. /\ answers \in Seq(Nat) /\ (\A k \in 1..m : answers[k] = k) /\ Len(handled) = i
      /\ buf \in Seq(Token) /\ At = Done(reqs, i)
  BY <1>1, <1>2 DEF HttpInv, Types, Turns, Placed
<1>5. CASE peer = "reset" /\ pc' = "failed" /\ UNCHANGED <<buf, answers>>
  <2>1. 0 \notin Range(answers)
    BY <1>4, Numbered
  <2> QED BY <1>1, <1>2, <1>4, <1>5, <2>1, Ending DEF Ended
<1>6. ASSUME answers' = Append(answers, cur)
      PROVE  /\ answers' \in Seq(Nat) /\ Len(answers') = i
             /\ \A k \in 1..Len(answers') : answers'[k] = k
  <2>1. i \in Nat
    BY <1>3
  <2>2. /\ answers' \in Seq(Nat) /\ Len(answers') = m + 1
        /\ (\A k \in 1..m : answers'[k] = answers[k]) /\ answers'[m + 1] = i
    BY <1>4, <1>6, <2>1, AppendProperties
  <2>3. \A k \in 1..i : k = m + 1 \/ k \in 1..m
    BY <1>3
  <2>4. i = m + 1
    BY <1>3
  <2> HIDE DEF i, m
  <2> QED BY <1>4, <2>2, <2>3, <2>4
<1>7. CASE /\ answers' = Append(answers, cur) /\ pc' = "finished" /\ UNCHANGED buf
  <2>1. 0 \notin Range(answers') /\ answers' \in Seq(Nat)
    BY <1>6, <1>7, Numbered
  <2> QED BY <1>1, <1>2, <1>7, <2>1, Ending DEF Ended
<1>8. CASE /\ answers' = Append(answers, cur) /\ pc' = "head" /\ buf' = reset(buf)
  <2> DEFINE x == End(reqs, i)
             d == Done(reqs, i)
  <2>1. /\ answers' \in Seq(Nat) /\ Len(answers') = i /\ \A k \in 1..Len(answers') : answers'[k] = k
    BY <1>6, <1>8
  <2>2. /\ pc' \in Active /\ pc' \notin Reading /\ pc' \notin LineStates
        /\ pc' \notin LineStates \cup {"chunk"}
        /\ pc' \notin {"size", "chunk", "crlf", "last", "body", "respond"}
    BY <1>8, HeadState
  <2>3. i \in 0..Len(reqs) /\ i # 0
    BY <1>3
  <2>4. /\ x \in Nat /\ d \in Nat /\ (d = x \/ d + 1 = x)
    BY <1>3, <2>3, LeftLayout
  <2>5. ~mode[2] => pos <= x
    <3>1. m < Len(reqs) /\ m + 1 = i
      BY <1>3
    <3>2. ~mode[2] => pos <= End(reqs, m + 1)
      BY <1>2, <3>1 DEF HttpInv, Sending
    <3> QED BY <3>1, <3>2
  <2>6. buf' \in Seq(Token) /\ At' \in Nat /\ Piece(buf', Wire(reqs), At') /\ At' \in d..x
    <3>1. CASE mode[1] = "kimojio"
      <4>1. buf' = <<>> /\ ~mode[2]
        BY <1>8, <3>1 DEF reset, HttpInv, Types
      <4>2. At' = pos - 0
        BY <1>1, <4>1 DEF At
      <4>3. At' = pos
        BY <1>3, <4>2
      <4>4. pos <= x /\ d <= pos
        <5>1. d = At
          BY <1>4
        <5> HIDE DEF d
        <5> QED BY <1>3, <2>5, <4>1, <5>1
      <4> QED BY <1>3, <2>4, <4>1, <4>3, <4>4, NoTokens
    <3>2. CASE mode[1] # "kimojio"
      <4>1. buf' = buf
        BY <1>8, <3>2 DEF reset
      <4>2. At' = At
        BY <1>1, <4>1 DEF At
      <4> QED BY <1>3, <1>4, <2>4, <4>1, <4>2
    <3> QED BY <3>1, <3>2
  <2>7. Types'
    BY <1>1, <2>1, <2>2, <2>6 DEF HttpInv, Types
  <2>8. Sending'
    <3>1. Len(stream) <= Len(Wire(reqs)) /\ Piece(stream, Wire(reqs), 0)
      BY DEF HttpInv, Sending
    <3>2. ASSUME ~mode[2], i < Len(reqs) PROVE pos <= End(reqs, i + 1)
      <4>1. i + 1 \in 0..Len(reqs) /\ i <= i + 1
        BY <1>3, <3>2
      <4>2. End(reqs, i) <= End(reqs, i + 1) /\ End(reqs, i + 1) \in Nat
        BY <1>3, <2>3, <4>1, WireOrder, WireFacts
      <4> QED BY <1>3, <2>4, <2>5, <3>2, <4>2
    <3> QED BY <1>1, <2>1, <3>1, <3>2 DEF Sending
  <2>9. Turns'
    <3>1. i <= Len(reqs)
      BY <1>3
    <3> QED BY <1>1, <1>4, <2>1, <2>2, <3>1 DEF Turns
  <2>10. Buffered'
    <3>1. At' >= 0 /\ Piece(buf', Wire(reqs'), At')
      BY <1>1, <2>6
    <3> QED BY <2>2, <3>1 DEF Buffered
  <2>11. Placed'
    <3>1. AtHead'
      BY <1>1, <2>1, <2>6 DEF AtHead
    <3> QED BY <2>2, <3>1 DEF Placed
  <2>12. RequestsExact'
    BY <1>1 DEF HttpInv, RequestsExact, BodyOf
  <2> QED BY <2>2, <2>7, <2>8, <2>9, <2>10, <2>11, <2>12, GoingOn
<1> QED BY <1>5, <1>7, <1>8 DEF Respond, write_response

-----------------------------------------------------------------------------
(* read_line and read_chunked_body *)

\* A chunk's size line, whose first token is the size.
SizeOf(r, j) ==
    IF j <= Len(r.ends) THEN r.ends[j] - Before(r, j)
    ELSE IF r.flaw = "size" THEN -1 ELSE 0

SizeFormat(w, r, e, x, j) ==
    LET a == e + ChunkAt(r, j)
    IN  /\ a \in Nat /\ a + 2 <= x /\ LineEnds(w, a, 2)
        /\ w[a + 1].k = "size" /\ w[a + 1].n = SizeOf(r, j)

\* Every size line is of this form.
LEMMA SizeLine ==
  ASSUME NEW rs \in Seq(Shapes), NEW i \in 1..Len(rs), NEW r, r = rs[i], r.chunked,
         NEW w, w = Wire(rs), NEW e, e = End(rs, i - 1), NEW j \in 1..(Len(r.ends) + 1)
  PROVE  SizeFormat(w, r, e, End(rs, i), j)
<1> SUFFICES ASSUME NEW a, a = e + ChunkAt(r, j)
             PROVE  /\ a \in Nat /\ a + 2 <= End(rs, i) /\ LineEnds(w, a, 2)
                    /\ w[a + 1].k = "size" /\ w[a + 1].n = SizeOf(r, j)
  BY DEF SizeFormat
<1>1. r \in Shapes /\ End(rs, i) \in Nat
  BY HeadLayout
<1>2. Len(r.ends) \in Nat
  BY <1>1, ShapeFacts
<1>3. i \in Nat
  OBVIOUS
<1>4. \A z : Tok("size", i, z).k = "size" /\ Tok("size", i, z).n = z /\ Tok("nl", i, z).k = "nl"
  BY DEF Tok
<1>5. \A k \in 1..(2 - 1) : k = 1
  OBVIOUS
<1>6. CASE j <= Len(r.ends)
  <2> DEFINE z == r.ends[j] - Before(r, j)
             x == End(rs, i)
  <2>1. j \in 1..Len(r.ends)
    BY <1>2, <1>6
  <2>2. ChunkFormat(w, i, r, e, x, j)
    BY <2>1, ChunkLayout
  <2>3. /\ a \in Nat /\ z \in Nat /\ a + z + 3 <= x
        /\ w[a + 1] = Tok("size", i, z) /\ w[a + 2] = Tok("nl", i, 0)
    BY <2>2 DEF ChunkFormat
  <2>4. a + 2 <= x
    <3> HIDE DEF z, x
    <3>1. x \in Nat
      BY <1>1 DEF x
    <3> QED BY <2>3, <3>1
  <2>5. w[a + 1].k = "size" /\ w[a + 1].n = z /\ w[a + 2].k = "nl"
    BY <1>4, <2>3, SMTT(30)
  <2>6. LineEnds(w, a, 2)
    BY <1>5, <2>5 DEF LineEnds
  <2> QED BY <1>6, <2>3, <2>4, <2>5, <2>6 DEF SizeOf
<1>7. CASE ~(j <= Len(r.ends))
  <2> DEFINE z == IF r.flaw = "size" THEN -1 ELSE 0
             x == End(rs, i)
             d == Done(rs, i)
  <2>1. j = Len(r.ends) + 1
    BY <1>2, <1>7
  <2>2. LastFormat(w, i, r, e, x, d)
    BY LastLayout
  <2>3. /\ a \in Nat /\ a + 3 <= d /\ d \in Nat
        /\ w[a + 1] = Tok("size", i, z) /\ w[a + 2] = Tok("nl", i, 0)
    BY <2>1, <2>2 DEF LastFormat
  <2>4. a + 2 <= x
    <3>1. d <= x /\ x \in Nat
      BY LeftLayout, SMTT(30)
    <3> HIDE DEF x, d
    <3> QED BY <2>3, <3>1
  <2>5. w[a + 1].k = "size" /\ w[a + 1].n = z /\ w[a + 2].k = "nl"
    BY <1>4, <2>3
  <2>6. LineEnds(w, a, 2)
    BY <1>5, <2>5 DEF LineEnds
  <2> QED BY <1>7, <2>3, <2>4, <2>5, <2>6 DEF SizeOf
<1> QED BY <1>6, <1>7

\* The line end behind the data of a chunk.
LEMMA CrlfLine ==
  ASSUME NEW rs \in Seq(Shapes), NEW i \in 1..Len(rs), NEW r, r = rs[i], r.chunked,
         NEW w, w = Wire(rs), NEW e, e = End(rs, i - 1), NEW j \in 1..Len(r.ends),
         NEW a, a = e + ChunkEnd(r, j)
  PROVE  a \in Nat /\ a + 1 <= End(rs, i) /\ LineEnds(w, a, 1) /\ e + ChunkAt(r, j + 1) = a + 1
<1> DEFINE z == r.ends[j] - Before(r, j)
           x == End(rs, i)
           b == e + ChunkAt(r, j)
<1>1. ChunkFormat(w, i, r, e, x, j)
  BY ChunkLayout
<1>2. /\ b \in Nat /\ z \in Nat /\ b + z + 3 <= x /\ a = b + z + 2 /\ e + ChunkAt(r, j + 1) = b + z + 3
      /\ w[b + z + 3] = Tok("nl", i, 0)
  BY <1>1 DEF ChunkFormat
<1> HIDE DEF z, x, b
<1>3. a \in Nat /\ b + z + 3 = a + 1
  BY <1>2
<1>4. w[a + 1].k = "nl"
  BY <1>2, <1>3 DEF Tok
<1>5. LineEnds(w, a, 1)
  BY <1>4 DEF LineEnds
<1> QED BY <1>2, <1>3, <1>5 DEF x

\* The line behind the last chunk: empty, or the trailer.
LastEnds(w, r, e, d) ==
    LET a == e + ChunkAt(r, Len(r.ends) + 1) + 2
    IN  a \in Nat /\ \E q \in 1..2 : LineEnds(w, a, q) /\ a + q = d

\* The server is done with the request behind this line.
LEMMA LastLine ==
  ASSUME NEW rs \in Seq(Shapes), NEW i \in 1..Len(rs), NEW r, r = rs[i], r.chunked,
         NEW w, w = Wire(rs), NEW e, e = End(rs, i - 1)
  PROVE  LastEnds(w, r, e, Done(rs, i))
<1> SUFFICES ASSUME NEW a, a = e + ChunkAt(r, Len(r.ends) + 1) + 2
             PROVE  a \in Nat /\ \E q \in 1..2 : LineEnds(w, a, q) /\ a + q = Done(rs, i)
  BY DEF LastEnds
<1> DEFINE x == End(rs, i)
           d == Done(rs, i)
           b == e + ChunkAt(r, Len(r.ends) + 1)
<1>1. LastFormat(w, i, r, e, x, d)
  BY LastLayout
<1>2. /\ b \in Nat /\ a = b + 2
      /\ ~r.trailer => w[b + 3] = Tok("nl", i, 0) /\ d = b + 3
      /\ r.trailer => w[b + 3] = Tok("hdr", i, 0) /\ w[b + 4] = Tok("nl", i, 0) /\ d = b + 4
  BY <1>1 DEF LastFormat
<1>3. Tok("nl", i, 0).k = "nl" /\ Tok("hdr", i, 0).k = "hdr"
  BY DEF Tok
<1> HIDE DEF x, b, d
<1>4. a \in Nat /\ b + 3 = a + 1 /\ b + 4 = a + 2
  BY <1>2
<1>5. CASE ~r.trailer
  <2>1. w[a + 1].k = "nl" /\ a + 1 = d
    BY <1>2, <1>3, <1>4, <1>5
  <2>2. LineEnds(w, a, 1)
    BY <2>1 DEF LineEnds
  <2> QED BY <1>4, <2>1, <2>2 DEF d
<1>6. CASE r.trailer
  <2>1. w[a + 1].k # "nl" /\ w[a + 2].k = "nl" /\ a + 2 = d
    BY <1>2, <1>3, <1>4, <1>6
  <2>2. \A k \in 1..(2 - 1) : k = 1
    OBVIOUS
  <2>3. LineEnds(w, a, 2)
    BY <2>1, <2>2 DEF LineEnds
  <2> QED BY <1>4, <2>1, <2>3 DEF d
<1> QED BY <1>5, <1>6

\* Where the server is while it reads a line.
LEMMA LineState ==
  ASSUME HttpInv, pc \in LineStates
  PROVE  /\ pc \in Active /\ pc \in Reading /\ pc \in Active \ {"respond"} /\ pc # "head"
         /\ LineAt \in Nat /\ At = LineAt + Len(line) /\ pos = LineAt + Len(line) + Len(buf)
         /\ Piece(line, Wire(reqs), LineAt) /\ Piece(buf, Wire(reqs), LineAt + Len(line))
         /\ (\A k \in 1..Len(line) : line[k].k # "nl")
         /\ line \in Seq(Token) /\ buf \in Seq(Token) /\ body \in Seq(Token)
         /\ Len(line) \in Nat /\ Len(buf) \in Nat /\ pos \in Nat
         /\ reqs[cur].chunked
<1>1. pc \in Active /\ pc \in Reading /\ pc \in Active \ {"respond"} /\ pc # "head"
  BY ReadingState
<1>2. line \in Seq(Token) /\ buf \in Seq(Token) /\ body \in Seq(Token) /\ Len(line) \in Nat
  BY DEF HttpInv, Types
<1>3. At \in Nat /\ pos = At + Len(buf) /\ Len(buf) \in Nat /\ pos \in Nat
  BY <1>1, Running
<1>4. /\ LineAt >= 0 /\ Piece(line, Wire(reqs), LineAt) /\ Piece(buf, Wire(reqs), At)
      /\ \A k \in 1..Len(line) : line[k].k # "nl"
  BY <1>1 DEF HttpInv, Buffered
<1>5. LineAt = At - Len(line)
  BY DEF LineAt
<1>6. reqs[cur].chunked
  BY DEF HttpInv, Placed
<1> DEFINE l == LineAt
           t == At
           n == Len(line)
           m == Len(buf)
<1>7. t \in Nat /\ n \in Nat /\ m \in Nat /\ l = t - n /\ l >= 0 /\ pos = t + m
  BY <1>2, <1>3, <1>4, <1>5
<1> HIDE DEF l, t, n, m
<1>8. l \in Nat /\ t = l + n /\ pos = l + n + m
  BY <1>7
<1> QED BY <1>1, <1>2, <1>3, <1>4, <1>6, <1>8 DEF l, t, n, m

\* Every line a chunked request makes the server read ends within the request.
LEMMA LineWithin ==
  ASSUME HttpInv, pc \in LineStates
  PROVE  \E q \in Nat : q > 0 /\ LineEnds(Wire(reqs), LineAt, q) /\ LineAt + q <= End(reqs, cur)
<1> DEFINE i == cur
           r == reqs[i]
           e == End(reqs, i - 1)
           w == Wire(reqs)
           a == LineAt
<1>1. reqs \in Seq(Shapes) /\ i \in 1..Len(reqs) /\ r.chunked
  BY LineState, Running
<1>2. i = cur /\ r = reqs[i] /\ e = End(reqs, i - 1) /\ w = Wire(reqs)
  OBVIOUS
<1>3. CASE pc = "size"
  <2>1. AtSize(i, r, e)
    BY <1>3 DEF HttpInv, Placed
  <2>2. PICK j \in 1..(Len(r.ends) + 1) : a = e + ChunkAt(r, j)
    BY <2>1 DEF AtSize
  <2> HIDE DEF i, r, e, w, a
  <2>3. a + 2 <= End(reqs, i) /\ LineEnds(w, a, 2)
    <3>1. SizeFormat(w, r, e, End(reqs, i), j)
      BY <1>1, <1>2, SizeLine
    <3> QED BY <2>2, <3>1 DEF SizeFormat
  <2> QED BY <2>3 DEF i, w, a
<1>4. CASE pc = "crlf"
  <2>1. AtCrlf(i, r, e)
    BY <1>4 DEF HttpInv, Placed
  <2>2. PICK j \in 1..Len(r.ends) : a = e + ChunkEnd(r, j)
    BY <2>1 DEF AtCrlf
  <2> HIDE DEF i, r, e, w, a
  <2>3. a + 1 <= End(reqs, i) /\ LineEnds(w, a, 1)
    BY <1>1, <1>2, <2>2, CrlfLine
  <2> QED BY <2>3 DEF i, w, a
<1>5. CASE pc = "last"
  <2>1. AtLast(i, r, e)
    BY <1>5 DEF HttpInv, Placed
  <2>2. a = e + ChunkAt(r, Len(r.ends) + 1) + 2
    BY <2>1 DEF AtLast
  <2> HIDE DEF i, r, e, w, a
  <2>3. \E q \in 1..2 : LineEnds(w, a, q) /\ a + q = Done(reqs, i)
    <3>1. LastEnds(w, r, e, Done(reqs, i))
      BY <1>1, <1>2, LastLine
    <3> QED BY <2>2, <3>1 DEF LastEnds
  <2>4. PICK q \in 1..2 : LineEnds(w, a, q) /\ a + q = Done(reqs, i)
    BY <2>3
  <2>5. Done(reqs, i) <= End(reqs, i)
    <3>1. i \in 0..Len(reqs)
      BY <1>1
    <3> DEFINE d == Done(reqs, i)
               x == End(reqs, i)
    <3>2. d \in Nat /\ x \in Nat /\ (d = x \/ d + 1 = x)
      BY <1>1, <3>1, LeftLayout
    <3> HIDE DEF d, x
    <3>3. d <= x
      BY ONLY <3>2
    <3> QED BY <3>3 DEF d, x
  <2>6. q \in Nat /\ q > 0 /\ a + q <= End(reqs, i)
    BY <2>4, <2>5
  <2> QED BY <2>4, <2>6 DEF i, w, a
<1> QED BY <1>3, <1>4, <1>5 DEF LineStates

\* read_more in read_line: the line keeps what the buffer had.
LEMMA ReadLineStep ==
  ASSUME HttpInv, ReadLine
  PROVE  HttpInv'
<1> DEFINE w == Wire(reqs)
           a == LineAt
<1> USE DEF clientVars
<1>1. pc \in LineStates /\ NlAt = {} /\ read_more(<<>>) /\ UNCHANGED <<clientVars, handled>>
  BY DEF ReadLine, LineStates
<1>2. /\ pc \in Active /\ pc \in Reading /\ pc \in Active \ {"respond"} /\ pc # "head"
      /\ a \in Nat /\ pos = a + Len(line) + Len(buf)
      /\ Piece(line, w, a) /\ Piece(buf, w, a + Len(line))
      /\ (\A k \in 1..Len(line) : line[k].k # "nl")
      /\ line \in Seq(Token) /\ buf \in Seq(Token) /\ Len(line) \in Nat /\ Len(buf) \in Nat
      /\ pos \in Nat
  BY <1>1, LineState
<1>3. cap \in Nat /\ cap > 0
  BY DEF HttpInv, Types
<1>4. ~TooLarge(<<>>) /\ Len(<<>>) = 0 /\ Len(<<>>) # cap
  BY <1>3, NoTokens DEF TooLarge
<1>5. \/ \E n \in 1..(cap - 0) :
           /\ Reads(cap - 0, n)
           /\ buf' = <<>> \o SubSeq(stream, pos + 1, pos + n)
           /\ cap' = cap /\ line' = line \o buf
           /\ UNCHANGED <<pc, need, body, cur, answers>>
      \/ AtEof /\ Closed
      \/ peer = "reset" /\ Fail
  BY <1>1, <1>2, <1>4 DEF read_more
<1>6. CASE AtEof /\ Closed
  <2>1. PICK q \in Nat : q > 0 /\ LineEnds(w, a, q) /\ a + q <= End(reqs, cur)
    BY <1>1, LineWithin
  <2>2. NlAt = {j \in DOMAIN buf : buf[j].k = "nl"}
    BY DEF NlAt
  <2>3. Len(line) + Len(buf) < q
    <3>1. SplitAt(line, buf, w, a, q)
      <4> HIDE DEF w, a
      <4> QED BY <1>2, <2>1, LineFound
    <3> QED BY <1>1, <2>2, <3>1 DEF SplitAt
  <2>4. cur = Len(answers) + 1 /\ reqs \in Seq(Shapes) /\ cur \in 1..Len(reqs)
    BY <1>2, Running
  <2>5. End(reqs, cur) \in Nat
    BY <2>4, HeadLayout
  <2>6. pos < End(reqs, cur)
    <3> DEFINE x == End(reqs, cur)
               n == Len(line)
               m == Len(buf)
    <3>1. /\ a \in Nat /\ n \in Nat /\ m \in Nat /\ pos = a + n + m /\ n + m < q /\ q \in Nat
          /\ a + q <= x /\ x \in Nat
      BY <1>2, <2>1, <2>3, <2>5
    <3> HIDE DEF x, n, m, a
    <3>2. pos < x
      BY ONLY <3>1
    <3> QED BY <3>2 DEF x
  <2> QED BY <1>1, <1>2, <1>6, <2>4, <2>6, Closing
<1>7. CASE peer = "reset" /\ Fail
  BY <1>1, <1>2, <1>7, Failing
<1>8. ASSUME NEW n \in 1..(cap - 0), Reads(cap - 0, n),
             buf' = <<>> \o SubSeq(stream, pos + 1, pos + n), cap' = cap, line' = line \o buf,
             UNCHANGED <<pc, need, body, cur, answers>>
      PROVE  HttpInv'
  <2> DEFINE c == SubSeq(stream, pos + 1, pos + n)
  <2>1. cap - 0 \in Nat
    BY <1>3
  <2>2. /\ n \in Nat /\ pos' = pos + n /\ pos' \in 0..Len(stream) /\ pos' <= Arrived
        /\ c \in Seq(Token) /\ Len(c) = n /\ Piece(c, w, pos)
    BY <1>2, <1>8, <2>1, ReadFacts
  <2>3. buf' = c
    <3> HIDE DEF c
    <3>1. <<>> \o c = c
      BY <2>2, ConcatEmptySeq
    <3> QED BY <1>8, <3>1 DEF c
  <2>4. /\ line' \in Seq(Token) /\ Len(line') = Len(line) + Len(buf) /\ Piece(line', w, a)
        /\ (\A k \in 1..Len(line) : line'[k] = line[k])
        /\ (\A k \in 1..Len(buf) : line'[Len(line) + k] = buf[k])
    <3> HIDE DEF w, a
    <3>1. line \in Seq(Token) /\ buf \in Seq(Token) /\ a \in Nat /\ Piece(line, w, a)
          /\ Piece(buf, w, a + Len(line))
      BY <1>2
    <3>2. /\ line \o buf \in Seq(Token) /\ Len(line \o buf) = Len(line) + Len(buf)
          /\ (\A k \in 1..Len(line) : (line \o buf)[k] = line[k])
          /\ (\A k \in 1..Len(buf) : (line \o buf)[Len(line) + k] = buf[k])
      BY ONLY <3>1, Concat
    <3>3. Piece(line \o buf, w, a)
      BY ONLY <3>1, PieceConcat
    <3> QED BY <1>8, <3>2, <3>3
  <2> DEFINE l == Len(line)
             b == Len(buf)
             l2 == Len(line')
             b2 == Len(buf')
  <2>5. l \in Nat /\ b \in Nat /\ l2 = l + b /\ b2 = n /\ pos = a + l + b /\ a \in Nat /\ pos' = pos + n
    BY <1>2, <2>2, <2>3, <2>4
  <2>6. \A k \in 1..l2 : line'[k].k # "nl"
    <3>1. \A k \in 1..b : buf[k].k # "nl"
      BY <1>1, <1>2 DEF NlAt
    <3>2. /\ \A k \in 1..l : line'[k].k # "nl"
          /\ \A k \in 1..b : line'[l + k].k # "nl"
      BY <1>2, <2>4, <3>1
    <3> HIDE DEF l, b, l2
    <3>3. ASSUME NEW k \in 1..l2 PROVE line'[k].k # "nl"
      <4>1. CASE k <= l
        <5>1. k \in 1..l
          BY <2>5, <4>1
        <5> QED BY <3>2, <5>1
      <4>2. CASE k > l
        <5>1. k - l \in 1..b /\ l + (k - l) = k
          BY <2>5, <4>2
        <5> QED BY <3>2, <5>1
      <4> QED BY <2>5, <4>1, <4>2
    <3> QED BY <3>3
  <2>7. At' = pos /\ LineAt' = a
    <3>1. At' = pos' - b2 /\ LineAt' = At' - l2
      BY DEF At, LineAt
    <3> HIDE DEF l, b, l2, b2, a
    <3>2. (pos + n) - n = pos
      BY <1>2, <2>2
    <3>3. pos - (l + b) = a
      BY ONLY <2>5
    <3> QED BY <2>5, <3>1, <3>2, <3>3
  <2> HIDE DEF l2
  <2>8. Types'
    BY <1>1, <1>3, <1>8, <2>2, <2>3, <2>4 DEF HttpInv, Types
  <2>9. Turns'
    BY <1>1, <1>8 DEF HttpInv, Turns
  <2>10. Buffered'
    <3>1. At' >= 0 /\ Piece(buf', Wire(reqs'), At')
      BY <1>1, <1>2, <1>8, <2>2, <2>3, <2>7
    <3>2. LineAt' >= 0 /\ Piece(line', Wire(reqs'), LineAt')
      BY <1>1, <1>2, <1>8, <2>4, <2>6, <2>7
    <3>3. \A k \in 1..Len(line') : line'[k].k # "nl"
      BY <2>4, <2>6 DEF l2
    <3> QED BY <3>1, <3>2, <3>3 DEF Buffered
  <2>11. Placed'
    <3>1. \A i, r, e : /\ AtSize(i, r, e)' <=> AtSize(i, r, e)
                       /\ AtCrlf(i, r, e)' <=> AtCrlf(i, r, e)
                       /\ AtLast(i, r, e)' <=> AtLast(i, r, e)
      BY <1>8, <2>7 DEF AtSize, AtCrlf, AtLast
    <3>2. reqs' = reqs /\ cur' = cur /\ pc' = pc
      BY <1>1, <1>8
    <3>3. pc \notin {"head", "chunk", "body", "respond"}
      BY <1>1 DEF LineStates
    <3>4. Placed
      BY DEF HttpInv
    <3> QED BY <3>1, <3>2, <3>3, <3>4 DEF Placed
  <2> QED BY <1>1, <1>2, <1>8, <2>2, <2>8, <2>9, <2>10, <2>11, Continuing
<1> QED BY <1>5, <1>6, <1>7, <1>8

\* The line the buffer completes, and what the buffer holds behind it.
LineText == line \o SubSeq(buf, 1, Min(NlAt) - 1)
LineRest == Drop(buf, Min(NlAt))
LineSize == IF LineText # <<>> /\ LineText[1].k = "size" THEN LineText[1].n ELSE -1

\* What Line does, in these terms.
LEMMA LineCases ==
  ASSUME Line
  PROVE  /\ pc \in LineStates /\ NlAt # {} /\ UNCHANGED <<clientVars, handled>>
         /\ \/ pc = "size" /\ LineSize = -1 /\ Fail
            \/ /\ pc = "size" /\ LineSize # -1 /\ line' = <<>>
               /\ buf' = Drop(LineRest, from_buf(Len(LineRest), LineSize))
               /\ body' = body \o SubSeq(LineRest, 1, from_buf(Len(LineRest), LineSize))
               /\ need' = LineSize - from_buf(Len(LineRest), LineSize)
               /\ pc' = (IF LineSize = 0 THEN "last" ELSE "chunk")
               /\ UNCHANGED <<pos, cap, cur, answers>>
            \/ /\ pc \in {"crlf", "last"} /\ line' = <<>> /\ buf' = LineRest
               /\ pc' = (IF pc = "crlf" THEN "size" ELSE "body")
               /\ UNCHANGED <<pos, cap, cur, answers, need, body>>
<1>1. pc \in LineStates /\ NlAt # {} /\ UNCHANGED <<clientVars, handled>>
  BY SMTT(30) DEF Line, LineStates
<1> DEFINE k == from_buf(Len(LineRest), LineSize)
<1>2. \/ pc = "size" /\ LineSize = -1 /\ Fail
      \/ /\ ~(pc = "size" /\ LineSize = -1)
         /\ line' = <<>>
         /\ buf' = IF pc = "size" THEN Drop(LineRest, k) ELSE LineRest
         /\ body' = IF pc = "size" THEN body \o SubSeq(LineRest, 1, k) ELSE body
         /\ need' = IF pc = "size" THEN LineSize - k ELSE need
         /\ pc' = CASE pc = "size" /\ LineSize = 0 -> "last"
                    [] pc = "size" /\ LineSize # 0 -> "chunk"
                    [] pc = "crlf" -> "size"
                    [] OTHER -> "body"
         /\ UNCHANGED <<pos, cap, cur, answers>>
  BY DEF Line, LineText, LineRest, LineSize
<1> HIDE DEF k
<1>3. CASE pc = "size"
  BY <1>1, <1>2, <1>3 DEF k
<1>4. CASE pc = "crlf"
  BY <1>1, <1>2, <1>4 DEF k
<1>5. CASE pc = "last"
  BY <1>1, <1>2, <1>5 DEF k
<1> QED BY <1>1, <1>3, <1>4, <1>5 DEF LineStates

\* A line that ends at token q: its tokens, and where the buffer goes on.
LEMMA LineTaken ==
  ASSUME HttpInv, pc \in LineStates, NlAt # {}, NEW q \in Nat, q > 0,
         LineEnds(Wire(reqs), LineAt, q)
  PROVE  /\ LineText \in Seq(Token) /\ Len(LineText) = q - 1 /\ Piece(LineText, Wire(reqs), LineAt)
         /\ LineRest \in Seq(Token) /\ Piece(LineRest, Wire(reqs), LineAt + q)
         /\ LineAt + q \in Nat /\ pos - Len(LineRest) = LineAt + q
<1> DEFINE w == Wire(reqs)
           a == LineAt
<1>1. /\ a \in Nat /\ pos = a + Len(line) + Len(buf) /\ pos \in Nat
      /\ Piece(line, w, a) /\ Piece(buf, w, a + Len(line))
      /\ (\A k \in 1..Len(line) : line[k].k # "nl")
      /\ line \in Seq(Token) /\ buf \in Seq(Token) /\ Len(line) \in Nat /\ Len(buf) \in Nat
  BY LineState
<1>2. NlAt = {j \in DOMAIN buf : buf[j].k = "nl"} /\ LineEnds(w, a, q)
  BY DEF NlAt
<1>3. /\ LineText \in Seq(Token) /\ Len(LineText) = q - 1 /\ Piece(LineText, w, a)
      /\ LineRest \in Seq(Token) /\ Len(LineRest) = Len(line) + Len(buf) - q
      /\ Piece(LineRest, w, a + q)
  <2>1. SplitAt(line, buf, w, a, q)
    <3> HIDE DEF w, a
    <3> QED BY <1>1, <1>2, LineFound
  <2> QED BY <1>2, <2>1 DEF SplitAt, LineText, LineRest
<1> DEFINE n == Len(line)
           m == Len(buf)
           z == Len(LineRest)
<1>4. a \in Nat /\ n \in Nat /\ m \in Nat /\ z = n + m - q /\ pos = a + n + m
  BY <1>1, <1>3
<1>5. pos - z = a + q /\ a + q \in Nat
  <2> HIDE DEF a, n, m, z
  <2> QED BY <1>4
<1> QED BY <1>3, <1>5

\* A step that takes a line from the buffer.
LEMMA AfterLine ==
  ASSUME HttpInv, pc \in LineStates, pc' \in {"size", "chunk", "last", "body"}, line' = <<>>,
         UNCHANGED <<pos, cap, cur, answers>>, UNCHANGED <<clientVars, handled>>,
         buf' \in Seq(Token), body' \in Seq(Token), need' \in Nat,
         NEW t \in Nat, pos - Len(buf') = t, Piece(buf', Wire(reqs), t),
         At' = t /\ LineAt' = t => Placed'
  PROVE  HttpInv'
<1> USE DEF clientVars
<1>1. pc' \in Active /\ pc' \in Reading /\ pc' # "respond" /\ pc' # "head"
  BY ReadingState
<1>2. pc \in Active /\ pc \in Reading /\ pc # "respond" /\ pc # "head"
  BY ReadingState DEF LineStates
<1>3. At' = t
  BY DEF At
<1>4. LineAt' = t
  <2>1. LineAt' = At' - 0
    BY NoTokens DEF LineAt
  <2> QED BY <1>3, <2>1
<1>5. Types'
  BY <1>1, NoTokens DEF HttpInv, Types
<1>6. Turns'
  BY <1>1, <1>2 DEF HttpInv, Turns
<1>7. Buffered'
  <2>1. At' >= 0 /\ LineAt' >= 0
    BY <1>3, <1>4
  <2>2. Piece(line', Wire(reqs'), LineAt') /\ \A k \in 1..Len(line') : line'[k].k # "nl"
    BY NoTokens
  <2>3. Piece(buf', Wire(reqs'), At')
    BY <1>3
  <2> QED BY <2>1, <2>2, <2>3 DEF Buffered
<1> QED BY <1>1, <1>2, <1>3, <1>4, <1>5, <1>6, <1>7, Continuing

\* A size line: the size of the next chunk, 0 for the last one.
LEMMA SizeStep ==
  ASSUME HttpInv, Line, pc = "size"
  PROVE  HttpInv'
<1> DEFINE i == cur
           r == reqs[i]
           e == End(reqs, i - 1)
           w == Wire(reqs)
           a == LineAt
           k == from_buf(Len(LineRest), LineSize)
<1>1. pc \in LineStates /\ NlAt # {} /\ UNCHANGED <<clientVars, handled>>
  BY LineCases
<1>2. /\ pc \in Active \ {"respond"} /\ r.chunked /\ body \in Seq(Token) /\ pos \in Nat
  BY <1>1, LineState
<1>3. reqs \in Seq(Shapes) /\ i \in 1..Len(reqs) /\ i = Len(answers) + 1
  BY <1>1, LineState, Running
<1>4. PICK j \in 1..(Len(r.ends) + 1) :
        need = 0 /\ a = e + ChunkAt(r, j) /\ IsBody(body, i, Before(r, j))
  <2>1. AtSize(i, r, e)
    BY DEF HttpInv, Placed
  <2> QED BY <2>1 DEF AtSize
<1> DEFINE z == SizeOf(r, j)
           b == Before(r, j)
<1>5. i = cur /\ r = reqs[i] /\ e = End(reqs, i - 1) /\ w = Wire(reqs)
  OBVIOUS
<1>6. /\ a \in Nat /\ LineEnds(w, a, 2) /\ w[a + 1].k = "size" /\ w[a + 1].n = z
  <2> HIDE DEF i, r, e, w, a
  <2>1. SizeFormat(w, r, e, End(reqs, i), j)
    BY <1>2, <1>3, <1>5, SizeLine
  <2> QED BY <1>4, <2>1 DEF SizeFormat
<1>7. r \in Shapes
  BY <1>3, ElementOfSeq
<1>8. Len(r.ends) \in Nat /\ b \in Nat
  BY <1>4, <1>7, ShapeFacts
<1>9. /\ LineText \in Seq(Token) /\ Len(LineText) = 2 - 1 /\ Piece(LineText, w, a)
      /\ LineRest \in Seq(Token) /\ Piece(LineRest, w, a + 2)
      /\ a + 2 \in Nat /\ pos - Len(LineRest) = a + 2
  <2>1. LineEnds(Wire(reqs), LineAt, 2) /\ 2 \in Nat /\ 2 > 0
    BY <1>6
  <2>2. /\ LineText \in Seq(Token) /\ Len(LineText) = 2 - 1 /\ Piece(LineText, Wire(reqs), LineAt)
        /\ LineRest \in Seq(Token) /\ Piece(LineRest, Wire(reqs), LineAt + 2)
        /\ LineAt + 2 \in Nat /\ pos - Len(LineRest) = LineAt + 2
    BY ONLY HttpInv, <1>1, <2>1, LineTaken
  <2> QED BY <2>2
<1>10. LineSize = z
  <2> HIDE DEF w, a, z
  <2>1. LineText # <<>>
    <3>1. Len(LineText) = 1
      BY <1>9
    <3>2. Len(<<>>) = 0
      OBVIOUS
    <3> QED BY ONLY <3>1, <3>2
  <2>2. LineText[1] = w[a + 1]
    <3>1. 1 \in 1..Len(LineText)
      BY <1>9
    <3> QED BY <1>9, <3>1 DEF Piece
  <2> QED BY <1>6, <2>1, <2>2 DEF LineSize
<1>11. CASE j = Len(r.ends) + 1 /\ r.flaw = "size"
  <2>1. LineSize = -1
    BY <1>8, <1>10, <1>11 DEF SizeOf
  <2>2. Fail
    BY <2>1, LineCases
  <2>3. ~Served(i) /\ i \in 1..i
    BY <1>3, <1>11 DEF Served
  <2>4. ~Due(Len(answers) + 1)
    BY <1>3, <2>3 DEF Due
  <2> QED BY <1>1, <1>2, <2>2, <2>4, Failing
<1>12. CASE j = Len(r.ends) + 1 /\ r.flaw # "size"
  <2>1. LineSize = 0
    BY <1>8, <1>10, <1>12 DEF SizeOf
  <2>2. /\ line' = <<>> /\ buf' = Drop(LineRest, k) /\ body' = body \o SubSeq(LineRest, 1, k)
        /\ need' = 0 - k /\ pc' = "last" /\ UNCHANGED <<pos, cap, cur, answers>>
        /\ k = from_buf(Len(LineRest), 0)
    <3>1. /\ line' = <<>> /\ buf' = Drop(LineRest, k) /\ body' = body \o SubSeq(LineRest, 1, k)
          /\ need' = LineSize - k /\ pc' = "last" /\ UNCHANGED <<pos, cap, cur, answers>>
      <4>1. LineSize # -1
        BY <2>1
      <4> HIDE DEF z, b
      <4> QED BY ONLY Line, pc = "size", <2>1, <4>1, LineCases
    <3> QED BY ONLY <2>1, <3>1
  <2>3. DataAt(w, a + 2, 0, i, b)
    BY DEF DataAt
  <2> HIDE DEF k, w, a, b
  <2>4. /\ k \in 0..0 /\ Drop(LineRest, k) \in Seq(Token)
        /\ Len(Drop(LineRest, k)) = Len(LineRest) - k /\ Piece(Drop(LineRest, k), w, a + 2 + k)
    BY <1>8, <1>9, <2>2, <2>3, Taken
  <2>5. /\ body \o SubSeq(LineRest, 1, k) \in Seq(Token)
        /\ IsBody(body \o SubSeq(LineRest, 1, k), i, b + k)
    BY <1>2, <1>4, <1>8, <1>9, <2>2, <2>3, FromBuf DEF b
  <2>6. k = 0 /\ need' = 0 /\ b + k = b /\ a + 2 + k = a + 2
    BY <1>6, <1>8, <2>2, <2>4
  <2>7. /\ buf' \in Seq(Token) /\ Piece(buf', w, a + 2) /\ pos - Len(buf') = a + 2
        /\ body' \in Seq(Token) /\ IsBody(body', i, b)
    <3>1. Len(LineRest) \in Nat
      BY <1>9
    <3>2. Len(LineRest) - 0 = Len(LineRest)
      BY <3>1
    <3> QED BY <1>9, <2>2, <2>4, <2>5, <2>6, <3>2
  <2>8. Size(r) = b
    BY <1>2, <1>12 DEF Size, b
  <2>9. ASSUME At' = a + 2, LineAt' = a + 2 PROVE Placed'
    <3>1. i = cur' /\ r = reqs'[i] /\ e = End(reqs', i - 1)
      BY <1>1, <1>5, <2>2 DEF clientVars
    <3>2. LineAt' = e + ChunkAt(r, Len(r.ends) + 1) + 2 /\ IsBody(body', i, Size(r)) /\ pc' = "last"
      BY <1>4, <1>12, <2>2, <2>7, <2>8, <2>9
    <3> HIDE DEF i, r, e
    <3> QED BY ONLY <1>2, <2>6, <3>1, <3>2, PlacedAtLast
  <2> QED BY <1>1, <1>9, <2>2, <2>6, <2>7, <2>9, AfterLine DEF w
<1>13. CASE j # Len(r.ends) + 1
  <2> DEFINE x == End(reqs, i)
             t == r.ends[j]
  <2>1. j \in 1..Len(r.ends) /\ j <= Len(r.ends)
    BY <1>8, <1>13
  <2>2. z = t - b
    BY <2>1 DEF SizeOf
  <2>3. ChunkFormat(w, i, r, e, x, j)
    <3> HIDE DEF i, r, e, w
    <3> QED BY <1>2, <1>3, <1>5, <2>1, ChunkLayout
  <2> DEFINE y == t - b
  <2>4. /\ y \in Nat /\ y > 0 /\ e + ChunkEnd(r, j) = a + y + 2
        /\ \A m \in 1..y : w[a + 2 + m] = Tok("data", i, b + m)
    BY <1>4, <2>3 DEF ChunkFormat
  <2>5. t \in Nat
    BY <1>7, <2>1, ShapeFacts
  <2>6. LineSize = y
    BY <1>10, <2>2
  <2>7. LineSize # -1 /\ LineSize # 0
    <3> HIDE DEF y
    <3> QED BY <2>4, <2>6
  <2>8. /\ line' = <<>> /\ buf' = Drop(LineRest, k) /\ body' = body \o SubSeq(LineRest, 1, k)
        /\ need' = y - k /\ pc' = "chunk" /\ UNCHANGED <<pos, cap, cur, answers>>
        /\ k = from_buf(Len(LineRest), y)
    BY <2>6, <2>7, LineCases
  <2>9. DataAt(w, a + 2, y, i, b) /\ y = t - b
    BY <2>4 DEF DataAt
  <2> HIDE DEF k, w, a, b, t, y, x, z
  <2>10. /\ k \in 0..Len(LineRest) /\ k \in 0..y /\ Drop(LineRest, k) \in Seq(Token)
         /\ Len(Drop(LineRest, k)) = Len(LineRest) - k /\ Piece(Drop(LineRest, k), w, a + 2 + k)
         /\ (k < y => Drop(LineRest, k) = <<>>)
    BY <1>8, <1>9, <2>4, <2>8, <2>9, Taken
  <2>11. /\ body \o SubSeq(LineRest, 1, k) \in Seq(Token)
         /\ IsBody(body \o SubSeq(LineRest, 1, k), i, b + k)
    BY <1>2, <1>4, <1>8, <1>9, <2>4, <2>8, <2>9, FromBuf DEF b
  <2>12. k \in Nat /\ need' \in Nat /\ need' <= y /\ (need' > 0 => k < y)
    BY <2>4, <2>8, <2>10
  <2>13. b + k = t - need' /\ (a + 2 + k) + need' = a + y + 2 /\ a + 2 + k \in Nat
    <3> DEFINE v == need'
    <3>1. /\ v = y - k /\ y \in Nat /\ k \in Nat /\ b \in Nat /\ t \in Nat
          /\ a \in Nat /\ y = t - b
      BY <1>6, <1>8, <2>4, <2>5, <2>8, <2>9, <2>12
    <3> HIDE DEF v
    <3>2. b + k = t - v /\ (a + 2 + k) + v = a + y + 2 /\ a + 2 + k \in Nat
      BY ONLY <3>1
    <3> QED BY <3>2 DEF v
  <2>14. pos - Len(buf') = a + 2 + k
    <3> DEFINE l == Len(LineRest)
               l2 == Len(buf')
    <3>1. l \in Nat /\ l2 = l - k /\ pos - l = a + 2 /\ a + 2 \in Nat
      BY <1>9, <2>8, <2>10
    <3> HIDE DEF l, l2
    <3>2. pos - l2 = a + 2 + k
      BY <1>2, <1>6, <2>12, <3>1
    <3> QED BY <3>2 DEF l2
  <2>15. /\ buf' \in Seq(Token) /\ Piece(buf', w, a + 2 + k) /\ body' \in Seq(Token)
         /\ IsBody(body', i, t - need') /\ (need' > 0 => buf' = <<>>)
    BY <2>8, <2>10, <2>11, <2>12, <2>13
  <2>16. ASSUME At' = a + 2 + k, LineAt' = a + 2 + k PROVE Placed'
    <3>1. i = cur' /\ r = reqs'[i] /\ e = End(reqs', i - 1)
      BY <1>1, <1>5, <2>8 DEF clientVars
    <3>2. At' + need' = e + ChunkEnd(r, j) /\ need' <= r.ends[j] - Before(r, j)
          /\ IsBody(body', i, r.ends[j] - need')
      BY <2>4, <2>9, <2>12, <2>13, <2>15, <2>16 DEF t, b
    <3>3. r.chunked /\ pc' = "chunk" /\ line' = <<>> /\ (need' > 0 => buf' = <<>>) /\ j \in 1..Len(r.ends)
      BY <1>2, <2>1, <2>8, <2>15
    <3> HIDE DEF i, r, e
    <3> QED BY ONLY <3>1, <3>2, <3>3, PlacedAtChunk
  <2> QED BY <1>1, <2>8, <2>12, <2>13, <2>14, <2>15, <2>16, AfterLine DEF w
<1> QED BY <1>11, <1>12, <1>13

\* The line end behind a chunk, and the line behind the last chunk.
LEMMA LineStep ==
  ASSUME HttpInv, Line
  PROVE  HttpInv'
<1> DEFINE i == cur
           r == reqs[i]
           e == End(reqs, i - 1)
           w == Wire(reqs)
           a == LineAt
<1>1. pc \in LineStates /\ NlAt # {} /\ UNCHANGED <<clientVars, handled>>
  BY LineCases
<1>2. r.chunked /\ body \in Seq(Token)
  BY <1>1, LineState
<1>3. reqs \in Seq(Shapes) /\ i \in 1..Len(reqs) /\ r \in Shapes
  BY <1>1, LineState, Running, ElementOfSeq
<1>4. i = cur /\ r = reqs[i] /\ e = End(reqs, i - 1) /\ w = Wire(reqs)
  OBVIOUS
<1>5. CASE pc = "size"
  BY <1>5, SizeStep
<1>6. CASE pc = "crlf"
  <2>1. PICK j \in 1..Len(r.ends) :
          need = 0 /\ a = e + ChunkEnd(r, j) /\ IsBody(body, i, r.ends[j])
    <3>1. AtCrlf(i, r, e)
      BY <1>6 DEF HttpInv, Placed
    <3> QED BY <3>1 DEF AtCrlf
  <2>2. LineEnds(w, a, 1) /\ e + ChunkAt(r, j + 1) = a + 1
    <3> HIDE DEF i, r, e, w, a
    <3> QED BY <1>2, <1>3, <1>4, <2>1, CrlfLine
  <2>3. /\ LineRest \in Seq(Token) /\ Piece(LineRest, w, a + 1)
        /\ a + 1 \in Nat /\ pos - Len(LineRest) = a + 1
    BY <1>1, <2>2, LineTaken
  <2>4. /\ line' = <<>> /\ buf' = LineRest /\ pc' = "size"
        /\ UNCHANGED <<pos, cap, cur, answers, need, body>>
    BY <1>6, LineCases
  <2>5. Before(r, j + 1) = r.ends[j] /\ j + 1 \in 1..(Len(r.ends) + 1)
    <3>1. Len(r.ends) \in Nat /\ Before(r, j + 1) = r.ends[j]
      BY <1>3, ShapeFacts
    <3> QED BY <3>1
  <2>6. ASSUME LineAt' = a + 1 PROVE Placed'
    <3>1. i = cur' /\ r = reqs'[i] /\ e = End(reqs', i - 1) /\ pc' = "size" /\ need' = 0
      BY <1>1, <1>4, <2>1, <2>4 DEF clientVars
    <3>2. LineAt' = e + ChunkAt(r, j + 1) /\ IsBody(body', i, Before(r, j + 1))
      BY <2>1, <2>2, <2>4, <2>5, <2>6
    <3> HIDE DEF i, r, e
    <3> QED BY ONLY <1>2, <2>5, <3>1, <3>2, PlacedAtSize
  <2>7. body' \in Seq(Token) /\ need' \in Nat
    BY <1>2, <2>1, <2>4
  <2> HIDE DEF a
  <2> QED BY <1>1, <2>3, <2>4, <2>6, <2>7, AfterLine DEF w
<1>7. CASE pc = "last"
  <2>1. need = 0 /\ a = e + ChunkAt(r, Len(r.ends) + 1) + 2 /\ IsBody(body, i, Size(r))
    <3>1. AtLast(i, r, e)
      BY <1>7 DEF HttpInv, Placed
    <3> QED BY <3>1 DEF AtLast
  <2>2. PICK q \in 1..2 : LineEnds(w, a, q) /\ a + q = Done(reqs, i)
    <3> HIDE DEF i, r, e, w, a
    <3>1. LastEnds(w, r, e, Done(reqs, i))
      BY <1>2, <1>3, <1>4, LastLine
    <3> QED BY <2>1, <3>1 DEF LastEnds
  <2>3. /\ LineRest \in Seq(Token) /\ Piece(LineRest, w, a + q)
        /\ a + q \in Nat /\ pos - Len(LineRest) = a + q
    <3>1. q \in Nat /\ q > 0
      OBVIOUS
    <3> QED BY <1>1, <2>2, <3>1, LineTaken
  <2>4. /\ line' = <<>> /\ buf' = LineRest /\ pc' = "body"
        /\ UNCHANGED <<pos, cap, cur, answers, need, body>>
    BY <1>7, LineCases
  <2>5. Size(r) \in Nat /\ Size(r) - 0 = Size(r) /\ 0 <= Size(r) /\ (a + q) + 0 = a + q
    <3>1. Size(r) \in Nat
      BY <1>3, ShapeFacts
    <3> QED BY <2>3, <3>1
  <2>6. ASSUME At' = a + q PROVE Placed'
    <3>1. i = cur' /\ r = reqs'[i] /\ reqs' = reqs /\ pc' = "body" /\ need' = 0 /\ body' = body
      BY <1>1, <1>4, <2>1, <2>4 DEF clientVars
    <3>2. /\ At' + need' = Done(reqs', i) /\ need' <= Size(r)
          /\ IsBody(body', i, Size(r) - need') /\ ~(need' > 0)
      BY <2>1, <2>2, <2>5, <2>6, <3>1
    <3> HIDE DEF i, r, e
    <3> QED BY ONLY <3>1, <3>2, PlacedAtBody
  <2>7. body' \in Seq(Token) /\ need' \in Nat
    BY <1>2, <2>1, <2>4
  <2> HIDE DEF a
  <2> QED BY <1>1, <2>3, <2>4, <2>6, <2>7, AfterLine DEF w
<1> QED BY <1>1, <1>5, <1>6, <1>7 DEF LineStates

-----------------------------------------------------------------------------
(* The theorems *)

\* KimojioHttpParser::reset throws the buffered bytes away: kimojio_server.rs is
\* for clients that do not pipeline.
NoPipelining == \A m \in Modes : m[1] = "kimojio" => ~m[2]

\* A new connection: nothing is read, and the first head comes first.
LEMMA InitHolds ==
  ASSUME NoPipelining, Init
  PROVE  HttpInv
<1> DEFINE w == Wire(reqs)
<1>1. reqs \in Seq(Shapes) /\ reqs # <<>>
  <2>1. PICK m \in 0..MaxRequests : reqs \in [1..m -> Shapes]
    BY DEF Init, SeqOf
  <2>2. m \in Nat
    BY BufAssumption
  <2> QED BY <2>1, <2>2 DEF Init
<1>2. /\ mode \in {"simple", "kimojio"} \X BOOLEAN /\ (mode[1] = "kimojio" => ~mode[2])
  BY BufAssumption DEF Init, NoPipelining
<1>3. /\ stream = w /\ pos = 0 /\ peer = "open" /\ pc = "head" /\ buf = <<>> /\ cap = InitialBufSize
      /\ line = <<>> /\ need = 0 /\ body = <<>> /\ cur = 0 /\ handled = <<>> /\ answers = <<>>
  BY DEF Init
<1>4. pc \in Active /\ pc \notin Reading /\ pc \notin LineStates /\ pc \notin LineStates \cup {"chunk"}
  BY <1>3, HeadState
<1>5. w \in Seq(Token) /\ End(reqs, 0) = 0 /\ \A i \in 0..Len(reqs) : End(reqs, i) \in Nat
  BY <1>1, WireFacts
<1>6. Len(reqs) \in Nat /\ Len(w) \in Nat /\ Len(<<>>) = 0
  BY <1>1, <1>5
<1> HIDE DEF w
<1>7. Types
  <2>1. 0 \in 0..Len(stream) /\ InitialBufSize \in Nat \ {0}
    BY <1>3, <1>6, BufAssumption
  <2>2. <<>> \in Seq(Token) /\ <<>> \in Seq(Nat) /\ <<>> \in Seq([req : Nat, body : Seq(Token)])
    OBVIOUS
  <2> QED BY <1>1, <1>2, <1>3, <1>4, <1>5, <2>1, <2>2 DEF Types
<1>8. Sending
  <2>1. Piece(w, w, 0)
    <3>1. \A k \in 1..Len(w) : 0 + k = k
      BY <1>6
    <3> QED BY <3>1 DEF Piece
  <2>2. ASSUME Len(answers) < Len(reqs) PROVE pos <= End(reqs, Len(answers) + 1)
    <3>1. Len(answers) + 1 \in 0..Len(reqs)
      BY <1>3, <1>6, <2>2
    <3>2. End(reqs, Len(answers) + 1) \in Nat
      BY <1>5, <3>1
    <3> QED BY <1>3, <3>2
  <2>3. stream = Wire(reqs) /\ Len(stream) <= Len(Wire(reqs)) /\ Piece(stream, Wire(reqs), 0)
    BY <1>3, <1>6, <2>1 DEF w
  <2> QED BY <2>2, <2>3 DEF Sending
<1>9. Turns
  <2>1. Len(answers) = 0 /\ Len(handled) = 0 /\ Len(answers) <= Len(reqs)
    BY <1>3, <1>6
  <2>2. \A k \in 1..Len(answers) : answers[k] = k
    BY <2>1
  <2> QED BY <1>4, <2>1, <2>2 DEF Turns
<1>10. At = 0
  <2>1. pos = 0 /\ Len(buf) = 0
    BY <1>3, <1>6
  <2> QED BY ONLY <2>1 DEF At
<1>11. Buffered
  BY <1>3, <1>4, <1>10, NoTokens DEF Buffered
<1>12. Placed
  <2>1. Len(answers) = 0 /\ Done(reqs, 0) = 0
    BY <1>3, <1>6 DEF Done
  <2>2. AtHead
    BY <1>5, <1>10, <2>1 DEF AtHead
  <2> QED BY <1>3, <1>4, <2>2 DEF Placed
<1>13. RequestsExact /\ BadRequestJustified /\ NothingLost /\ (pc = "closed" => peer # "open")
  <2>1. DOMAIN handled = {} /\ Range(answers) = {}
    BY <1>3 DEF Range
  <2> QED BY <1>3, <2>1 DEF RequestsExact, BadRequestJustified, NothingLost
<1> QED BY <1>7, <1>8, <1>9, <1>11, <1>12, <1>13 DEF HttpInv

\* Every step of the server and of its client, and every stuttering step, keeps
\* the invariant.
LEMMA NextStep ==
  ASSUME HttpInv, [Next]_vars
  PROVE  HttpInv'
<1>1. CASE ReadHead
  BY <1>1, ReadHeadStep
<1>2. CASE BadHead
  BY <1>2, BadHeadStep
<1>3. CASE Parsed
  BY <1>3, ParsedStep
<1>4. CASE read_fixed_body
  BY <1>4, BodyReadStep
<1>5. CASE Handle
  BY <1>5, HandleStep
<1>6. CASE ReadLine
  BY <1>6, ReadLineStep
<1>7. CASE Line
  BY <1>7, LineStep
<1>8. CASE read_exact
  BY <1>8, ReadExactStep
<1>9. CASE ChunkRead
  BY <1>9, ChunkReadStep
<1>10. CASE Respond
  BY <1>10, RespondStep
<1>11. CASE ClientClose
  BY <1>11, ClientCloseStep
<1>12. CASE ClientReset
  BY <1>12, ClientResetStep
<1>13. CASE UNCHANGED vars
  <2>1. UNCHANGED <<reqs, mode, pos, pc, parserVars, handled, answers>> /\ UNCHANGED <<stream, peer>>
    BY <1>13 DEF vars, parserVars
  <2>2. Turns' /\ Buffered' /\ Placed' /\ RequestsExact' /\ BadRequestJustified'
    BY <2>1, ServerFrame DEF HttpInv
  <2>3. Types'
    BY <1>13 DEF HttpInv, Types, vars
  <2>4. Sending'
    BY <1>13 DEF HttpInv, Sending, vars
  <2>5. NothingLost'
    <3>1. NothingLost
      BY DEF HttpInv
    <3> QED BY <1>13, <3>1 DEF NothingLost, Due, Served, HeadSpan, EndOf, vars
  <2> QED BY <2>1, <2>2, <2>3, <2>4, <2>5 DEF HttpInv
<1> QED
  BY <1>1, <1>2, <1>3, <1>4, <1>5, <1>6, <1>7, <1>8, <1>9, <1>10, <1>11, <1>12, <1>13 DEF Next, Server

\* HttpInv is an invariant.
LEMMA HttpInvariant ==
  ASSUME NoPipelining
  PROVE  Spec => []HttpInv
<1>1. Init => HttpInv
  BY InitHolds
<1>2. HttpInv /\ [Next]_vars => HttpInv'
  BY NextStep
<1> QED BY <1>1, <1>2, PTL DEF Spec

\* RequestsExact, for requests of every shape and any number of them, buffers of
\* every size and every fragmentation: parse_request, read_fixed_body,
\* read_chunked_body and the leftover bytes they keep hand the handler exactly
\* the requests that were sent, in order, each with its own body.
THEOREM HandlerGetsExactRequests ==
  ASSUME NoPipelining
  PROVE  Spec => []RequestsExact
<1>1. HttpInv => RequestsExact
  BY DEF HttpInv
<1> QED BY <1>1, HttpInvariant, PTL

\* NothingLost: when read_more or read_exact finds the end of the stream and the
\* task ends, every due request that was sent completely has been answered, also
\* those that were read into the buffer together with an earlier one.
THEOREM NoRequestIsLost ==
  ASSUME NoPipelining
  PROVE  Spec => []NothingLost
<1>1. HttpInv => NothingLost
  BY DEF HttpInv
<1> QED BY <1>1, HttpInvariant, PTL

\* BadRequestJustified: the 400 of the connection loop (a head httparse refuses,
\* HeadersTooLarge, a chunk size or a URI that does not parse) answers only a
\* request that deserves it; bytes of other requests, of a body or of a long
\* line never fill the buffer up to MAX_BUF_SIZE.
THEOREM BadRequestsAreBad ==
  ASSUME NoPipelining
  PROVE  Spec => []BadRequestJustified
<1>1. HttpInv => BadRequestJustified
  BY DEF HttpInv
<1> QED BY <1>1, HttpInvariant, PTL
=============================================================================
