-------------------------- MODULE MuxRequestsProof --------------------------
(***************************************************************************)
(* What a client program sees of the objects of MuxLifecycle, for every    *)
(* number of clients, devices, source ports and requests: the types of the *)
(* client's side, the order of the answers, the tunnel that starts clean,  *)
(* and that each client is a session as MuxSession has it.                 *)
(*                                                                         *)
(* Every step is one of a few Effects on any one client; which ones uses   *)
(* LInv of MuxLifecycleProof, that a client which listens has no           *)
(* connection to lose.  The invariant RInv is then a matter of one client  *)
(* and its effects, and of counting: the answers in ob_buf and the         *)
(* requests in the socket are numbered from got on, without a gap.         *)
(***************************************************************************)
EXTENDS MuxLifecycleProof

-----------------------------------------------------------------------------
(***************************************************************************)
(* Counting.                                                               *)
(***************************************************************************)

\* The elements of s at the indices I carry the tags after n, in their order.
Numbered(s, I, n) == \A i \in I : s[i].tag = n + Cardinality(I \cap 1..i)

\* The indices that I leaves when the first k elements are gone.
Shifted(I, k, N) == {j \in 1..N : j + k \in I}

\* The elements of t are those of s, of length N, but for the first k.
Suffix(t, s, k, N) == \A j \in 1..(N - k) : t[j] = s[j + k]

LEMMA Finite ==
  ASSUME NEW N \in Nat, NEW I \in SUBSET (1..N)
  PROVE  IsFiniteSet(I) /\ Cardinality(I) \in Nat
<1>1. IsFiniteSet(1..N)
  BY FS_Interval
<1>2. IsFiniteSet(I)
  BY <1>1, FS_Subset
<1> QED BY <1>2, FS_CardinalityType

LEMMA Split ==
  ASSUME NEW N \in Nat, NEW I \in SUBSET (1..N), NEW k \in Nat, NEW i \in Nat
  PROVE  Cardinality(I \cap 1..(k + i)) =
           Cardinality(I \cap 1..k) + Cardinality(Shifted(I, k, i))
<1> DEFINE A == I \cap 1..k
           B == I \cap (k + 1)..(k + i)
           J == Shifted(I, k, i)
           f == [j \in J |-> j + k]
<1>1. IsFiniteSet(A) /\ IsFiniteSet(B) /\ Cardinality(A) \in Nat /\ Cardinality(B) \in Nat
  BY Finite
<1>2. J \in SUBSET (1..i) /\ IsFiniteSet(J)
  BY Finite DEF Shifted
<1>3. f \in Bijection(J, B)
  <2>1. f \in [J -> B]
    BY DEF Shifted
  <2>2. \A x, y \in J : f[x] = f[y] => x = y
    BY <1>2
  <2>3. \A b \in B : b - k \in J /\ f[b - k] = b
    BY DEF Shifted
  <2> QED BY <2>1, <2>2, <2>3 DEF Bijection, Injection, IsInjective, Surjection
<1>4. Cardinality(J) = Cardinality(B)
  BY <1>2, <1>3, FS_Bijection DEF ExistsBijection
<1>5. A \cap B = {} /\ A \cup B = I \cap 1..(k + i)
  OBVIOUS
<1>6. Cardinality(A \cup B) = Cardinality(A) + Cardinality(B) - Cardinality(A \cap B)
  BY <1>1, FS_Union
<1>7. Cardinality({}) = 0
  BY FS_EmptySet
<1> HIDE DEF A, B, J
<1>8. Cardinality(I \cap 1..(k + i)) = Cardinality(A) + Cardinality(J)
  BY <1>1, <1>4, <1>5, <1>6, <1>7
<1> QED BY <1>8 DEF A, J

\* What is left of a numbered sequence s when its first k elements are gone.
LEMMA Drop ==
  ASSUME NEW s, NEW t, NEW N \in Nat, NEW k \in 0..N, NEW I \in SUBSET (1..N), NEW n \in Nat,
         Suffix(t, s, k, N), Numbered(s, I, n)
  PROVE  /\ Numbered(t, Shifted(I, k, N - k), n + Cardinality(I \cap 1..k))
         /\ Cardinality(I) = Cardinality(I \cap 1..k) + Cardinality(Shifted(I, k, N - k))
<1> DEFINE J == Shifted(I, k, N - k)
<1>1. J \in SUBSET (1..(N - k)) /\ N - k \in Nat /\ k \in Nat
  BY DEF Shifted
<1>2. I \cap 1..(k + (N - k)) = I
  <2>1. k + (N - k) = N
    OBVIOUS
  <2> QED BY <2>1
<1>3. Cardinality(I) = Cardinality(I \cap 1..k) + Cardinality(J)
  <2>1. Cardinality(I \cap 1..(k + (N - k))) = Cardinality(I \cap 1..k) + Cardinality(J)
    BY <1>1, Split
  <2> QED BY <1>2, <2>1
<1>4. ASSUME NEW j \in J
      PROVE  t[j].tag = (n + Cardinality(I \cap 1..k)) + Cardinality(J \cap 1..j)
  <2>1. j \in 1..(N - k) /\ j + k \in I /\ j \in Nat
    BY <1>1 DEF Shifted
  <2>2. t[j].tag = n + Cardinality(I \cap 1..(k + j))
    BY <2>1 DEF Numbered, Suffix
  <2>3. Shifted(I, k, j) = J \cap 1..j
    BY <2>1 DEF Shifted
  <2>4. Cardinality(I \cap 1..(k + j)) = Cardinality(I \cap 1..k) + Cardinality(J \cap 1..j)
    <3>1. Cardinality(I \cap 1..(k + j)) = Cardinality(I \cap 1..k) + Cardinality(Shifted(I, k, j))
      BY <1>1, <2>1, Split
    <3> QED BY <2>3, <3>1
  <2>5. Cardinality(I \cap 1..k) \in Nat /\ Cardinality(J \cap 1..j) \in Nat
    BY <1>1, Finite
  <2> HIDE DEF J
  <2> QED BY <2>2, <2>4, <2>5
<1> QED BY <1>3, <1>4 DEF Numbered

\* A numbered sequence stays so when an element is added that is not counted, or that
\* carries the next number.
LEMMA Add ==
  ASSUME NEW s, NEW t, NEW N \in Nat, NEW I \in SUBSET (1..N), NEW n \in Nat,
         \A j \in 1..N : t[j] = s[j], Numbered(s, I, n)
  PROVE  /\ Numbered(t, I, n)
         /\ Cardinality(I \cup {N + 1}) = Cardinality(I) + 1
         /\ t[N + 1].tag = n + Cardinality(I) + 1 => Numbered(t, I \cup {N + 1}, n)
<1>1. IsFiniteSet(I) /\ Cardinality(I) \in Nat /\ N + 1 \notin I
  <2>1. N + 1 \notin I
    OBVIOUS
  <2> QED BY <2>1, Finite
<1>2. Cardinality(I \cup {N + 1}) = Cardinality(I) + 1
  BY <1>1, FS_AddElement
<1>3. Numbered(t, I, n)
  BY DEF Numbered
<1>4. ASSUME t[N + 1].tag = n + Cardinality(I) + 1, NEW i \in I \cup {N + 1}
      PROVE  t[i].tag = n + Cardinality((I \cup {N + 1}) \cap 1..i)
  <2>1. CASE i \in I
    <3>1. (I \cup {N + 1}) \cap 1..i = I \cap 1..i
      BY <2>1
    <3> QED BY <1>3, <2>1, <3>1 DEF Numbered
  <2>2. CASE i = N + 1
    <3>1. \A x \in I \cup {N + 1} : x \in 1..(N + 1)
      OBVIOUS
    <3>2. (I \cup {N + 1}) \cap 1..i = I \cup {N + 1}
      BY <2>2, <3>1
    <3> QED BY <1>1, <1>2, <1>4, <2>2, <3>2
  <2> QED BY <2>1, <2>2
<1> QED BY <1>2, <1>3, <1>4 DEF Numbered

\* The greatest of some numbers with a bound.
LEMMA Greatest ==
  ASSUME NEW N \in Nat, NEW I \in SUBSET (1..N), I # {}
  PROVE  Max(I) \in I /\ \A x \in I : x <= Max(I)
<1> DEFINE T == {N - x : x \in I}
<1>1. T \subseteq Nat /\ T # {}
  <2>1. \A x \in I : x \in 1..N /\ N - x \in Nat
    OBVIOUS
  <2> QED BY <2>1
<1>2. PICK y \in T : \A z \in T : y <= z
  BY <1>1, Smallest
<1>3. \E x \in I : \A z \in I : x >= z
  BY <1>2
<1> QED BY <1>3 DEF Max

LEMMA Said ==
  ASSUME NEW s \in Seq(Message), NEW m \in Message, NEW n \in Nat,
         Numbered(s, AnswersIn(s), n),
         m.msg \in Ops => m.tag = n + Cardinality(AnswersIn(s)) + 1
  PROVE  /\ Numbered(Append(s, m), AnswersIn(Append(s, m)), n)
         /\ Cardinality(AnswersIn(Append(s, m))) =
              Cardinality(AnswersIn(s)) + IF m.msg \in Ops THEN 1 ELSE 0
<1> DEFINE t == Append(s, m)
           N == Len(s)
           I == AnswersIn(s)
<1>1. /\ N \in Nat /\ Len(t) = N + 1 /\ t[N + 1] = m /\ \A j \in 1..N : t[j] = s[j]
  <2> HIDE DEF t
  <2> QED BY AppendProperties DEF t
<1>2. I \in SUBSET (1..N)
  BY DEF AnswersIn
<1>3. AnswersIn(t) = IF m.msg \in Ops THEN I \cup {N + 1} ELSE I
  <2> HIDE DEF t, N
  <2>1. \A j \in 1..(N + 1) : j \in 1..N \/ j = N + 1
    BY <1>1
  <2>2. \A j \in 1..N : j \in 1..(N + 1) /\ j # N + 1
    BY <1>1
  <2>3. N + 1 \in 1..(N + 1)
    BY <1>1
  <2>4. AnswersIn(t) = {i \in 1..(N + 1) : t[i].msg \in Ops}
    BY <1>1 DEF AnswersIn
  <2>5. I = {i \in 1..N : t[i].msg \in Ops}
    BY <1>1 DEF AnswersIn, N
  <2> HIDE DEF I
  <2> QED BY <1>1, <2>1, <2>2, <2>3, <2>4, <2>5
<1>4. Cardinality(I) \in Nat
  BY <1>1, <1>2, Finite
<1> HIDE DEF t, N, I
<1>5. Numbered(s, I, n) /\ (m.msg \in Ops => m.tag = n + Cardinality(I) + 1)
  BY DEF I
<1>6. Numbered(t, AnswersIn(t), n)
      /\ Cardinality(AnswersIn(t)) = Cardinality(I) + IF m.msg \in Ops THEN 1 ELSE 0
  <2>1. /\ Numbered(t, I, n)
        /\ Cardinality(I \cup {N + 1}) = Cardinality(I) + 1
        /\ t[N + 1].tag = n + Cardinality(I) + 1 => Numbered(t, I \cup {N + 1}, n)
    BY <1>1, <1>2, <1>5, Add
  <2>2. CASE m.msg \in Ops
    BY <1>1, <1>3, <1>5, <2>1, <2>2
  <2>3. CASE m.msg \notin Ops
    BY <1>3, <1>4, <2>1, <2>3
  <2> QED BY <2>2, <2>3
<1> QED BY <1>6 DEF t, I

LEMMA Requested ==
  ASSUME NEW q \in Seq(Asked), NEW r \in Asked, NEW n \in Nat,
         Numbered(q, RequestsIn(q), n),
         r.op \notin {"MALFORMED", "OVERSIZE"} => r.tag = n + Cardinality(RequestsIn(q)) + 1
  PROVE  /\ Numbered(Append(q, r), RequestsIn(Append(q, r)), n)
         /\ Cardinality(RequestsIn(Append(q, r))) = Cardinality(RequestsIn(q)) +
              IF r.op \notin {"MALFORMED", "OVERSIZE"} THEN 1 ELSE 0
<1> DEFINE t == Append(q, r)
           N == Len(q)
           I == RequestsIn(q)
           counts == r.op \notin {"MALFORMED", "OVERSIZE"}
<1>1. /\ N \in Nat /\ Len(t) = N + 1 /\ t[N + 1] = r /\ \A j \in 1..N : t[j] = q[j]
  <2> HIDE DEF t
  <2> QED BY AppendProperties DEF t
<1>2. I \in SUBSET (1..N)
  BY DEF RequestsIn
<1>3. RequestsIn(t) = IF counts THEN I \cup {N + 1} ELSE I
  <2> HIDE DEF t, N
  <2>1. \A j \in 1..(N + 1) : j \in 1..N \/ j = N + 1
    BY <1>1
  <2>2. \A j \in 1..N : j \in 1..(N + 1) /\ j # N + 1
    BY <1>1
  <2>3. N + 1 \in 1..(N + 1)
    BY <1>1
  <2>4. RequestsIn(t) = {i \in 1..(N + 1) : t[i].op \notin {"MALFORMED", "OVERSIZE"}}
    BY <1>1 DEF RequestsIn
  <2>5. I = {i \in 1..N : t[i].op \notin {"MALFORMED", "OVERSIZE"}}
    BY <1>1 DEF RequestsIn, N
  <2> HIDE DEF I
  <2> QED BY <1>1, <2>1, <2>2, <2>3, <2>4, <2>5
<1>4. Cardinality(I) \in Nat
  BY <1>1, <1>2, Finite
<1>5. Numbered(q, I, n) /\ (counts => r.tag = n + Cardinality(I) + 1)
  OBVIOUS
<1> HIDE DEF t, N, I, counts
<1>6. Numbered(t, RequestsIn(t), n)
      /\ Cardinality(RequestsIn(t)) = Cardinality(I) + IF counts THEN 1 ELSE 0
  <2>1. /\ Numbered(t, I, n)
        /\ Cardinality(I \cup {N + 1}) = Cardinality(I) + 1
        /\ t[N + 1].tag = n + Cardinality(I) + 1 => Numbered(t, I \cup {N + 1}, n)
    BY <1>1, <1>2, <1>5, Add
  <2>2. CASE counts
    BY <1>1, <1>3, <1>5, <2>1, <2>2
  <2>3. CASE ~counts
    BY <1>3, <1>4, <2>1, <2>3
  <2> QED BY <2>2, <2>3
<1> QED BY <1>6 DEF t, I, counts

\* The first request is taken: it is the next one, or it does not count.
LEMMA Executed ==
  ASSUME NEW q \in Seq(Asked), q # <<>>, NEW n \in Nat, Numbered(q, RequestsIn(q), n)
  PROVE  LET counts == Head(q).op \notin {"MALFORMED", "OVERSIZE"}
             k == IF counts THEN 1 ELSE 0
         IN  /\ counts => Head(q).tag = n + 1
             /\ Numbered(Tail(q), RequestsIn(Tail(q)), n + k)
             /\ Cardinality(RequestsIn(q)) = k + Cardinality(RequestsIn(Tail(q)))
<1> DEFINE counts == Head(q).op \notin {"MALFORMED", "OVERSIZE"}
           k == IF counts THEN 1 ELSE 0
           N == Len(q)
           t == Tail(q)
           I == RequestsIn(q)
<1>1. /\ t \in Seq(Asked) /\ Head(q) = q[1] /\ Len(t) = N - 1 /\ N \in Nat \ {0}
      /\ \A j \in 1..(N - 1) : t[j] = q[j + 1]
  <2>1. /\ Tail(q) \in Seq(Asked) /\ Head(q) = q[1]
        /\ Len(Tail(q)) = Len(q) - 1 /\ Len(q) \in Nat \ {0}
        /\ \A i \in 1..Len(Tail(q)) : Tail(q)[i] = q[i + 1]
    BY TailAt
  <2> QED BY <2>1
<1>2. I \in SUBSET (1..N) /\ (1 \in I <=> counts)
  <2>1. I \in SUBSET (1..N)
    BY DEF RequestsIn
  <2>2. 1 \in 1..N
    BY <1>1
  <2> QED BY <1>1, <2>1, <2>2 DEF RequestsIn
<1>3. I \cap 1..1 = IF counts THEN {1} ELSE {}
  BY <1>2
<1>4. Cardinality(I \cap 1..1) = k
  BY <1>3, FS_EmptySet, FS_Singleton
<1>5. Shifted(I, 1, N - 1) = RequestsIn(t)
  <2>1. \A j \in 1..(N - 1) : j + 1 \in 1..N
    BY <1>1
  <2> HIDE DEF t, N
  <2> QED BY <1>1, <2>1 DEF Shifted, RequestsIn, N
<1>6. Numbered(q, I, n)
  OBVIOUS
<1> HIDE DEF t, N, I, counts
<1>7. 1 \in 0..N /\ N \in Nat /\ Suffix(t, q, 1, N)
  BY <1>1 DEF Suffix
<1>8. /\ Numbered(t, Shifted(I, 1, N - 1), n + Cardinality(I \cap 1..1))
      /\ Cardinality(I) = Cardinality(I \cap 1..1) + Cardinality(Shifted(I, 1, N - 1))
  <2> DEFINE e == 1
  <2>1. e \in 0..N /\ Suffix(t, q, e, N)
    BY <1>7
  <2> HIDE DEF e
  <2>2. /\ Numbered(t, Shifted(I, e, N - e), n + Cardinality(I \cap 1..e))
        /\ Cardinality(I) = Cardinality(I \cap 1..e) + Cardinality(Shifted(I, e, N - e))
    BY <1>2, <1>6, <1>7, <2>1, Drop
  <2> QED BY <2>2 DEF e
<1>9. counts => q[1].tag = n + 1
  <2> SUFFICES ASSUME counts PROVE q[1].tag = n + 1
    OBVIOUS
  <2>1. q[1].tag = n + Cardinality(I \cap 1..1)
    BY <1>2, <1>6 DEF Numbered
  <2> QED BY <1>4, <2>1
<1> QED BY <1>1, <1>4, <1>5, <1>8, <1>9 DEF t, I, counts

\* The first n of the messages s go out.
LEMMA SentOut ==
  ASSUME NEW s \in Seq(Message), NEW n \in 1..Len(s), NEW g \in Nat,
         Numbered(s, AnswersIn(s), g)
  PROVE  LET t == SubSeq(s, n + 1, Len(s))
             a == Cardinality(AnswersIn(s) \cap 1..n)
         IN  /\ t \in Seq(Message) /\ Len(t) = Len(s) - n
             /\ \A j \in 1..Len(t) : t[j] = s[j + n]
             /\ a \in Nat /\ (a = 0 <=> AnswersIn(s) \cap 1..n = {})
             /\ Numbered(t, AnswersIn(t), g + a)
             /\ Cardinality(AnswersIn(s)) = a + Cardinality(AnswersIn(t))
<1> DEFINE t == SubSeq(s, n + 1, Len(s))
           a == Cardinality(AnswersIn(s) \cap 1..n)
           N == Len(s)
           I == AnswersIn(s)
<1>1. N \in Nat /\ n \in 1..N /\ n \in 0..N /\ n \in Nat
  OBVIOUS
<1>2. t \in Seq(Message) /\ Len(t) = N - n /\ \A j \in 1..(N - n) : t[j] = s[j + n]
  <2>1. /\ t \in Seq(Message)
        /\ Len(t) = IF n + 1 <= N THEN N - (n + 1) + 1 ELSE 0
        /\ \A j \in 1..N - (n + 1) + 1 : t[j] = s[(n + 1) + j - 1]
    <3>1. \A i \in (n + 1)..N : s[i] \in Message
      BY ElementOfSeq, <1>1
    <3> QED BY <1>1, <3>1, SubSeqProperties
  <2> HIDE DEF t
  <2>2. \A j \in 1..(N - n) : (n + 1) + j - 1 = j + n /\ j \in 1..N - (n + 1) + 1
    BY <1>1
  <2> QED BY <1>1, <2>1, <2>2
<1>3. I \in SUBSET (1..N)
  BY DEF AnswersIn
<1>4. Shifted(I, n, N - n) = AnswersIn(t)
  <2>1. \A j \in 1..(N - n) : j + n \in 1..N
    BY <1>1
  <2> HIDE DEF t, N
  <2> QED BY <1>1, <1>2, <2>1 DEF Shifted, AnswersIn, N
<1>5. Numbered(s, I, g)
  OBVIOUS
<1>6. I \cap 1..n \in SUBSET (1..N) /\ a = Cardinality(I \cap 1..n)
  BY <1>3
<1> HIDE DEF t, N, I, a
<1>s. Suffix(t, s, n, N)
  BY <1>2 DEF Suffix
<1>7. /\ Numbered(t, Shifted(I, n, N - n), g + Cardinality(I \cap 1..n))
      /\ Cardinality(I) = Cardinality(I \cap 1..n) + Cardinality(Shifted(I, n, N - n))
  BY <1>1, <1>3, <1>5, <1>s, Drop
<1>8. a \in Nat /\ (a = 0 <=> I \cap 1..n = {})
  <2>1. IsFiniteSet(I \cap 1..n) /\ Cardinality(I \cap 1..n) \in Nat
    BY <1>1, <1>6, Finite
  <2> QED BY <1>6, <2>1, FS_EmptySet
<1> QED BY <1>2, <1>4, <1>6, <1>7, <1>8 DEF t, a, I, N

-----------------------------------------------------------------------------
(***************************************************************************)
(* The invariant, client by client.                                        *)
(***************************************************************************)

\* The answer that opens the tunnel.
Opens(m) == m.msg = "CONNECT" /\ m.code = "OK"

\* How many requests of c the daemon has taken from the socket.
Taken(c) == got[c] + Cardinality(AnswersIn(ob[c])) +
            IF cstate[c] = "CONNECTING1" THEN 1 ELSE 0

\* The requests of c, in order: answered and read, answered in ob_buf, the connect
\* that is being set up, in the socket.
Ordered(c) ==
  /\ Numbered(ob[c], AnswersIn(ob[c]), got[c])
  /\ Numbered(inq[c], RequestsIn(inq[c]), Taken(c))
  /\ asked[c] = Taken(c) + Cardinality(RequestsIn(inq[c]))
  /\ cstate[c] = "CONNECTING1" => connect_tag[c] = Taken(c)

InOrder(c) == cstate[c] \notin {"CONNECTED", "FREED"} => Ordered(c)

\* The answer that opens the tunnel is the last thing that CONNECTING2 has to send.
Clean(c) ==
  /\ \A i \in 1..Len(ob[c]) : Opens(ob[c][i]) => cstate[c] = "CONNECTING2" /\ i = Len(ob[c])
  /\ cstate[c] = "CONNECTING2" => ob[c] # <<>> /\ Opens(ob[c][Len(ob[c])])
  /\ cstate[c] \in {"NEW", "CONNECTED", "FREED"} => ob[c] = <<>>
  /\ told[c] = <<"CONNECT", "OK">> => cstate[c] \in {"CONNECTED", "FREED"}
  /\ cstate[c] = "CONNECTED" => told[c] = <<"CONNECT", "OK">>

\* A program that waits for each answer has one request under way at most, and none
\* once the daemon has more to do for it than to answer.
Waits(c) ==
  MaxAhead = 0 => /\ Len(inq[c]) <= 1
                  /\ inq[c] # <<>> => cstate[c] \in {"COMMAND", "FREED"}

Typed(c) == /\ cstate[c] \in ClientStates /\ connect_tag[c] \in Nat
            /\ ob[c] \in Seq(Message) /\ inq[c] \in Seq(Asked)
            /\ asked[c] \in Nat /\ got[c] \in Nat
            /\ told[c] \in {<<>>} \cup (Ops \X Codes)

ClientInv(c) == Typed(c) /\ InOrder(c) /\ Clean(c) /\ Waits(c)

-----------------------------------------------------------------------------
(***************************************************************************)
(* The effects a step can have on one client.                              *)
(***************************************************************************)
Program(c) == <<inq[c], asked[c], got[c], told[c]>>

\* What it has does not change.
Held(c) ==
  /\ cstate'[c] = cstate[c] /\ ob'[c] = ob[c] /\ Program(c)' = Program(c)
  /\ cstate[c] = "CONNECTING1" => connect_tag'[c] = connect_tag[c]

Accepted(c) ==
  /\ cstate[c] = "NEW" /\ cstate'[c] = "COMMAND"
  /\ ob'[c] = ob[c] /\ Program(c)' = Program(c)

Freed(c) ==
  /\ Live(c) /\ cstate'[c] = "FREED"
  /\ ob'[c] = <<>> /\ Program(c)' = Program(c)

\* Its program makes a request, or sends something that is none.
Asks(c) ==
  /\ MayAsk(c)
  /\ \E r \in Asked :
       /\ inq'[c] = Append(inq[c], r)
       /\ IF r.op \notin {"MALFORMED", "OVERSIZE"}
            THEN r.tag = asked[c] + 1 /\ asked'[c] = asked[c] + 1
            ELSE asked'[c] = asked[c]
  /\ cstate'[c] = cstate[c] /\ ob'[c] = ob[c] /\ connect_tag'[c] = connect_tag[c]
  /\ got'[c] = got[c] /\ told'[c] = told[c]

\* It is told something that it has not asked for just now.
Says(c) ==
  /\ Program(c)' = Program(c)
  /\ \E m \in Message :
       /\ ob'[c] = Append(ob[c], m)
       /\ \/ /\ m.msg \in Notices
             /\ cstate[c] = "LISTEN" /\ cstate'[c] = "LISTEN"
          \/ /\ m.msg = "CONNECT" /\ m.tag = connect_tag[c]
             /\ cstate[c] = "CONNECTING1"
             /\ cstate'[c] = IF m.code = "OK" THEN "CONNECTING2" ELSE "COMMAND"

\* Its next request is executed.
Executes(c) ==
  LET m == Head(inq[c])
  IN  /\ cstate[c] = "COMMAND" /\ inq[c] # <<>> /\ m.op # "OVERSIZE"
      /\ inq'[c] = Tail(inq[c])
      /\ asked'[c] = asked[c] /\ got'[c] = got[c] /\ told'[c] = told[c]
      /\ \/ m.op = "MALFORMED" /\ ob'[c] = ob[c] /\ cstate'[c] = cstate[c]
         \/ /\ m.op # "MALFORMED"
            /\ \E r \in Message :
                 /\ r.msg \in Ops /\ ~Opens(r) /\ r.tag = m.tag
                 /\ \/ ob'[c] = Append(ob[c], r) /\ cstate'[c] \in {"COMMAND", "LISTEN"}
                    \/ \E e \in Message : /\ e.msg \in Notices
                                          /\ ob'[c] = Append(Append(ob[c], r), e)
                                          /\ cstate'[c] = "LISTEN"
         \/ /\ m.op # "MALFORMED" /\ ob'[c] = ob[c]
            /\ cstate'[c] = "CONNECTING1" /\ connect_tag'[c] = m.tag

\* Some of what it is to be told goes out.
Sends(c) ==
  /\ Live(c) /\ cstate[c] # "CONNECTED"
  /\ inq'[c] = inq[c] /\ asked'[c] = asked[c] /\ connect_tag'[c] = connect_tag[c]
  /\ \E n \in 1..Len(ob[c]) :
       /\ ob'[c] = SubSeq(ob[c], n + 1, Len(ob[c]))
       /\ cstate'[c] = IF cstate[c] = "CONNECTING2" /\ n = Len(ob[c])
                         THEN "CONNECTED" ELSE cstate[c]
       /\ got'[c] = got[c] + Cardinality(AnswersIn(ob[c]) \cap 1..n)
       /\ told'[c] = LastRead(told[c], ob[c], n)

Effect(c) ==
  \/ Held(c) \/ Accepted(c) \/ Freed(c) \/ Asks(c) \/ Says(c) \/ Executes(c) \/ Sends(c)

LEMMA Counted ==
  ASSUME NEW c \in Clients, Typed(c)
  PROVE  /\ Cardinality(AnswersIn(ob[c])) \in Nat /\ Cardinality(RequestsIn(inq[c])) \in Nat
         /\ Taken(c) \in Nat
<1>1. AnswersIn(ob[c]) \in SUBSET (1..Len(ob[c])) /\ Len(ob[c]) \in Nat
  BY DEF AnswersIn, Typed
<1>2. RequestsIn(inq[c]) \in SUBSET (1..Len(inq[c])) /\ Len(inq[c]) \in Nat
  BY DEF RequestsIn, Typed
<1>3. Cardinality(AnswersIn(ob[c])) \in Nat
  BY <1>1, Finite
<1>4. Cardinality(RequestsIn(inq[c])) \in Nat
  BY <1>2, Finite
<1> QED BY <1>3, <1>4 DEF Taken, Typed

LEMMA HeldInv ==
  ASSUME NEW c \in Clients, ClientInv(c), Held(c) \/ Accepted(c) \/ Freed(c),
         connect_tag'[c] \in Nat
  PROVE  ClientInv(c)'
<1> USE DEF ClientInv
<1>1. /\ inq'[c] = inq[c] /\ asked'[c] = asked[c] /\ got'[c] = got[c] /\ told'[c] = told[c]
      /\ \/ /\ ob'[c] = ob[c]
            /\ \/ cstate'[c] = cstate[c]
               \/ cstate[c] = "NEW" /\ cstate'[c] = "COMMAND"
            /\ cstate[c] = "CONNECTING1" => connect_tag'[c] = connect_tag[c]
         \/ cstate'[c] = "FREED" /\ ob'[c] = <<>>
  BY DEF Held, Accepted, Freed, Program
<1>2. Typed(c)'
  <2>1. <<>> \in Seq(Message)
    OBVIOUS
  <2> QED BY <1>1, <2>1 DEF Typed, ClientStates
<1>3. InOrder(c)'
  BY <1>1 DEF InOrder, Ordered, Taken
<1>4. Clean(c)'
  BY <1>1 DEF Clean
<1>5. Waits(c)'
  BY <1>1 DEF Waits
<1> QED BY <1>2, <1>3, <1>4, <1>5

LEMMA AsksInv == ASSUME NEW c \in Clients, ClientInv(c), Asks(c) PROVE ClientInv(c)'
<1> USE DEF ClientInv
<1>1. PICK r \in Asked :
        /\ inq'[c] = Append(inq[c], r)
        /\ IF r.op \notin {"MALFORMED", "OVERSIZE"}
             THEN r.tag = asked[c] + 1 /\ asked'[c] = asked[c] + 1
             ELSE asked'[c] = asked[c]
  BY DEF Asks
<1>2. /\ cstate'[c] = cstate[c] /\ ob'[c] = ob[c] /\ connect_tag'[c] = connect_tag[c]
      /\ got'[c] = got[c] /\ told'[c] = told[c]
  BY DEF Asks
<1>3. MayAsk(c) /\ cstate[c] \in {"COMMAND", "LISTEN", "CONNECTING1"}
      /\ (MaxAhead = 0 => cstate[c] = "COMMAND" /\ inq[c] = <<>>)
  BY LifeAssumption DEF Asks, MayAsk
<1>4. /\ Append(inq[c], r) \in Seq(Asked) /\ Append(inq[c], r) # <<>>
      /\ Len(Append(inq[c], r)) = Len(inq[c]) + 1
  BY AppendProperties DEF Typed
<1>5. Typed(c)'
  BY <1>1, <1>2, <1>4 DEF Typed
<1>6. InOrder(c)'
  <2>1. Ordered(c)
    BY <1>3 DEF InOrder
  <2>2. Taken(c)' = Taken(c)
    BY <1>2 DEF Taken
  <2>3. Taken(c) \in Nat /\ Cardinality(RequestsIn(inq[c])) \in Nat
    BY Counted
  <2>4. /\ inq[c] \in Seq(Asked) /\ Numbered(inq[c], RequestsIn(inq[c]), Taken(c))
        /\ r.op \notin {"MALFORMED", "OVERSIZE"} =>
             r.tag = Taken(c) + Cardinality(RequestsIn(inq[c])) + 1
    BY <1>1, <2>1 DEF Typed, Ordered
  <2>5. /\ Numbered(Append(inq[c], r), RequestsIn(Append(inq[c], r)), Taken(c))
        /\ Cardinality(RequestsIn(Append(inq[c], r))) = Cardinality(RequestsIn(inq[c])) +
             IF r.op \notin {"MALFORMED", "OVERSIZE"} THEN 1 ELSE 0
    BY <2>3, <2>4, Requested
  <2>6. asked'[c] = Taken(c) + Cardinality(RequestsIn(Append(inq[c], r)))
    BY <1>1, <2>1, <2>3, <2>5 DEF Ordered
  <2>7. Ordered(c)'
    BY <1>1, <1>2, <2>1, <2>2, <2>5, <2>6 DEF Ordered
  <2> QED BY <2>7 DEF InOrder
<1>7. Clean(c)'
  BY <1>2 DEF Clean
<1>8. Waits(c)'
  BY <1>1, <1>2, <1>3, <1>4 DEF Waits
<1> QED BY <1>5, <1>6, <1>7, <1>8

\* One message more: the place of what opens the tunnel.
LEMMA LastSaid ==
  ASSUME NEW s \in Seq(Message), NEW m \in Message
  PROVE  /\ Append(s, m) \in Seq(Message) /\ Append(s, m) # <<>>
         /\ Len(Append(s, m)) = Len(s) + 1 /\ Len(s) \in Nat
         /\ Append(s, m)[Len(s) + 1] = m
         /\ \A i \in 1..Len(s) : Append(s, m)[i] = s[i]
BY AppendProperties

LEMMA SaysInv ==
  ASSUME NEW c \in Clients, ClientInv(c), Says(c), connect_tag'[c] \in Nat
  PROVE  ClientInv(c)'
<1> USE DEF ClientInv
<1>1. inq'[c] = inq[c] /\ asked'[c] = asked[c] /\ got'[c] = got[c] /\ told'[c] = told[c]
  BY DEF Says, Program
<1>2. PICK m \in Message :
        /\ ob'[c] = Append(ob[c], m)
        /\ \/ /\ m.msg \in Notices
              /\ cstate[c] = "LISTEN" /\ cstate'[c] = "LISTEN"
           \/ /\ m.msg = "CONNECT" /\ m.tag = connect_tag[c]
              /\ cstate[c] = "CONNECTING1"
              /\ cstate'[c] = IF m.code = "OK" THEN "CONNECTING2" ELSE "COMMAND"
  BY DEF Says
<1>3. /\ ob'[c] \in Seq(Message) /\ ob'[c] # <<>> /\ Len(ob'[c]) = Len(ob[c]) + 1
      /\ Len(ob[c]) \in Nat /\ ob'[c][Len(ob[c]) + 1] = m
      /\ \A i \in 1..Len(ob[c]) : ob'[c][i] = ob[c][i]
  BY <1>2, LastSaid DEF Typed
<1>4. m.msg \in Ops <=> cstate[c] = "CONNECTING1"
  BY <1>2 DEF Ops, Notices
<1>5. Typed(c)'
  BY <1>1, <1>2, <1>3 DEF Typed, ClientStates
<1>6. InOrder(c)'
  <2>1. Ordered(c)
    BY <1>2 DEF InOrder
  <2>2. /\ Cardinality(AnswersIn(ob[c])) \in Nat /\ got[c] \in Nat
        /\ ob[c] \in Seq(Message)
    BY Counted DEF Typed
  <2>3. m.msg \in Ops => m.tag = got[c] + Cardinality(AnswersIn(ob[c])) + 1
    BY <1>2, <1>4, <2>1 DEF Ordered, Taken
  <2>4. /\ Numbered(ob'[c], AnswersIn(ob'[c]), got[c])
        /\ Cardinality(AnswersIn(ob'[c])) =
             Cardinality(AnswersIn(ob[c])) + IF m.msg \in Ops THEN 1 ELSE 0
    BY <1>2, <2>1, <2>2, <2>3, Said DEF Ordered
  <2>5. Taken(c)' = Taken(c) /\ cstate'[c] # "CONNECTING1"
    <3>1. cstate'[c] # "CONNECTING1" /\ got'[c] = got[c]
      BY <1>1, <1>2
    <3>2. Taken(c)' = got[c] + Cardinality(AnswersIn(ob'[c]))
      BY <2>2, <2>4, <3>1 DEF Taken
    <3>3. CASE cstate[c] = "CONNECTING1"
      BY <1>4, <2>2, <2>4, <3>1, <3>2, <3>3 DEF Taken
    <3>4. CASE cstate[c] # "CONNECTING1"
      BY <1>4, <2>2, <2>4, <3>1, <3>2, <3>4 DEF Taken
    <3> QED BY <3>1, <3>3, <3>4
  <2>6. Ordered(c)'
    BY <1>1, <2>1, <2>4, <2>5 DEF Ordered
  <2> QED BY <2>6 DEF InOrder
<1>7. Clean(c)'
  <2>1. \A i \in 1..Len(ob[c]) : ~Opens(ob[c][i])
    BY <1>2 DEF Clean
  <2>2. Opens(m) => cstate'[c] = "CONNECTING2"
    BY <1>2 DEF Opens, Notices
  <2>3. \A i \in 1..Len(ob'[c]) : Opens(ob'[c][i]) => cstate'[c] = "CONNECTING2" /\ i = Len(ob'[c])
    <3> TAKE i \in 1..Len(ob'[c])
    <3>1. i \in 1..Len(ob[c]) \/ i = Len(ob[c]) + 1
      BY <1>3
    <3> QED BY <1>3, <2>1, <2>2, <3>1
  <2>4. cstate'[c] = "CONNECTING2" => Opens(m)
    BY <1>2 DEF Opens
  <2>5. cstate'[c] = "CONNECTING2" => ob'[c] # <<>> /\ Opens(ob'[c][Len(ob'[c])])
    BY <1>3, <2>4
  <2>6. cstate'[c] \notin {"NEW", "CONNECTED", "FREED"}
        /\ cstate[c] \notin {"CONNECTED", "FREED"}
    BY <1>2
  <2> QED BY <1>1, <2>3, <2>5, <2>6 DEF Clean
<1>8. Waits(c)'
  BY <1>1, <1>2 DEF Waits
<1> QED BY <1>5, <1>6, <1>7, <1>8

LEMMA ExecutesInv ==
  ASSUME NEW c \in Clients, ClientInv(c), Executes(c), connect_tag'[c] \in Nat
  PROVE  ClientInv(c)'
<1> USE DEF ClientInv
<1> DEFINE m == Head(inq[c])
           q == Tail(inq[c])
           A == Cardinality(AnswersIn(ob[c]))
           R == Cardinality(RequestsIn(q))
           X == Cardinality(AnswersIn(ob'[c]))
<1>1. /\ cstate[c] = "COMMAND" /\ inq[c] # <<>> /\ inq'[c] = q
      /\ asked'[c] = asked[c] /\ got'[c] = got[c] /\ told'[c] = told[c]
  BY DEF Executes
<1>2. inq[c] \in Seq(Asked) /\ inq'[c] \in Seq(Asked) /\ Len(inq'[c]) = Len(inq[c]) - 1
      /\ Len(inq[c]) \in Nat
  BY <1>1, TailAt DEF Typed
<1>3. Ordered(c) /\ Taken(c) = got[c] + A /\ A \in Nat /\ got[c] \in Nat /\ Taken(c) \in Nat
  BY <1>1, Counted DEF InOrder, Typed, Taken
<1>4. /\ m.op \notin {"MALFORMED", "OVERSIZE"} =>
           /\ m.tag = Taken(c) + 1 /\ asked[c] = Taken(c) + 1 + R
           /\ Numbered(q, RequestsIn(q), Taken(c) + 1)
      /\ m.op \in {"MALFORMED", "OVERSIZE"} =>
           asked[c] = Taken(c) + R /\ Numbered(q, RequestsIn(q), Taken(c))
      /\ R \in Nat
  <2>1. LET counts == Head(inq[c]).op \notin {"MALFORMED", "OVERSIZE"}
            k == IF counts THEN 1 ELSE 0
        IN  /\ counts => Head(inq[c]).tag = Taken(c) + 1
            /\ Numbered(Tail(inq[c]), RequestsIn(Tail(inq[c])), Taken(c) + k)
            /\ Cardinality(RequestsIn(inq[c])) = k + Cardinality(RequestsIn(Tail(inq[c])))
    BY <1>1, <1>2, <1>3, Executed DEF Ordered
  <2>2. R \in Nat
    <3>1. RequestsIn(q) \in SUBSET (1..Len(q)) /\ Len(q) \in Nat
      BY <1>1, <1>2 DEF RequestsIn
    <3> QED BY <3>1, Finite
  <2> HIDE DEF m, q, R
  <2>3. asked[c] = Taken(c) + Cardinality(RequestsIn(inq[c]))
    BY <1>3 DEF Ordered
  <2> QED BY <1>3, <2>1, <2>2, <2>3 DEF m, q, R
<1>5. Waits(c)'
  <2> SUFFICES ASSUME MaxAhead = 0 PROVE Len(inq'[c]) <= 1 /\ inq'[c] = <<>>
    BY DEF Waits
  <2>1. Len(inq'[c]) = 0
    <3>1. Len(inq[c]) <= 1
      BY DEF Waits
    <3>2. Len(inq[c]) # 0
      BY <1>1, <1>2, EmptySeq
    <3>3. \A n \in Nat : n <= 1 /\ n # 0 => n - 1 = 0
      OBVIOUS
    <3>4. Len(inq[c]) - 1 = 0
      BY <1>2, <3>1, <3>2, <3>3
    <3> QED BY <1>2, <3>4
  <2> QED BY <1>2, <2>1, EmptySeq
<1>6. \A i \in 1..Len(ob[c]) : ~Opens(ob[c][i])
  BY <1>1 DEF Clean
<1>7. told[c] # <<"CONNECT", "OK">>
  BY <1>1 DEF Clean
<1>8. ob[c] \in Seq(Message)
  BY DEF Typed
<1> HIDE DEF m, q, R, A, X
\* In each case what is left to be shown is the same.
<1>9. ASSUME ob'[c] \in Seq(Message), \A i \in 1..Len(ob'[c]) : ~Opens(ob'[c][i]),
             cstate'[c] \in {"COMMAND", "LISTEN", "CONNECTING1"},
             Numbered(ob'[c], AnswersIn(ob'[c]), got[c]),
             X + (IF cstate'[c] = "CONNECTING1" THEN 1 ELSE 0) =
               A + (IF m.op = "MALFORMED" THEN 0 ELSE 1),
             m.op # "OVERSIZE",
             cstate'[c] = "CONNECTING1" => m.op # "MALFORMED" /\ connect_tag'[c] = m.tag
      PROVE  ClientInv(c)'
  <2>1. Typed(c)'
    BY <1>1, <1>2, <1>9 DEF Typed, ClientStates
  <2>2. Clean(c)'
    BY <1>1, <1>7, <1>9 DEF Clean
  <2>3. X \in Nat
    <3>1. AnswersIn(ob'[c]) \in SUBSET (1..Len(ob'[c])) /\ Len(ob'[c]) \in Nat
      BY <1>9 DEF AnswersIn
    <3> QED BY <3>1, Finite DEF X
  <2>4. Taken(c)' = got[c] + X + IF cstate'[c] = "CONNECTING1" THEN 1 ELSE 0
    BY <1>1 DEF Taken, X
  <2>5. Taken(c)' = Taken(c) + IF m.op = "MALFORMED" THEN 0 ELSE 1
    BY <1>3, <1>9, <2>3, <2>4
  <2>6. /\ Numbered(q, RequestsIn(q), Taken(c)') /\ asked[c] = Taken(c)' + R
        /\ m.op # "MALFORMED" => m.tag = Taken(c)'
    BY <1>3, <1>4, <1>9, <2>5
  <2>7. Ordered(c)'
    <3>1. /\ Numbered(ob'[c], AnswersIn(ob'[c]), got'[c])
          /\ Numbered(inq'[c], RequestsIn(inq'[c]), Taken(c)')
          /\ asked'[c] = Taken(c)' + Cardinality(RequestsIn(inq'[c]))
          /\ cstate'[c] = "CONNECTING1" => connect_tag'[c] = Taken(c)'
      BY <1>1, <1>9, <2>6 DEF R
    <3> QED BY <3>1 DEF Ordered
  <2> QED BY <1>5, <2>1, <2>2, <2>7 DEF InOrder
<1>10. CASE ob'[c] = ob[c]
  <2>1. \/ m.op = "MALFORMED" /\ cstate'[c] = "COMMAND"
        \/ /\ m.op \notin {"MALFORMED", "OVERSIZE"}
           /\ cstate'[c] = "CONNECTING1" /\ connect_tag'[c] = m.tag
    <3>1. \A r \in Message : Append(ob[c], r) # ob[c]
      BY <1>8, LastSaid
    <3>2. \A r, e \in Message : Append(Append(ob[c], r), e) # ob[c]
      <4> TAKE r, e \in Message
      <4>1. Append(ob[c], r) \in Seq(Message) /\ Len(Append(ob[c], r)) = Len(ob[c]) + 1
            /\ Len(ob[c]) \in Nat
        BY <1>8, LastSaid
      <4>2. Len(Append(Append(ob[c], r), e)) = Len(ob[c]) + 1 + 1
        BY <4>1, LastSaid
      <4> QED BY <4>1, <4>2
    <3> QED BY <1>1, <1>10, <3>1, <3>2 DEF Executes, m
  <2>2. X = A /\ Numbered(ob'[c], AnswersIn(ob'[c]), got[c])
    BY <1>3, <1>10 DEF X, A, Ordered
  <2>3. \A i \in 1..Len(ob'[c]) : ~Opens(ob'[c][i])
    BY <1>6, <1>10
  <2> QED BY <1>3, <1>8, <1>9, <1>10, <2>1, <2>2, <2>3
<1>11. ASSUME NEW r \in Message, m.op \notin {"MALFORMED", "OVERSIZE"},
              r.msg \in Ops, ~Opens(r), r.tag = m.tag
       PROVE  LET t == Append(ob[c], r)
              IN  /\ t \in Seq(Message) /\ \A i \in 1..Len(t) : ~Opens(t[i])
                  /\ Numbered(t, AnswersIn(t), got[c]) /\ Cardinality(AnswersIn(t)) = A + 1
  <2> DEFINE t == Append(ob[c], r)
  <2>1. /\ t \in Seq(Message) /\ Len(t) = Len(ob[c]) + 1 /\ Len(ob[c]) \in Nat
        /\ t[Len(ob[c]) + 1] = r /\ \A i \in 1..Len(ob[c]) : t[i] = ob[c][i]
    BY <1>8, LastSaid
  <2>2. \A i \in 1..Len(t) : ~Opens(t[i])
    <3> HIDE DEF t
    <3> TAKE i \in 1..Len(t)
    <3>1. i \in 1..Len(ob[c]) \/ i = Len(ob[c]) + 1
      BY <2>1
    <3> QED BY <1>6, <1>11, <2>1, <3>1
  <2>3. r.tag = got[c] + Cardinality(AnswersIn(ob[c])) + 1
    BY <1>3, <1>4, <1>11 DEF A
  <2>4. Numbered(ob[c], AnswersIn(ob[c]), got[c])
    BY <1>3 DEF Ordered
  <2>5. /\ Numbered(t, AnswersIn(t), got[c])
        /\ Cardinality(AnswersIn(t)) = Cardinality(AnswersIn(ob[c])) + IF r.msg \in Ops THEN 1 ELSE 0
    BY <1>3, <1>8, <2>3, <2>4, Said
  <2> QED BY <1>11, <2>1, <2>2, <2>5 DEF A
<1>12. CASE \E r \in Message :
              /\ m.op \notin {"MALFORMED", "OVERSIZE"}
              /\ r.msg \in Ops /\ ~Opens(r) /\ r.tag = m.tag
              /\ ob'[c] = Append(ob[c], r) /\ cstate'[c] \in {"COMMAND", "LISTEN"}
  <2>1. PICK r \in Message :
              /\ m.op \notin {"MALFORMED", "OVERSIZE"}
              /\ r.msg \in Ops /\ ~Opens(r) /\ r.tag = m.tag
              /\ ob'[c] = Append(ob[c], r) /\ cstate'[c] \in {"COMMAND", "LISTEN"}
    BY <1>12
  <2>2. /\ ob'[c] \in Seq(Message) /\ \A i \in 1..Len(ob'[c]) : ~Opens(ob'[c][i])
        /\ Numbered(ob'[c], AnswersIn(ob'[c]), got[c]) /\ X = A + 1
    BY <1>11, <2>1 DEF X
  <2> QED BY <1>3, <1>9, <2>1, <2>2
<1>13. CASE \E r, e \in Message :
              /\ m.op \notin {"MALFORMED", "OVERSIZE"}
              /\ r.msg \in Ops /\ ~Opens(r) /\ r.tag = m.tag
              /\ e.msg \in Notices
              /\ ob'[c] = Append(Append(ob[c], r), e) /\ cstate'[c] = "LISTEN"
  <2>1. PICK r \in Message, e \in Message :
              /\ m.op \notin {"MALFORMED", "OVERSIZE"}
              /\ r.msg \in Ops /\ ~Opens(r) /\ r.tag = m.tag
              /\ e.msg \in Notices
              /\ ob'[c] = Append(Append(ob[c], r), e) /\ cstate'[c] = "LISTEN"
    BY <1>13
  <2> DEFINE t == Append(ob[c], r)
  <2>2. /\ t \in Seq(Message) /\ \A i \in 1..Len(t) : ~Opens(t[i])
        /\ Numbered(t, AnswersIn(t), got[c]) /\ Cardinality(AnswersIn(t)) = A + 1
    BY <1>11, <2>1
  <2>3. ob'[c] = Append(t, e) /\ e.msg \notin Ops /\ ~Opens(e)
    BY <2>1 DEF Ops, Notices, Opens
  <2> HIDE DEF t
  <2>4. /\ ob'[c] \in Seq(Message) /\ Len(ob'[c]) = Len(t) + 1 /\ Len(t) \in Nat
        /\ ob'[c][Len(t) + 1] = e /\ \A i \in 1..Len(t) : ob'[c][i] = t[i]
    BY <2>2, <2>3, LastSaid
  <2>5. \A i \in 1..Len(ob'[c]) : ~Opens(ob'[c][i])
    <3> TAKE i \in 1..Len(ob'[c])
    <3>1. i \in 1..Len(t) \/ i = Len(t) + 1
      BY <2>4
    <3> QED BY <2>2, <2>3, <2>4, <3>1
  <2>6. /\ Numbered(ob'[c], AnswersIn(ob'[c]), got[c])
        /\ X = Cardinality(AnswersIn(t)) + IF e.msg \in Ops THEN 1 ELSE 0
    BY <1>3, <2>2, <2>3, Said DEF X
  <2> QED BY <1>3, <1>9, <2>1, <2>2, <2>3, <2>4, <2>5, <2>6
<1> QED
  <2>1. m.op # "OVERSIZE"
    BY DEF Executes, m
  <2> QED BY <1>10, <1>12, <1>13, <2>1 DEF Executes, m

\* What the program has read last, when n messages have gone out.
LEMMA ReadLast ==
  ASSUME NEW c \in Clients, ClientInv(c), Live(c), cstate[c] # "CONNECTED", NEW n \in 1..Len(ob[c])
  PROVE  LET read == AnswersIn(ob[c]) \cap 1..n
             last == LastRead(told[c], ob[c], n)
             enters == cstate[c] = "CONNECTING2" /\ n = Len(ob[c])
         IN  /\ last \in {<<>>} \cup (Ops \X Codes)
             /\ read = {} => last = told[c]
             /\ enters <=> last = <<"CONNECT", "OK">>
             /\ enters => read # {}
<1> USE DEF ClientInv
<1> DEFINE s == ob[c]
           read == AnswersIn(s) \cap 1..n
           last == LastRead(told[c], s, n)
           enters == cstate[c] = "CONNECTING2" /\ n = Len(s)
           k == Max(read)
<1>1. Len(s) \in Nat /\ n \in Nat /\ n \in 1..Len(s) /\ s \in Seq(Message) /\ \A i \in 1..Len(s) : s[i] \in Message
  BY DEF Typed
<1>2. read \in SUBSET (1..Len(s)) /\ read \in SUBSET (1..n)
  BY <1>1 DEF AnswersIn
<1>3. /\ \A i \in 1..Len(s) : Opens(s[i]) => cstate[c] = "CONNECTING2" /\ i = Len(s)
      /\ cstate[c] = "CONNECTING2" => s # <<>> /\ Opens(s[Len(s)])
      /\ told[c] # <<"CONNECT", "OK">> /\ told[c] \in {<<>>} \cup (Ops \X Codes)
  BY DEF Clean, Live, Typed
<1>4. last = IF read = {} THEN told[c] ELSE <<s[k].msg, s[k].code>>
  BY DEF LastRead
<1>5. read # {} => k \in read /\ \A x \in read : x <= k
  BY <1>1, <1>2, Greatest
<1>6. enters => Len(s) \in read
  <2> SUFFICES ASSUME enters PROVE Len(s) \in read
    OBVIOUS
  <2>1. Opens(s[Len(s)])
    BY <1>3
  <2> QED BY <1>1, <2>1 DEF AnswersIn, Opens, Ops
<1>7. \A i \in read : i \in 1..Len(s) /\ s[i] \in Message /\ s[i].msg \in Ops /\ i <= n
  BY <1>1, <1>2 DEF AnswersIn
<1>8. \A m \in Message : m.code \in Codes
  BY DEF Message
<1> HIDE DEF s, read, last, k
<1>9. enters => k = Len(s) /\ read # {}
  <2> SUFFICES ASSUME enters PROVE k = Len(s)
    BY <1>6
  <2>1. k \in read /\ Len(s) <= k
    BY <1>5, <1>6
  <2>2. k \in 1..Len(s)
    BY <1>7, <2>1
  <2> QED BY <1>1, <2>1, <2>2
<1>10. CASE read = {}
  BY <1>3, <1>4, <1>9, <1>10 DEF s, read, last
<1>11. CASE read # {}
  <2>1. k \in 1..Len(s) /\ s[k] \in Message /\ s[k].msg \in Ops /\ k <= n
    BY <1>5, <1>7, <1>11
  <2>2. last = <<s[k].msg, s[k].code>> /\ s[k].code \in Codes
    BY <1>4, <1>8, <1>11, <2>1
  <2>3. last = <<"CONNECT", "OK">> <=> Opens(s[k])
    BY <2>2 DEF Opens
  <2>4. enters => Opens(s[k])
    BY <1>3, <1>9
  <2>5. Opens(s[k]) => enters
    BY <1>1, <1>3, <2>1
  <2>6. last \in Ops \X Codes
    BY <2>1, <2>2
  <2> HIDE DEF enters
  <2>7. /\ last \in {<<>>} \cup (Ops \X Codes)
        /\ enters <=> last = <<"CONNECT", "OK">>
    BY <2>3, <2>4, <2>5, <2>6
  <2> QED BY <1>11, <2>7 DEF s, read, last, enters
<1> QED BY <1>10, <1>11

LEMMA SendsInv == ASSUME NEW c \in Clients, ClientInv(c), Sends(c) PROVE ClientInv(c)'
<1> USE DEF ClientInv
<1>1. PICK n \in 1..Len(ob[c]) :
       /\ ob'[c] = SubSeq(ob[c], n + 1, Len(ob[c]))
       /\ cstate'[c] = IF cstate[c] = "CONNECTING2" /\ n = Len(ob[c])
                         THEN "CONNECTED" ELSE cstate[c]
       /\ got'[c] = got[c] + Cardinality(AnswersIn(ob[c]) \cap 1..n)
       /\ told'[c] = LastRead(told[c], ob[c], n)
  BY DEF Sends
<1>2. /\ inq'[c] = inq[c] /\ asked'[c] = asked[c] /\ connect_tag'[c] = connect_tag[c]
      /\ cstate[c] \notin {"NEW", "CONNECTED", "FREED"} /\ Live(c)
  BY DEF Sends, Live
<1>3. ob[c] \in Seq(Message) /\ Len(ob[c]) \in Nat /\ got[c] \in Nat /\ n \in Nat
  BY DEF Typed
<1>4. Ordered(c)
  BY <1>2 DEF InOrder
<1> DEFINE a == Cardinality(AnswersIn(ob[c]) \cap 1..n)
           enters == cstate[c] = "CONNECTING2" /\ n = Len(ob[c])
<1>5. /\ ob'[c] \in Seq(Message) /\ Len(ob'[c]) = Len(ob[c]) - n
      /\ \A j \in 1..Len(ob'[c]) : ob'[c][j] = ob[c][j + n]
      /\ a \in Nat
      /\ Numbered(ob'[c], AnswersIn(ob'[c]), got[c] + a)
      /\ Cardinality(AnswersIn(ob[c])) = a + Cardinality(AnswersIn(ob'[c]))
  <2>1. Numbered(ob[c], AnswersIn(ob[c]), got[c])
    BY <1>4 DEF Ordered
  <2>2. LET t == SubSeq(ob[c], n + 1, Len(ob[c]))
        IN  /\ t \in Seq(Message) /\ Len(t) = Len(ob[c]) - n
            /\ \A j \in 1..Len(t) : t[j] = ob[c][j + n]
            /\ a \in Nat /\ (a = 0 <=> AnswersIn(ob[c]) \cap 1..n = {})
            /\ Numbered(t, AnswersIn(t), got[c] + a)
            /\ Cardinality(AnswersIn(ob[c])) = a + Cardinality(AnswersIn(t))
    BY <1>3, <2>1, SentOut
  <2> HIDE DEF a
  <2> QED BY <1>1, <2>2
<1>6. /\ told'[c] \in {<<>>} \cup (Ops \X Codes)
      /\ enters <=> told'[c] = <<"CONNECT", "OK">>
  BY <1>1, <1>2, ReadLast
<1> HIDE DEF a
<1>7. cstate'[c] = (IF enters THEN "CONNECTED" ELSE cstate[c]) /\ got'[c] = got[c] + a
  BY <1>1 DEF a
<1> HIDE DEF enters
<1>8. Typed(c)'
  BY <1>2, <1>3, <1>5, <1>6, <1>7 DEF Typed, ClientStates
<1>9. InOrder(c)'
  <2> SUFFICES ASSUME ~enters PROVE Ordered(c)'
    BY <1>7 DEF InOrder
  <2>1. cstate'[c] = cstate[c]
    BY <1>7
  <2>2. Cardinality(AnswersIn(ob'[c])) \in Nat
    <3>1. AnswersIn(ob'[c]) \in SUBSET (1..Len(ob'[c])) /\ Len(ob'[c]) \in Nat
      BY <1>5 DEF AnswersIn
    <3> QED BY <3>1, Finite
  <2>3. Taken(c)' = Taken(c)
    <3>1. got'[c] + Cardinality(AnswersIn(ob'[c])) = got[c] + Cardinality(AnswersIn(ob[c]))
      BY <1>3, <1>5, <1>7, <2>2
    <3> QED BY <2>1, <3>1 DEF Taken
  <2> QED BY <1>2, <1>4, <1>5, <1>7, <2>1, <2>3 DEF Ordered
<1>10. Clean(c)'
  <2>1. \A i \in 1..Len(ob[c]) : Opens(ob[c][i]) => cstate[c] = "CONNECTING2" /\ i = Len(ob[c])
    BY DEF Clean
  <2>2. ASSUME NEW j \in 1..Len(ob'[c]), Opens(ob'[c][j])
        PROVE  cstate'[c] = "CONNECTING2" /\ j = Len(ob'[c])
    <3>1. j + n \in 1..Len(ob[c]) /\ Opens(ob[c][j + n])
      BY <1>3, <1>5, <2>2
    <3>2. cstate[c] = "CONNECTING2" /\ j + n = Len(ob[c])
      BY <2>1, <3>1
    <3>3. j = Len(ob'[c]) /\ ~enters
      BY <1>3, <1>5, <2>2, <3>2 DEF enters
    <3> QED BY <1>7, <3>2, <3>3
  <2>3. ASSUME cstate'[c] = "CONNECTING2"
        PROVE  ob'[c] # <<>> /\ Opens(ob'[c][Len(ob'[c])])
    <3>1. cstate[c] = "CONNECTING2" /\ n # Len(ob[c])
      BY <1>7, <2>3 DEF enters
    <3>2. Opens(ob[c][Len(ob[c])])
      BY <3>1 DEF Clean
    <3>3. Len(ob'[c]) \in 1..Len(ob'[c]) /\ Len(ob'[c]) + n = Len(ob[c])
      BY <1>3, <1>5, <3>1
    <3>4. Opens(ob'[c][Len(ob'[c])])
      BY <1>5, <3>2, <3>3
    <3>5. Len(ob'[c]) # 0
      BY <1>3, <1>5, <3>1
    <3> QED BY <3>4, <3>5, EmptySeq
  <2>4. enters => ob'[c] = <<>>
    <3>1. enters => Len(ob'[c]) = 0
      BY <1>3, <1>5 DEF enters
    <3> QED BY <1>5, <3>1, EmptySeq
  <2>5. cstate'[c] \in {"NEW", "CONNECTED", "FREED"} <=> enters
    BY <1>2, <1>7
  <2>6. cstate'[c] = "CONNECTED" <=> enters
    BY <1>2, <1>7
  <2> QED BY <1>6, <2>2, <2>3, <2>4, <2>5, <2>6 DEF Clean
<1>11. Waits(c)'
  BY <1>2, <1>7 DEF Waits, enters
<1> QED BY <1>8, <1>9, <1>10, <1>11

\* No effect breaks the invariant of its client.
LEMMA EffectKeeps ==
  ASSUME NEW c \in Clients, ClientInv(c), Effect(c), connect_tag'[c] \in Nat
  PROVE  ClientInv(c)'
BY HeldInv, AsksInv, SaysInv, ExecutesInv, SendsInv DEF Effect

\* Each is a step of the client's session, or is not seen by its program.
LEMMA EffectIsSession ==
  ASSUME NEW c \in Clients, ClientInv(c), Effect(c)
  PROVE  [Session(c)!SessionNext]_(Session(c)!session)
<1> USE DEF ClientInv
<1> DEFINE phase == IF cstate[c] = "FREED" THEN "closed"
                    ELSE IF cstate[c] = "CONNECTED" THEN "tunnel" ELSE "commands"
           nextPhase == IF cstate'[c] = "FREED" THEN "closed"
                        ELSE IF cstate'[c] = "CONNECTED" THEN "tunnel" ELSE "commands"
           Opened == <<"CONNECT", "OK">>
\* The step as the program sees it.
<1>1. ASSUME \/ /\ asked'[c] = asked[c] /\ got'[c] = got[c] /\ told'[c] = told[c]
                /\ nextPhase = phase
             \/ /\ asked'[c] = asked[c] + 1 /\ got'[c] = got[c] /\ told'[c] = told[c]
                /\ phase = "commands" /\ nextPhase = phase
             \/ /\ asked'[c] = asked[c] /\ got'[c] = got[c] /\ told'[c] = told[c]
                /\ phase # "closed" /\ nextPhase = "closed"
             \/ /\ asked'[c] = asked[c] /\ got'[c] \in (got[c] + 1)..asked[c]
                /\ phase = "commands"
                /\ \/ told'[c] # Opened /\ nextPhase = "commands"
                   \/ told'[c] = Opened /\ nextPhase = "tunnel"
      PROVE  [Session(c)!SessionNext]_(Session(c)!session)
  BY <1>1 DEF Session!SessionNext, Session!Ask, Session!Read, Session!Enter, Session!Close,
              Session!session
<1>2. CASE Held(c) \/ Accepted(c)
  BY <1>1, <1>2 DEF Held, Accepted, Program
<1>3. CASE Freed(c)
  BY <1>1, <1>3 DEF Freed, Program, Live
<1>4. CASE Asks(c)
  <2>1. phase = "commands" /\ nextPhase = phase
    BY <1>4 DEF Asks, MayAsk
  <2>2. got'[c] = got[c] /\ told'[c] = told[c] /\ (asked'[c] = asked[c] \/ asked'[c] = asked[c] + 1)
    BY <1>4 DEF Asks
  <2> QED BY <1>1, <2>1, <2>2
<1>5. CASE Says(c) \/ Executes(c)
  <2>1. asked'[c] = asked[c] /\ got'[c] = got[c] /\ told'[c] = told[c]
    BY <1>5 DEF Says, Executes, Program
  <2>2. phase = "commands" /\ nextPhase = "commands"
    BY <1>5 DEF Says, Executes
  <2> QED BY <1>1, <2>1, <2>2
<1>6. CASE Sends(c)
  <2>1. PICK n \in 1..Len(ob[c]) :
       /\ cstate'[c] = IF cstate[c] = "CONNECTING2" /\ n = Len(ob[c])
                         THEN "CONNECTED" ELSE cstate[c]
       /\ got'[c] = got[c] + Cardinality(AnswersIn(ob[c]) \cap 1..n)
       /\ told'[c] = LastRead(told[c], ob[c], n)
    BY <1>6 DEF Sends
  <2>2. /\ asked'[c] = asked[c] /\ Live(c)
        /\ cstate[c] \notin {"NEW", "CONNECTED", "FREED"}
    BY <1>6 DEF Sends, Live
  <2> DEFINE a == Cardinality(AnswersIn(ob[c]) \cap 1..n)
             enters == cstate[c] = "CONNECTING2" /\ n = Len(ob[c])
             read == AnswersIn(ob[c]) \cap 1..n
  <2>3. /\ read = {} => told'[c] = told[c]
        /\ enters <=> told'[c] = Opened
        /\ enters => read # {}
    BY <2>1, <2>2, ReadLast
  <2>4. Ordered(c) /\ ob[c] \in Seq(Message) /\ got[c] \in Nat
    BY <2>2 DEF InOrder, Typed
  <2>5. /\ a \in Nat /\ (a = 0 <=> read = {})
        /\ \E k \in Nat : Cardinality(AnswersIn(ob[c])) = a + k
    <3>1. LET t == SubSeq(ob[c], n + 1, Len(ob[c]))
          IN  /\ a \in Nat /\ (a = 0 <=> read = {})
              /\ t \in Seq(Message)
              /\ Cardinality(AnswersIn(ob[c])) = a + Cardinality(AnswersIn(t))
      BY <2>4, SentOut DEF Ordered
    <3> DEFINE t == SubSeq(ob[c], n + 1, Len(ob[c]))
    <3>2. t \in Seq(Message) => AnswersIn(t) \in SUBSET (1..Len(t)) /\ Len(t) \in Nat
      BY DEF AnswersIn
    <3> HIDE DEF t, a, read
    <3>3. t \in Seq(Message) => Cardinality(AnswersIn(t)) \in Nat
      BY <3>2, Finite
    <3> QED BY <3>1, <3>3 DEF t, a, read
  <2>6. \E r \in Nat : asked[c] = got[c] + Cardinality(AnswersIn(ob[c])) + r
    <3>1. asked[c] = Taken(c) + Cardinality(RequestsIn(inq[c]))
      BY <2>4 DEF Ordered
    <3>2. Cardinality(RequestsIn(inq[c])) \in Nat /\ Cardinality(AnswersIn(ob[c])) \in Nat
      BY Counted
    <3>3. CASE cstate[c] = "CONNECTING1"
      <4> DEFINE R == Cardinality(RequestsIn(inq[c]))
                 A == Cardinality(AnswersIn(ob[c]))
      <4>1. asked[c] = (got[c] + A + 1) + R
        BY <3>1, <3>3 DEF Taken
      <4> HIDE DEF R, A
      <4>2. A \in Nat /\ R \in Nat
        BY <3>2 DEF R, A
      <4>3. R + 1 \in Nat /\ asked[c] = got[c] + A + (R + 1)
        BY <2>4, <4>1, <4>2
      <4> QED BY <4>3 DEF A
    <3>4. CASE cstate[c] # "CONNECTING1"
      BY <2>4, <3>1, <3>2, <3>4 DEF Taken
    <3> QED BY <3>3, <3>4
  <2>7. got'[c] = got[c] + a
    BY <2>1
  <2> HIDE DEF a, read
  <2>8. a # 0 => got'[c] \in (got[c] + 1)..asked[c]
    <3>1. PICK k \in Nat : Cardinality(AnswersIn(ob[c])) = a + k
      BY <2>5
    <3>2. PICK r \in Nat : asked[c] = got[c] + (a + k) + r
      BY <2>6, <3>1
    <3>3. a \in Nat /\ got[c] \in Nat
      BY <2>4, <2>5
    <3> QED BY <2>7, <3>2, <3>3
  <2>9. phase = "commands" /\ nextPhase = IF enters THEN "tunnel" ELSE "commands"
    BY <2>1, <2>2
  <2> HIDE DEF enters, phase, nextPhase, Opened
  <2>10. CASE a = 0
    BY <1>1, <2>2, <2>3, <2>4, <2>5, <2>7, <2>9, <2>10
  <2>11. CASE a # 0
    BY <1>1, <2>2, <2>3, <2>8, <2>9, <2>11
  <2> QED BY <2>10, <2>11
<1> QED BY <1>2, <1>3, <1>4, <1>5, <1>6 DEF Effect

-----------------------------------------------------------------------------
(***************************************************************************)
(* The effects of each handler.                                            *)
(***************************************************************************)
Shape ==
  /\ connect_tag \in [Clients -> Nat] /\ ob = [c \in Clients |-> ob[c]]
  /\ got = [c \in Clients |-> got[c]] /\ told = [c \in Clients |-> told[c]]

\* The inductive invariant.
RInv == LInv /\ Shape /\ \A c \in Clients : ClientInv(c)

Done == Shape' /\ \A c \in Clients : Effect(c)

clientSide == <<cstate, connect_tag, ob, inq, asked, got, told>>

LEMMA AllHeld == ASSUME RInv, UNCHANGED clientSide PROVE Done
BY DEF RInv, Shape, Done, Effect, Held, Program, clientSide

LEMMA NothingDone == ASSUME RInv, NEW f, Undefined(f) PROVE Done
BY AllHeld DEF Undefined, clientVars, appVars, clientSide

\* connection_teardown, for a client that is not told anything else.
LEMMA TornClient ==
  ASSUME RInv, NEW K \in SUBSET Open, NEW c \in Clients,
         FreeClients(Closed(K)), cstate' = CstateAfter(K), ob'[c] = ObAfter(K)[c],
         UNCHANGED <<inq, asked, got, told>>
  PROVE  Effect(c)
<1>1. ClientInv(c) /\ connect_tag[c] \in Nat
  BY DEF RInv, Shape
<1>2. Program(c)' = Program(c)
  BY DEF Program
<1>3. CASE c \in Closed(K)
  <2>1. PICK k \in Open : state[k] = "CONNECTED" /\ client[k] = c
    BY <1>3 DEF Closed
  <2>2. Live(c)
    BY <2>1 DEF RInv, LInv, ClientsMatchConnections, Live
  <2>3. cstate'[c] = "FREED" /\ ob'[c] = <<>>
    BY <1>3 DEF CstateAfter, ObAfter
  <2> QED BY <1>2, <2>2, <2>3 DEF Effect, Freed
<1>4. CASE c \notin Closed(K) /\ c \in Refused(K)
  <2> DEFINE m == Result("CONNECT", connect_tag[c], "CONNREFUSED")
  <2>1. m \in Message /\ m.msg = "CONNECT" /\ m.tag = connect_tag[c] /\ m.code # "OK"
    BY <1>1 DEF Result, Message, Ops, Codes
  <2>2. cstate[c] = "CONNECTING1" /\ cstate'[c] = "COMMAND" /\ ob'[c] = Append(ob[c], m)
    BY <1>4 DEF CstateAfter, ObAfter, Refused
  <2> HIDE DEF m
  <2>3. Says(c)
    BY <1>2, <2>1, <2>2 DEF Says
  <2> QED BY <2>3 DEF Effect
<1>5. CASE c \notin Closed(K) /\ c \notin Refused(K)
  <2>1. cstate'[c] = cstate[c] /\ ob'[c] = ob[c] /\ connect_tag'[c] = connect_tag[c]
    BY <1>5 DEF CstateAfter, ObAfter, FreeClients
  <2> QED BY <1>2, <2>1 DEF Effect, Held
<1> QED BY <1>3, <1>4, <1>5

LEMMA FreedTags ==
  ASSUME RInv, NEW C, FreeClients(C)
  PROVE  connect_tag' \in [Clients -> Nat]
BY DEF RInv, Shape, FreeClients

LEMMA TeardownDone ==
  ASSUME RInv, NEW K \in SUBSET Open, Teardown(K), UNCHANGED <<inq, asked, got, told>>
  PROVE  Done
<1>1. FreeClients(Closed(K)) /\ cstate' = CstateAfter(K) /\ ob' = ObAfter(K)
  BY DEF Teardown
<1>2. \A c \in Clients : Effect(c)
  BY <1>1, TornClient
<1>3. connect_tag' \in [Clients -> Nat]
  BY <1>1, FreedTags
<1>4. ob' = [c \in Clients |-> ob'[c]]
  BY <1>1 DEF ObAfter
<1> QED BY <1>2, <1>3, <1>4 DEF RInv, Shape, Done

LEMMA CloseDone == ASSUME RInv, NEW c \in Clients, Live(c), ClientClose(c) PROVE Done
<1>1. CASE cstate[c] = "CONNECTING2" /\ ConnsOf(c) # {}
  BY <1>1, NothingDone DEF ClientClose
<1>2. CASE ~(cstate[c] = "CONNECTING2" /\ ConnsOf(c) # {})
  <2>1. /\ FreeClients({c}) /\ cstate' = [cstate EXCEPT ![c] = "FREED"]
        /\ ob' = [ob EXCEPT ![c] = <<>>] /\ UNCHANGED <<inq, asked, got, told>>
    BY <1>2 DEF ClientClose, appVars
  <2>2. Shape'
    <3>1. ob' = [b \in Clients |-> ob'[b]]
      BY <2>1 DEF RInv, Shape
    <3> QED BY <2>1, <3>1, FreedTags DEF RInv, Shape
  <2>3. ASSUME NEW b \in Clients PROVE Effect(b)
    <3>1. CASE b = c
      <4>1. cstate'[c] = "FREED" /\ ob'[c] = <<>>
        BY <2>1 DEF RInv, Shape, LInv, Types
      <4> QED BY <2>1, <3>1, <4>1 DEF Effect, Freed, Program
    <3>2. CASE b # c
      <4>1. cstate'[b] = cstate[b] /\ ob'[b] = ob[b] /\ connect_tag'[b] = connect_tag[b]
        BY <2>1, <3>2 DEF RInv, Shape, LInv, Types, FreeClients
      <4> QED BY <2>1, <4>1 DEF Effect, Held, Program
    <3> QED BY <3>1, <3>2
  <2> QED BY <2>2, <2>3 DEF Done
<1> QED BY <1>1, <1>2

LEMMA SendDone ==
  ASSUME RInv, NEW c \in Clients, Live(c), cstate[c] # "CONNECTED", ProcessSend(c)
  PROVE  Done
<1>1. CASE capp[c] = "CLOSED"
  BY <1>1, CloseDone DEF ProcessSend
<1>2. CASE capp[c] # "CLOSED"
  <2>1. PICK n \in 1..Len(ob[c]) :
           /\ ob' = [ob EXCEPT ![c] = SubSeq(@, n + 1, Len(@))]
           /\ cstate' = [cstate EXCEPT ![c] =
                IF @ = "CONNECTING2" /\ n = Len(ob[c]) THEN "CONNECTED" ELSE @]
           /\ got' = [got EXCEPT ![c] = @ + Cardinality(AnswersIn(ob[c]) \cap 1..n)]
           /\ told' = [told EXCEPT ![c] = LastRead(@, ob[c], n)]
           /\ UNCHANGED <<connect_tag, inq, asked>>
    BY <1>2 DEF ProcessSend
  <2>2. Shape'
    BY <2>1 DEF RInv, Shape
  <2>3. Sends(c)
    BY <2>1 DEF Sends, RInv, Shape, LInv, Types
  <2>4. \A b \in Clients \ {c} : Held(b)
    BY <2>1 DEF Held, Program, RInv, Shape, LInv, Types
  <2> QED BY <2>2, <2>3, <2>4 DEF Done, Effect
<1> QED BY <1>1, <1>2

LEMMA AcceptDone == ASSUME RInv, NEW c \in Clients, ClientAccept(c) PROVE Done
<1>1. /\ cstate[c] = "NEW" /\ cstate' = [cstate EXCEPT ![c] = "COMMAND"]
      /\ UNCHANGED <<connect_tag, ob, inq, asked, got, told>>
  BY DEF ClientAccept, appVars
<1>2. cstate'[c] = "COMMAND" /\ \A b \in Clients \ {c} : cstate'[b] = cstate[b]
  BY <1>1 DEF RInv, LInv, Types
<1> QED BY <1>1, <1>2 DEF RInv, Done, Shape, Effect, Accepted, Held, Program

LEMMA AsksDone ==
  ASSUME RInv, NEW c \in Clients, NEW m \in Commands, ClientAsks(c, m) PROVE Done
<1> DEFINE counts == m.op \notin {"MALFORMED", "OVERSIZE"}
           tag    == IF counts THEN asked[c] + 1 ELSE 0
           r      == [op |-> m.op, dev |-> m.dev, tag |-> tag]
<1>1. /\ inq' = [inq EXCEPT ![c] = Append(@, r)]
      /\ asked' = [asked EXCEPT ![c] = IF counts THEN @ + 1 ELSE @]
      /\ UNCHANGED <<cstate, connect_tag, ob, got, told>> /\ MayAsk(c)
  BY DEF ClientAsks, clientVars
<1>2. r \in Asked /\ r.op = m.op /\ r.tag = tag
  <2>1. m \in Command
    BY LifeAssumption
  <2>2. asked[c] \in Nat
    BY DEF RInv, LInv, Types
  <2>3. tag \in Nat
    BY <2>2
  <2> HIDE DEF tag
  <2> QED BY <2>1, <2>3 DEF Command, Asked
<1> HIDE DEF r
<1>3. Asks(c)
  BY <1>1, <1>2 DEF Asks, RInv, LInv, Types
<1>4. \A b \in Clients \ {c} : Held(b)
  BY <1>1 DEF Held, Program, RInv, LInv, Types
<1> QED BY <1>1, <1>3, <1>4 DEF RInv, Done, Effect, Shape

\* client_command: an answer, a connect that is set up, or nothing.
LEMMA RecvDone ==
  ASSUME RInv, NEW c \in Clients, Live(c), ProcessRecv(c) PROVE Done
<1> DEFINE m == Head(inq[c])
<1>1. CASE inq[c] = <<>> \/ cstate[c] = "CONNECTING2" \/ m.op = "OVERSIZE"
  BY <1>1, CloseDone DEF ProcessRecv
<1>2. CASE /\ ~(inq[c] = <<>> \/ cstate[c] = "CONNECTING2" \/ m.op = "OVERSIZE")
           /\ cstate[c] = "COMMAND"
           /\ Execute(c, m)
           /\ inq' = [inq EXCEPT ![c] = Tail(@)]
           /\ UNCHANGED <<asked, got, told>>
  <2>1. m \in Asked
    <3>1. inq[c] \in Seq(Asked)
      BY DEF RInv, LInv, Types
    <3> QED BY <1>2, <3>1, TailAt
  <2>2. m.tag \in Nat /\ m.op \in Ops
    BY <2>1 DEF Asked, Ops
  <2>3. /\ inq'[c] = Tail(inq[c]) /\ asked'[c] = asked[c] /\ got'[c] = got[c]
        /\ told'[c] = told[c]
        /\ \A b \in Clients \ {c} : Program(b)' = Program(b)
    BY <1>2 DEF Program, RInv, LInv, Types
  \* What is common to the cases.
  <2>4. ASSUME /\ connect_tag' \in [Clients -> Nat] /\ ob' = [b \in Clients |-> ob'[b]]
               /\ \A b \in Clients \ {c} : /\ cstate'[b] = cstate[b] /\ ob'[b] = ob[b]
                                           /\ connect_tag'[b] = connect_tag[b],
               \/ m.op = "MALFORMED" /\ ob'[c] = ob[c] /\ cstate'[c] = cstate[c]
               \/ /\ m.op # "MALFORMED"
                  /\ \E r \in Message :
                       /\ r.msg \in Ops /\ ~Opens(r) /\ r.tag = m.tag
                       /\ \/ ob'[c] = Append(ob[c], r) /\ cstate'[c] \in {"COMMAND", "LISTEN"}
                          \/ \E e \in Message : /\ e.msg \in Notices
                                                /\ ob'[c] = Append(Append(ob[c], r), e)
                                                /\ cstate'[c] = "LISTEN"
               \/ /\ m.op # "MALFORMED" /\ ob'[c] = ob[c]
                  /\ cstate'[c] = "CONNECTING1" /\ connect_tag'[c] = m.tag
        PROVE  Done
    <3>1. Executes(c)
      <4> HIDE DEF m
      <4> QED BY <1>2, <2>3, <2>4 DEF Executes, m
    <3>2. \A b \in Clients \ {c} : Held(b)
      BY <2>3, <2>4 DEF Held
    <3>3. Shape'
      BY <1>2, <2>4 DEF RInv, Shape
    <3> QED BY <3>1, <3>2, <3>3 DEF Done, Effect
  <2> HIDE DEF m
  <2>5. CASE m.op = "MALFORMED" /\ UNCHANGED clientVars
    BY <2>4, <2>5 DEF clientVars, RInv, Shape
  <2>6. ASSUME NEW op \in Ops, NEW code \in Codes, m.op # "MALFORMED",
               ~(op = "CONNECT" /\ code = "OK"),
               Answer(c, op, m.tag, code), UNCHANGED <<cstate, connect_tag>>
        PROVE  Done
    <3> DEFINE r == Result(op, m.tag, code)
    <3>1. r \in Message /\ r.msg \in Ops /\ ~Opens(r) /\ r.tag = m.tag
      BY <2>2, <2>6 DEF Result, Message, Opens
    <3>2. ob' = [ob EXCEPT ![c] = Append(@, r)]
      BY <2>6 DEF Answer
    <3> HIDE DEF r
    <3>3. ob'[c] = Append(ob[c], r) /\ ob' = [b \in Clients |-> ob'[b]]
          /\ \A b \in Clients \ {c} : ob'[b] = ob[b]
      BY <3>2 DEF RInv, Shape
    <3>4. cstate'[c] = "COMMAND" /\ connect_tag' \in [Clients -> Nat]
      BY <1>2, <2>6 DEF RInv, Shape
    <3> QED BY <2>4, <2>6, <3>1, <3>3, <3>4
  <2>7. CASE /\ m.op = "LISTEN"
             /\ cstate' = [cstate EXCEPT ![c] = "LISTEN"]
             /\ ob' = [ob EXCEPT ![c] = Append(@, Result("LISTEN", m.tag, "OK")) \o
                  (LET D == {d \in Devices : dstate[d] = "ACTIVE" /\ visible[d]}
                   IN  IF D = {} THEN <<>> ELSE <<Notice("Attached", D)>>)]
             /\ UNCHANGED connect_tag
    <3> DEFINE r == Result("LISTEN", m.tag, "OK")
               D == {d \in Devices : dstate[d] = "ACTIVE" /\ visible[d]}
               e == Notice("Attached", D)
               t == Append(ob[c], r)
    <3>1. r \in Message /\ r.msg \in Ops /\ ~Opens(r) /\ r.tag = m.tag
      BY <2>2 DEF Result, Message, Opens, Ops, Codes
    <3>2. e \in Message /\ e.msg \in Notices
      BY DEF Notice, Message, Notices, Codes
    <3>3. ob[c] \in Seq(Message)
      BY DEF RInv, ClientInv, Typed
    <3>4. t \in Seq(Message)
      <4> HIDE DEF r
      <4> QED BY <3>1, <3>3, LastSaid
    <3>5. ob' = [ob EXCEPT ![c] = t \o (IF D = {} THEN <<>> ELSE <<e>>)]
      BY <2>7
    <3> HIDE DEF r, D, e, t
    <3>6. t \o <<>> = t /\ t \o <<e>> = Append(t, e)
      BY <3>2, <3>4, ConcatEmptySeq, AppendIsConcat
    <3>7. /\ ob'[c] = t \/ ob'[c] = Append(t, e)
          /\ ob' = [b \in Clients |-> ob'[b]]
          /\ \A b \in Clients \ {c} : ob'[b] = ob[b]
      BY <3>5, <3>6 DEF RInv, Shape
    <3>8. cstate'[c] = "LISTEN" /\ \A b \in Clients \ {c} : cstate'[b] = cstate[b]
      BY <2>7 DEF RInv, LInv, Types
    <3>9. connect_tag' = connect_tag /\ connect_tag \in [Clients -> Nat]
      BY <2>7 DEF RInv, Shape
    <3>10. m.op # "MALFORMED"
      BY <2>7
    <3>11. ob'[c] = Append(ob[c], r) \/ ob'[c] = Append(Append(ob[c], r), e)
      BY <3>7 DEF t
    <3>12. \/ ob'[c] = Append(ob[c], r) /\ cstate'[c] \in {"COMMAND", "LISTEN"}
           \/ \E f \in Message : /\ f.msg \in Notices
                                 /\ ob'[c] = Append(Append(ob[c], r), f)
                                 /\ cstate'[c] = "LISTEN"
      BY <3>2, <3>8, <3>11
    <3> QED BY <2>4, <3>1, <3>7, <3>8, <3>9, <3>10, <3>12
  <2>8. CASE m.op = "CONNECT" /\ StartConnect(c, m.dev, m.tag)
    <3> DEFINE found == FindSport(m.dev)
    <3>1. CASE /\ Answer(c, "CONNECT", m.tag, IF found.sport = 0 THEN "BADDEV" ELSE "CONNREFUSED")
               /\ UNCHANGED <<cstate, connect_tag>>
      <4> HIDE DEF found
      <4>1. CASE found.sport = 0
        BY <2>6, <2>8, <3>1, <4>1 DEF Ops, Codes
      <4>2. CASE found.sport # 0
        BY <2>6, <2>8, <3>1, <4>2 DEF Ops, Codes
      <4> QED BY <4>1, <4>2
    <3>2. CASE /\ connect_tag' = [connect_tag EXCEPT ![c] = m.tag]
               /\ cstate' = [cstate EXCEPT ![c] = "CONNECTING1"]
               /\ UNCHANGED ob
      <4>1. /\ connect_tag'[c] = m.tag /\ cstate'[c] = "CONNECTING1"
            /\ connect_tag' \in [Clients -> Nat]
            /\ \A b \in Clients \ {c} : cstate'[b] = cstate[b] /\ connect_tag'[b] = connect_tag[b]
        BY <2>2, <3>2 DEF RInv, Shape, LInv, Types
      <4>2. ob' = [b \in Clients |-> ob'[b]]
        BY <3>2 DEF RInv, Shape
      <4> QED BY <2>4, <2>8, <3>2, <4>1, <4>2
    <3> QED BY <2>8, <3>1, <3>2 DEF StartConnect
  <2>9. CASE m.op = "QUERY" /\ Answer(c, "QUERY", m.tag, "OK") /\ UNCHANGED <<cstate, connect_tag>>
    BY <2>6, <2>9 DEF Ops, Codes
  <2>10. CASE /\ m.op = "CONNECT" /\ Answer(c, "CONNECT", m.tag, "BADDEV")
              /\ UNCHANGED <<cstate, connect_tag>>
    BY <2>6, <2>10 DEF Ops, Codes
  <2> QED BY <1>2, <2>5, <2>7, <2>8, <2>9, <2>10 DEF Execute
<1>3. CASE Undefined("use_after_free") \/ Undefined("uninitialised")
  BY <1>3, NothingDone
<1> HIDE DEF m
<1> QED BY <1>1, <1>2, <1>3 DEF ProcessRecv, m

LEMMA ProcessDone == ASSUME RInv, NEW c \in Clients, ClientProcess(c) PROVE Done
<1>1. CASE UNCHANGED <<pc, fault, clientVars, devVars, connVars, wireVars, appVars>>
  BY <1>1, AllHeld DEF clientVars, appVars, clientSide
<1>2. CASE DeviceClientProcess(c)
  <2>1. UNCHANGED <<inq, asked, got, told>>
    BY <1>2 DEF DeviceClientProcess, appVars
  <2>2. CASE UNCHANGED clientVars
    BY <2>1, <2>2, AllHeld DEF clientVars, clientSide
  <2>3. CASE \E k \in ConnsOf(c) : Abandon(k)
    <3>1. PICK k \in ConnsOf(c) : Teardown({k})
      BY <2>3 DEF Abandon
    <3>2. {k} \in SUBSET Open
      BY DEF ConnsOf
    <3> QED BY <2>1, <3>1, <3>2, TeardownDone
  <2> QED BY <1>2, <2>2, <2>3 DEF DeviceClientProcess
<1> QED BY <1>1, <1>2, RecvDone, SendDone DEF ClientProcess

\* The SYN|ACK and the segments that end a connection.
LEMMA InputDone == ASSUME RInv, NEW d \in Devices, TcpInput(d) PROVE Done
<1> DEFINE k == <<d, Arrives(d).sport>>
<1>1. k \in Conns
  <2>1. toHost[d] \in Seq([sport : Ports, flags : Flags]) /\ toHost[d] # <<>>
    BY DEF TcpInput, RInv, LInv, Types
  <2>2. Arrives(d) \in [sport : Ports, flags : Flags]
    BY <2>1, TailAt DEF Arrives
  <2> QED BY <2>2 DEF Conns
<1> HIDE DEF k
<1>2. CASE Undefined("use_after_free") \/ Undefined("null_dereference")
  BY <1>2, NothingDone
<1>3. CASE UNCHANGED <<inq, asked, got, told>> /\ UNCHANGED clientVars
  BY <1>3, AllHeld DEF clientVars, clientSide
<1>4. CASE UNCHANGED <<inq, asked, got, told>> /\ state[k] # "NONE" /\ Teardown({k})
  <2>1. {k} \in SUBSET Open
    BY <1>1, <1>4 DEF Open
  <2> QED BY <1>4, <2>1, TeardownDone
<1>5. CASE /\ UNCHANGED <<inq, asked, got, told>>
           /\ state[k] = "CONNECTING" /\ ConnectionUp(k)
  <2>0. PICK c \in Clients : c = client[k] /\ cstate[c] = "CONNECTING1"
    BY <1>1, <1>5 DEF RInv, LInv, ClientsMatchConnections, Open
  <2> DEFINE m == Result("CONNECT", connect_tag[c], "OK")
  <2>1. c \in Clients /\ cstate[c] = "CONNECTING1"
    BY <2>0
  <2>2. m \in Message /\ m.msg = "CONNECT" /\ m.tag = connect_tag[c] /\ m.code = "OK"
    BY <2>1 DEF Result, Message, Ops, Codes, RInv, Shape
  <2>3. /\ ob' = [ob EXCEPT ![c] = Append(@, m)] /\ connect_tag' = connect_tag
        /\ cstate' = [cstate EXCEPT ![c] = "CONNECTING2"]
    BY <1>5, <2>0 DEF ConnectionUp, Answer
  <2> HIDE DEF m
  <2>4. Says(c)
    <3>1. cstate'[c] = "CONNECTING2"
      BY <2>1, <2>3 DEF RInv, LInv, Types
    <3>2. ob'[c] = Append(ob[c], m)
      BY <2>1, <2>3 DEF RInv, Shape
    <3>3. inq'[c] = inq[c] /\ asked'[c] = asked[c] /\ got'[c] = got[c] /\ told'[c] = told[c]
      BY <1>5
    <3>4. Program(c)' = Program(c)
      BY <3>3 DEF Program
    <3> QED BY <2>1, <2>2, <3>1, <3>2, <3>4 DEF Says
  <2>5. \A b \in Clients \ {c} : Held(b)
    BY <1>5, <2>3 DEF Held, Program, RInv, Shape, LInv, Types
  <2>6. Shape'
    BY <1>5, <2>3 DEF RInv, Shape
  <2> QED BY <2>4, <2>5, <2>6 DEF Done, Effect
<1>6. UNCHANGED appVars => UNCHANGED <<inq, asked, got, told>>
  BY DEF appVars
<1>7. \/ Undefined("use_after_free") \/ Undefined("null_dereference")
      \/ /\ UNCHANGED appVars
         /\ \/ UNCHANGED clientVars
            \/ state[k] # "NONE" /\ Teardown({k})
            \/ state[k] = "CONNECTING" /\ ConnectionUp(k)
  BY DEF TcpInput, k, Abandon
<1> QED BY <1>2, <1>3, <1>4, <1>5, <1>6, <1>7

\* A notice to a client that listens is what it is told; the others are not.
LEMMA NoticeSaid ==
  ASSUME RInv, NEW c \in Clients, NEW what \in Notices, NEW D \in SUBSET Devices,
         cstate[c] = "LISTEN", cstate'[c] = "LISTEN",
         ob'[c] = Append(ob[c], Notice(what, D)), UNCHANGED <<inq, asked, got, told>>
  PROVE  Effect(c)
<1> DEFINE m == Notice(what, D)
<1>1. m \in Message /\ m.msg \in Notices
  BY DEF Notice, Message, Codes
<1>2. ob'[c] = Append(ob[c], m)
  OBVIOUS
<1> HIDE DEF m
<1> QED BY <1>1, <1>2 DEF Effect, Says, Program

LEMMA WorkerDoneDone == ASSUME RInv, NEW d \in Devices, WorkerDone(d) PROVE Done
<1>1. /\ ob' = [c \in Clients |-> IF cstate[c] = "LISTEN"
              THEN Append(ob[c], Notice("Attached", {d})) ELSE ob[c]]
      /\ UNCHANGED <<cstate, connect_tag, inq, asked, got, told>>
  BY DEF WorkerDone, appVars
<1>2. ASSUME NEW c \in Clients, cstate[c] = "LISTEN" PROVE Effect(c)
  <2>1. ob'[c] = Append(ob[c], Notice("Attached", {d})) /\ {d} \in SUBSET Devices
    BY <1>1, <1>2
  <2> QED BY <1>1, <1>2, <2>1, NoticeSaid DEF Notices
<1>3. ASSUME NEW c \in Clients, cstate[c] # "LISTEN" PROVE Effect(c)
  BY <1>1, <1>3 DEF Effect, Held, Program
<1>4. Shape'
  BY <1>1 DEF RInv, Shape
<1> QED BY <1>2, <1>3, <1>4 DEF Done

\* A client that listens has no connection on the device that goes.
LEMMA RemoveDone == ASSUME RInv, NEW d \in Devices, DeviceRemove(d) PROVE Done
<1> DEFINE K == OfDev(d)
<1>1. CASE Undefined("self_deadlock")
  BY <1>1, NothingDone
<1>2. CASE /\ FreeClients(Closed(K)) /\ cstate' = CstateAfter(K)
           /\ ob' = [c \in Clients |->
                 IF dstate[d] = "ACTIVE" /\ cstate[c] = "LISTEN"
                   THEN Append(ob[c], Notice("Removed", {d})) ELSE ObAfter(K)[c]]
           /\ UNCHANGED <<inq, asked, got, told>>
  <2>1. K \in SUBSET Open
    BY DEF OfDev
  <2> HIDE DEF K
  <2>2. Shape'
    <3>1. ob' = [c \in Clients |-> ob'[c]]
      BY <1>2
    <3> QED BY <1>2, <3>1, FreedTags DEF RInv, Shape
  <2>3. ASSUME NEW c \in Clients, dstate[d] = "ACTIVE" /\ cstate[c] = "LISTEN" PROVE Effect(c)
    <3>1. c \notin Closed(K) /\ c \notin Refused(K)
      BY <2>1, <2>3 DEF Closed, Refused, RInv, LInv, ClientsMatchConnections
    <3>2. cstate'[c] = "LISTEN" /\ ob'[c] = Append(ob[c], Notice("Removed", {d}))
          /\ {d} \in SUBSET Devices
      BY <1>2, <2>3, <3>1 DEF CstateAfter
    <3> QED BY <1>2, <2>3, <3>2, NoticeSaid DEF Notices
  <2>4. ASSUME NEW c \in Clients, ~(dstate[d] = "ACTIVE" /\ cstate[c] = "LISTEN") PROVE Effect(c)
    <3>1. ob'[c] = ObAfter(K)[c]
      BY <1>2, <2>4
    <3> QED BY <1>2, <2>1, <3>1, TornClient
  <2> QED BY <2>2, <2>3, <2>4 DEF Done
<1> QED BY <1>1, <1>2 DEF DeviceRemove, appVars

LEMMA ExitDone == ASSUME RInv, Exit PROVE Done
<1>1. CASE Undefined("self_deadlock")
  BY <1>1, NothingDone
<1>2. CASE /\ cstate' = [c \in Clients |-> IF Live(c) THEN "FREED" ELSE cstate[c]]
           /\ ob' = [c \in Clients |-> <<>>]
           /\ FreeClients(Clients)
           /\ UNCHANGED <<inq, asked, got, told>>
  <2>1. Shape'
    BY <1>2, FreedTags DEF RInv, Shape
  <2>2. ASSUME NEW c \in Clients, Live(c) PROVE Freed(c)
    BY <1>2, <2>2 DEF Freed, Program
  <2>3. ASSUME NEW c \in Clients, ~Live(c) PROVE Held(c)
    <3>1. ob[c] = <<>> /\ cstate[c] # "CONNECTING1"
      BY <2>3 DEF RInv, ClientInv, Clean, Live
    <3> QED BY <1>2, <2>3, <3>1 DEF Held, Program
  <2> QED BY <2>1, <2>2, <2>3 DEF Done, Effect
<1> QED BY <1>1, <1>2 DEF Exit, appVars

\* Every step of the system is one of the effects on each of the clients.
LEMMA StepDone == ASSUME RInv, [Next]_vars PROVE Done
<1>1. ASSUME UNCHANGED clientVars /\ UNCHANGED appVars PROVE Done
  BY <1>1, AllHeld DEF clientVars, appVars, clientSide
<1>2. CASE UNCHANGED vars
  BY <1>1, <1>2 DEF vars
<1>3. ASSUME NEW c \in Clients, ClientSide(c) PROVE Done
  <2>1. CASE ClientHangsUp(c)
    BY <2>1, AllHeld DEF ClientHangsUp, clientVars, clientSide
  <2> QED BY <1>3, <2>1, AcceptDone, ProcessDone, AsksDone DEF ClientSide
<1>4. ASSUME NEW d \in Devices, DeviceSide(d) PROVE Done
  <2>1. CASE DeviceAdd(d) \/ DeviceVersionInput(d)
    BY <1>1, <2>1 DEF DeviceAdd, DeviceVersionInput
  <2> QED BY <1>4, <2>1, InputDone, RemoveDone, WorkerDoneDone DEF DeviceSide
<1>5. ASSUME NEW k \in Conns, ConnSide(k) PROVE Done
  <2>1. CASE CheckTimeouts(k)
    <3>1. Teardown({k}) /\ UNCHANGED appVars /\ {k} \in SUBSET Open
      BY <2>1 DEF CheckTimeouts, Abandon, Open
    <3> QED BY <3>1, TeardownDone DEF appVars
  <2>2. CASE DevAnswers(k) \/ DevSends(k)
    BY <1>1, <2>2 DEF DevAnswers, DevSends, DevEmits
  <2> QED BY <1>5, <2>1, <2>2 DEF ConnSide
<1>6. ASSUME Loop PROVE Done
  <2>1. CASE Poll \/ UsbDone \/ TurnDone
    BY <1>1, <2>1 DEF Poll, UsbDone, TurnDone
  <2>2. CASE Shutdown
    <3>1. Teardown(Open) /\ UNCHANGED appVars
      BY <2>2 DEF Shutdown
    <3> QED BY <3>1, TeardownDone DEF appVars
  <2> QED BY <1>6, <2>1, <2>2, ExitDone DEF Loop
<1> QED BY <1>2, <1>3, <1>4, <1>5, <1>6 DEF Next

-----------------------------------------------------------------------------
(***************************************************************************)
(* The rest of the types.                                                  *)
(***************************************************************************)
LoopTypes ==
  /\ ready \in [Clients -> SUBSET {"IN", "OUT"}] /\ fault \in Faults \cup {"none"}
  /\ visible \in [Devices -> BOOLEAN] /\ worker \in [Devices -> BOOLEAN]
  /\ capp \in [Clients -> {"OPEN", "CLOSED"}]

loopSide == <<ready, fault, visible, worker, capp>>

LEMMA MaskBits == ASSUME NEW c \in Clients PROVE Mask(c) \subseteq {"IN", "OUT"}
BY DEF Mask

LEMMA ClientTypesKept ==
  ASSUME LoopTypes, NEW c \in Clients, ClientSide(c) PROVE LoopTypes'
<1> USE DEF LoopTypes
<1>1. ASSUME UNCHANGED <<visible, worker>>, fault' \in Faults \cup {"none"},
             \/ ready' = ready /\ capp' = capp
             \/ ready' = [ready EXCEPT ![c] = {}] /\ capp' = capp
             \/ ready' = ready /\ capp' = [capp EXCEPT ![c] = "CLOSED"]
      PROVE  LoopTypes'
  BY <1>1
<1>2. ASSUME NEW f \in Faults, Undefined(f) PROVE LoopTypes'
  BY <1>1, <1>2 DEF Undefined, loopVars, devVars, appVars
<1>3. CASE ClientClose(c)
  BY <1>1, <1>2, <1>3 DEF ClientClose, devVars, appVars, Faults
<1>4. CASE ClientAccept(c) \/ ClientHangsUp(c) \/ \E m \in Commands : ClientAsks(c, m)
  BY <1>1, <1>4 DEF ClientAccept, ClientHangsUp, ClientAsks, loopVars, devVars, appVars
<1>5. CASE DeviceClientProcess(c)
  BY <1>1, <1>5 DEF DeviceClientProcess, devVars, appVars
<1>6. CASE ProcessSend(c)
  BY <1>1, <1>3, <1>6 DEF ProcessSend, devVars
<1>7. CASE ProcessRecv(c)
  <2>1. CASE /\ Execute(c, Head(inq[c])) /\ ready' = [ready EXCEPT ![c] = {}]
             /\ UNCHANGED <<fault, capp>>
    <3>1. UNCHANGED <<visible, worker>>
      BY <2>1 DEF Execute, StartConnect, devVars
    <3> QED BY <1>1, <2>1, <3>1
  <2> QED BY <1>2, <1>3, <1>7, <2>1 DEF ProcessRecv, Faults
<1>8. CASE /\ ready' = [ready EXCEPT ![c] = {}]
           /\ UNCHANGED <<pc, fault, clientVars, devVars, connVars, wireVars, appVars>>
  BY <1>1, <1>8 DEF devVars, appVars
<1> QED BY <1>4, <1>5, <1>6, <1>7, <1>8 DEF ClientSide, ClientProcess

LEMMA LoopTypesKept == ASSUME LoopTypes, [Next]_vars PROVE LoopTypes'
<1> USE DEF LoopTypes
<1>1. ASSUME UNCHANGED loopSide PROVE LoopTypes'
  BY <1>1 DEF loopSide
<1>2. CASE UNCHANGED vars
  BY <1>1, <1>2 DEF vars, loopVars, devVars, appVars, loopSide
<1>3. ASSUME NEW f \in Faults, Undefined(f) PROVE LoopTypes'
  BY <1>3 DEF Undefined, loopVars, devVars, appVars
<1>4. ASSUME NEW d \in Devices, DeviceSide(d) PROVE LoopTypes'
  <2>1. CASE DeviceAdd(d)
    BY <1>1, <2>1 DEF DeviceAdd, loopVars, appVars, loopSide
  <2>2. CASE DeviceVersionInput(d)
    BY <2>2 DEF DeviceVersionInput, loopVars, appVars
  <2>3. CASE TcpInput(d)
    <3>1. CASE Undefined("use_after_free") \/ Undefined("null_dereference")
      BY <1>3, <3>1 DEF Faults
    <3>2. CASE UNCHANGED <<loopVars, fault, devVars, appVars>>
      BY <1>1, <3>2 DEF loopVars, devVars, appVars, loopSide
    <3> QED BY <2>3, <3>1, <3>2 DEF TcpInput
  <2>4. CASE DeviceRemove(d)
    <3>1. CASE Undefined("self_deadlock")
      BY <1>3, <3>1 DEF Faults
    <3>2. CASE UNCHANGED <<loopVars, fault, visible, worker, appVars>>
      BY <1>1, <3>2 DEF loopVars, appVars, loopSide
    <3> QED BY <2>4, <3>1, <3>2 DEF DeviceRemove
  <2>5. CASE WorkerDone(d)
    <3>1. /\ worker' = [worker EXCEPT ![d] = FALSE]
          /\ visible' = [visible EXCEPT ![d] = @ \/ dstate[d] # "FREED"]
          /\ UNCHANGED <<ready, fault, capp>>
      BY <2>5 DEF WorkerDone, loopVars, appVars
    <3>2. (visible[d] \/ dstate[d] # "FREED") \in BOOLEAN
      OBVIOUS
    <3>3. visible' \in [Devices -> BOOLEAN]
      BY <3>1, <3>2, Zenon
    <3> QED BY <3>1, <3>3
  <2> QED BY <1>4, <2>1, <2>2, <2>3, <2>4, <2>5 DEF DeviceSide
<1>5. ASSUME NEW k \in Conns, ConnSide(k) PROVE LoopTypes'
  <2>1. UNCHANGED <<loopVars, fault, devVars>> /\ UNCHANGED appVars
    BY <1>5 DEF ConnSide, CheckTimeouts, DevAnswers, DevSends, DevEmits
  <2> QED BY <1>1, <2>1 DEF loopVars, devVars, appVars, loopSide
<1>6. ASSUME Loop PROVE LoopTypes'
  <2>1. CASE Poll
    <3>1. UNCHANGED <<fault, visible, worker, capp>>
      BY <2>1 DEF Poll, devVars, appVars
    <3>2. PICK Q \in SUBSET Clients :
            ready' = [c \in Clients |-> {e \in Mask(c) : e = "IN" =>
              c \notin Q /\ (inq[c] # <<>> \/ capp[c] = "CLOSED" \/ cstate[c] = "CONNECTED")}]
      BY <2>1 DEF Poll
    <3>3. ready' \in [Clients -> SUBSET {"IN", "OUT"}]
      BY <3>2, MaskBits
    <3> QED BY <3>1, <3>3
  <2>2. CASE UsbDone \/ TurnDone \/ Shutdown
    BY <1>1, <2>2 DEF UsbDone, TurnDone, Shutdown, devVars, appVars, loopSide
  <2>3. CASE Exit
    BY <1>1, <1>3, <2>3 DEF Exit, appVars, Faults, loopSide
  <2> QED BY <1>6, <2>1, <2>2, <2>3 DEF Loop
<1> QED BY <1>2, <1>4, <1>5, <1>6, ClientTypesKept DEF Next

-----------------------------------------------------------------------------
(***************************************************************************)
(* The theorems.                                                           *)
(***************************************************************************)
LEMMA RInitHolds == ASSUME Init PROVE RInv /\ LoopTypes
<1>1. LInv
  BY InitHolds
<1>2. Shape
  BY DEF Init, Shape
<1>3. LoopTypes
  BY DEF Init, LoopTypes, Faults
<1>4. ASSUME NEW c \in Clients PROVE ClientInv(c)
  <2>1. /\ cstate[c] = "NEW" /\ connect_tag[c] = 0 /\ ob[c] = <<>> /\ inq[c] = <<>>
        /\ asked[c] = 0 /\ got[c] = 0 /\ told[c] = <<>>
    BY DEF Init
  <2>2. /\ <<>> \in Seq(Message) /\ <<>> \in Seq(Asked) /\ Len(<<>>) = 0
    BY EmptySeq
  <2>3. AnswersIn(ob[c]) = {} /\ RequestsIn(inq[c]) = {} /\ Cardinality({}) = 0
    BY <2>1, <2>2, FS_EmptySet DEF AnswersIn, RequestsIn
  <2>4. Typed(c)
    BY <2>1, <2>2 DEF Typed, ClientStates
  <2>5. InOrder(c)
    <3>1. Taken(c) = got[c] + Cardinality(AnswersIn(ob[c])) + 0
      BY <2>1 DEF Taken
    <3>2. Taken(c) = 0
      BY <2>1, <2>3, <3>1
    <3>3. Numbered(ob[c], {}, got[c]) /\ Numbered(inq[c], {}, Taken(c))
      BY DEF Numbered
    <3>4. Numbered(ob[c], AnswersIn(ob[c]), got[c]) /\ Numbered(inq[c], RequestsIn(inq[c]), Taken(c))
      BY <2>3, <3>3
    <3>5. asked[c] = Taken(c) + Cardinality(RequestsIn(inq[c]))
      <4>1. asked[c] = 0 /\ Cardinality(RequestsIn(inq[c])) = 0
        BY <2>1, <2>3, Zenon
      <4> QED BY <3>2, <4>1
    <3> QED BY <2>1, <3>4, <3>5 DEF InOrder, Ordered
  <2>6. Clean(c)
    BY <2>1, <2>2 DEF Clean
  <2>7. Waits(c)
    BY <2>1, <2>2 DEF Waits
  <2> QED BY <2>4, <2>5, <2>6, <2>7 DEF ClientInv
<1> QED BY <1>1, <1>2, <1>3, <1>4 DEF RInv

LEMMA RStepKeeps == ASSUME RInv, [Next]_vars PROVE RInv'
<1>1. LInv'
  BY StepKeeps DEF RInv
<1>2. Done
  BY StepDone
<1>3. \A c \in Clients : ClientInv(c)'
  BY <1>2, EffectKeeps DEF RInv, Done, Shape
<1> QED BY <1>1, <1>2, <1>3 DEF RInv, Done

LEMMA RInvHolds == Spec => []RInv
<1>1. Init => RInv
  BY RInitHolds
<1>2. RInv /\ [Next]_vars => RInv'
  BY RStepKeeps
<1> QED BY <1>1, <1>2, PTL DEF Spec

\* Every variable keeps its type, whatever the program sends and however long it runs.
THEOREM Typing == Spec => []TypeOK
<1>1. Init => LoopTypes
  BY RInitHolds
<1>2. LoopTypes /\ [Next]_vars => LoopTypes'
  BY LoopTypesKept
<1>3. RInv /\ LoopTypes => TypeOK
  <2> SUFFICES ASSUME RInv, LoopTypes PROVE TypeOK
    OBVIOUS
  <2>1. \A c \in Clients : /\ ob[c] \in Seq(Message) /\ got[c] \in Nat
                           /\ told[c] \in {<<>>} \cup (Ops \X Codes)
    BY DEF RInv, ClientInv, Typed
  <2>2. ob \in [Clients -> Seq(Message)]
    BY <2>1 DEF RInv, Shape
  <2>3. got \in [Clients -> Nat] /\ told \in [Clients -> {<<>>} \cup (Ops \X Codes)]
    BY <2>1 DEF RInv, Shape
  <2>4. Types /\ connect_tag \in [Clients -> Nat]
    BY DEF RInv, LInv, Shape
  <2> QED BY <2>2, <2>3, <2>4 DEF TypeOK, Types, LoopTypes
<1> QED BY <1>1, <1>2, <1>3, RInvHolds, PTL DEF Spec

\* client_command, send_result and connection_teardown between them answer every
\* request of a live client once, in the order it was made and under its own tag, and
\* the only answer still to be made is that of a connect that is being set up.
THEOREM AnsweredInOrder == Spec => []AnswersInOrder
<1>1. RInv => AnswersInOrder
  <2> SUFFICES ASSUME RInv, NEW c \in Clients, Live(c), cstate[c] # "CONNECTED"
               PROVE  /\ \A i \in AnswersIn(ob[c]) :
                           ob[c][i].tag = got[c] + Cardinality(AnswersIn(ob[c]) \cap 1..i)
                      /\ asked[c] = got[c] + Cardinality(AnswersIn(ob[c])) +
                           Cardinality(RequestsIn(inq[c])) +
                           (IF cstate[c] = "CONNECTING1" THEN 1 ELSE 0)
    BY DEF AnswersInOrder
  <2>1. Ordered(c) /\ got[c] \in Nat
    BY DEF RInv, ClientInv, InOrder, Live, Typed
  <2>2. Cardinality(AnswersIn(ob[c])) \in Nat /\ Cardinality(RequestsIn(inq[c])) \in Nat
    BY Counted DEF RInv, ClientInv
  <2>3. asked[c] = Taken(c) + Cardinality(RequestsIn(inq[c]))
    BY <2>1 DEF Ordered
  <2>4. \A i \in AnswersIn(ob[c]) :
          ob[c][i].tag = got[c] + Cardinality(AnswersIn(ob[c]) \cap 1..i)
    BY <2>1 DEF Ordered, Numbered
  <2>5. CASE cstate[c] = "CONNECTING1"
    BY <2>1, <2>2, <2>3, <2>4, <2>5 DEF Taken
  <2>6. CASE cstate[c] # "CONNECTING1"
    BY <2>1, <2>2, <2>3, <2>4, <2>6 DEF Taken
  <2> QED BY <2>5, <2>6
<1> QED BY <1>1, RInvHolds, PTL

\* client_notify_connect, process_send and device_client_process: the result that
\* opens a tunnel is the last thing the client is sent before its bytes.
THEOREM CleanTunnel == Spec => []TunnelIsClean
<1>1. RInv => TunnelIsClean
  BY DEF RInv, ClientInv, Clean, TunnelIsClean, Opens
<1> QED BY <1>1, RInvHolds, PTL

\* Each client is a session to its program: the objects of the daemon implement
\* MuxSession once for every client, with the answers that the program has read.
THEOREM ImplementsSessions == Spec => Sessions
<1>1. Init => \A c \in Clients : Session(c)!SessionInit
  BY DEF Init, Session!SessionInit
<1>2. RInv /\ [Next]_vars => [\A c \in Clients : [Session(c)!SessionNext]_(Session(c)!session)]_vars
  <2> SUFFICES ASSUME RInv, [Next]_vars, NEW c \in Clients
               PROVE  [Session(c)!SessionNext]_(Session(c)!session)
    OBVIOUS
  <2>1. Effect(c) /\ ClientInv(c)
    BY StepDone DEF RInv, Done
  <2> QED BY <2>1, EffectIsSession
<1> QED BY <1>1, <1>2, RInvHolds, PTL DEF Spec, Sessions

\* The same, client by client and as MuxSession states it.
THEOREM ImplementsSession ==
  ASSUME NEW c \in Clients PROVE Spec => Session(c)!SessionSpec
<1>1. Init => Session(c)!SessionInit
  BY DEF Init, Session!SessionInit
<1>2. RInv /\ [Next]_vars => [Session(c)!SessionNext]_(Session(c)!session)
  <2> SUFFICES ASSUME RInv, [Next]_vars PROVE [Session(c)!SessionNext]_(Session(c)!session)
    OBVIOUS
  <2>1. Effect(c) /\ ClientInv(c)
    BY StepDone DEF RInv, Done
  <2> QED BY <2>1, EffectIsSession
<1> QED BY <1>1, <1>2, RInvHolds, PTL DEF Spec, Session!SessionSpec

\* client_process never looks at a client that has died in process_recv, nor
\* device_tcp_input at one that is not waiting, as long as no program sends a request
\* before it has read the answer to the last.
THEOREM UntouchedIfWaiting ==
  ASSUME MaxAhead = 0 PROVE Spec => []DeadClientUntouched
<1>1. Init => DeadClientUntouched
  BY DEF Init, DeadClientUntouched
<1>2. RInv /\ DeadClientUntouched /\ [Next]_vars => DeadClientUntouched'
  <2> SUFFICES ASSUME RInv, DeadClientUntouched, [Next]_vars, fault' = "use_after_free"
               PROVE  FALSE
    BY DEF DeadClientUntouched
  <2>1. ASSUME fault' = fault PROVE FALSE
    BY <2>1 DEF DeadClientUntouched
  <2>2. ASSUME NEW f, Undefined(f), f # "use_after_free" PROVE FALSE
    BY <2>2 DEF Undefined
  <2>3. ASSUME NEW c \in Clients, ClientSide(c) PROVE FALSE
    <3>1. ASSUME ClientClose(c) PROVE FALSE
      BY <2>1, <2>2, <3>1 DEF ClientClose
    <3>2. ASSUME Live(c), cstate[c] # "CONNECTED", ProcessRecv(c) PROVE FALSE
      <4>1. inq[c] # <<>> => cstate[c] \in {"COMMAND", "FREED"}
        BY DEF RInv, ClientInv, Waits
      <4> QED BY <2>1, <2>2, <3>1, <3>2, <4>1 DEF ProcessRecv, Live
    <3>3. ASSUME ProcessSend(c) PROVE FALSE
      BY <2>1, <3>1, <3>3 DEF ProcessSend
    <3>4. CASE ClientAccept(c) \/ ClientHangsUp(c) \/ \E m \in Commands : ClientAsks(c, m)
      BY <2>1, <3>4 DEF ClientAccept, ClientHangsUp, ClientAsks
    <3>5. CASE ClientProcess(c)
      BY <2>1, <3>2, <3>3, <3>5 DEF ClientProcess, DeviceClientProcess
    <3> QED BY <2>3, <3>4, <3>5 DEF ClientSide
  <2>4. ASSUME NEW d \in Devices, DeviceSide(d) PROVE FALSE
    <3>1. CASE TcpInput(d)
      <4> DEFINE k == <<d, Arrives(d).sport>>
      <4>1. Arrives(d) \in [sport : Ports, flags : Flags]
        <5>1. toHost[d] \in Seq([sport : Ports, flags : Flags]) /\ toHost[d] # <<>>
          BY <3>1 DEF TcpInput, RInv, LInv, Types
        <5> QED BY <5>1, TailAt DEF Arrives
      <4>2. k \in Conns
        BY <4>1 DEF Conns
      <4> HIDE DEF k
      <4>3. state[k] = "CONNECTING" => cstate[client[k]] = "CONNECTING1"
        BY <4>2 DEF RInv, LInv, ClientsMatchConnections, Open
      <4>4. ~Undefined("null_dereference")
        BY <2>2
      <4> QED BY <2>1, <3>1, <4>3, <4>4 DEF TcpInput, k
    <3>2. CASE DeviceRemove(d)
      BY <2>1, <2>2, <3>2 DEF DeviceRemove
    <3>3. CASE DeviceAdd(d) \/ DeviceVersionInput(d) \/ WorkerDone(d)
      BY <2>1, <3>3 DEF DeviceAdd, DeviceVersionInput, WorkerDone
    <3> QED BY <2>4, <3>1, <3>2, <3>3 DEF DeviceSide
  <2>5. ASSUME NEW k \in Conns, ConnSide(k) PROVE FALSE
    BY <2>1, <2>5 DEF ConnSide, CheckTimeouts, DevAnswers, DevSends, DevEmits
  <2>6. ASSUME Loop PROVE FALSE
    BY <2>1, <2>2, <2>6 DEF Loop, Poll, UsbDone, TurnDone, Shutdown, Exit
  <2> QED BY <2>1, <2>3, <2>4, <2>5, <2>6 DEF Next, vars
<1> QED BY <1>1, <1>2, RInvHolds, PTL DEF Spec
=============================================================================
