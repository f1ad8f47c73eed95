---------------------------- MODULE ExchangeProofs ----------------------------
(***************************************************************************)
(* What holds of a signed stream of messages, for any number of messages,  *)
(* any bodies, keys and clocks, and of queries one after another, for any  *)
(* number of them, any options and any datagrams and octets on the way.    *)
(*                                                                         *)
(* Streams: the messages taken and those on their way come in order, so    *)
(* that one is missing before a message exactly if its number exceeds its  *)
(* place; either end's digest starts at the last signature it has seen     *)
(* and continues with the messages since; and no two signatures are equal, *)
(* each holding the one before it.                                         *)
(*                                                                         *)
(* Queries: a connection on which no query raised has nothing in it when   *)
(* no query uses it, otherwise the query that the server has yet to        *)
(* answer, or the rest of the one answer.                                  *)
(***************************************************************************)
EXTENDS Tsig, Queries, SequenceTheorems, TLAPS

TsigSpec == TsigInit /\ [][TsigNext]_tsigVars

-----------------------------------------------------------------------------
(* Signatures and the digests between them                                 *)

Signed(msgs, i) == msgs[i].tsig # <<>>
MacOf(msgs, i) == msgs[i].tsig[1].mac
WireOf(msgs, i) == <<msgs[i].id, msgs[i].body>>
SignedWireOf(msgs, i) == <<Id, msgs[i].body>>
TimesOf(msgs, i) == <<"times", msgs[i].tsig[1].time_signed, msgs[i].tsig[1].fudge>>
IsLastSigned(msgs, l, n) ==
    l \in 1..n /\ Signed(msgs, l) /\ \A j \in l + 1 .. n : ~Signed(msgs, j)

Hash(k, items) == [secret |-> k.secret, algorithm |-> k.algorithm, data |-> items]

\* What the messages with these numbers add to a digest, the signature of the
\* l-th of them its start.
Since(msgs, l, numbers) ==
    [j \in 1 .. Len(numbers) - l + 1 |->
        IF j = 1 THEN MacOf(msgs, l) ELSE WireOf(msgs, numbers[l + j - 1])]
Ctx(k, msgs, l, numbers) == <<Hash(k, Since(msgs, l, numbers))>>

\* The signature of message i: of the first, and of a later one.
FirstMac(k, msgs, i) ==
    Hash(k, <<RequestMac>> \o
            <<SignedWireOf(msgs, i), k.name, k.algorithm, TimesOf(msgs, i),
              <<msgs[i].tsig[1].error, msgs[i].tsig[1].other>>>>)
LaterMac(k, msgs, l, numbers, i) ==
    Hash(k, Since(msgs, l, numbers) \o <<SignedWireOf(msgs, i), TimesOf(msgs, i)>>)

-----------------------------------------------------------------------------

TsigTyped ==
    /\ key \in ServerKeys
    /\ clock \in Nat
    /\ \E S : sent \in Seq(S)
    /\ \E S : stream \in Seq(S)
    /\ taken \in Seq(Nat)
    /\ forwarded \subseteq 1 .. Len(sent)

\* The server's messages, and the records of those it signs,
RecordIs(r, k, now) ==
    /\ r.owner = k.name /\ r.algorithm = k.algorithm
    /\ r.fudge = Fudge /\ r.original_id = Id
    /\ r.time_signed \in Nat /\ r.time_signed <= now
SentIs ==
    \A i \in 1 .. Len(sent) :
        /\ sent[i].number = i /\ sent[i].id = Id
        /\ i = 1 => Signed(sent, i)
        /\ Signed(sent, i) =>
              sent[i].tsig = <<sent[i].tsig[1]>> /\ RecordIs(sent[i].tsig[1], key, clock)

\* are those on their way but for the id of those forwarded.
IdNow(i) == IF i \in forwarded THEN ForwardedId ELSE Id
StreamIs ==
    \A j \in 1 .. Len(stream) :
        /\ stream[j] = [id |-> stream[j].id, body |-> stream[j].body,
                        tsig |-> stream[j].tsig, number |-> stream[j].number]
        /\ stream[j].number \in 1 .. Len(sent)
        /\ stream[j].body = sent[stream[j].number].body
        /\ stream[j].tsig = sent[stream[j].number].tsig
        /\ stream[j].id = IdNow(stream[j].number)

\* They come in order: no more of them are missing before one than before
\* the next, and than in all.
NumbersOf(numbers, msgs) == numbers \o [i \in DOMAIN msgs |-> msgs[i].number]
AreInOrder(numbers, n) ==
    /\ Len(numbers) <= n
    /\ \A i \in 1 .. Len(numbers) : numbers[i] >= i /\ numbers[i] - i <= n - Len(numbers)
    /\ \A i, j \in 1 .. Len(numbers) : i <= j => numbers[i] - i <= numbers[j] - j
InOrder == AreInOrder(NumbersOf(taken, stream), Len(sent))

\* The digest of the server
ServerCtxIs ==
    IF sent = <<>> THEN serverCtx = NoContext
    ELSE \E l \in 1 .. Len(sent) :
            /\ IsLastSigned(sent, l, Len(sent))
            /\ serverCtx = Ctx(key, sent, l, FirstNumbers(Len(sent)))

\* makes signatures that cover all since the one before, and so differ.
MacsAre ==
    \A i \in 1 .. Len(sent) :
        Signed(sent, i) =>
            IF i = 1 THEN MacOf(sent, i) = FirstMac(key, sent, i)
            ELSE \E l \in 1 .. i - 1 :
                    /\ IsLastSigned(sent, l, i - 1)
                    /\ MacOf(sent, i) = LaterMac(key, sent, l, FirstNumbers(i - 1), i)
MacsDiffer ==
    \A i, j \in 1 .. Len(sent) :
        Signed(sent, i) /\ Signed(sent, j) /\ MacOf(sent, i) = MacOf(sent, j) => i = j

\* The messages as they come to the client
Came == [i \in DOMAIN sent |-> [id |-> IdNow(i), body |-> sent[i].body, tsig |-> sent[i].tsig]]

\* The client's digest starts from the last signature it took; up to it
\* nothing is missing.
ClientCtxIs ==
    outcome = "reading" =>
        IF taken = <<>>
        THEN tsigCtx = NoContext /\ (sent # <<>> => stream # <<>> /\ stream[1].number = 1)
        ELSE /\ key = ClientKey
             /\ \E s \in 1 .. Len(taken) :
                    /\ taken[s] = s /\ Signed(sent, s)
                    /\ \A j \in s + 1 .. Len(taken) : ~Signed(sent, taken[j])
                    /\ tsigCtx = Ctx(ClientKey, Came, s, taken)

TsigInv == /\ TsigTyped /\ SentIs /\ StreamIs /\ InOrder /\ ServerCtxIs /\ MacsAre
           /\ MacsDiffer /\ ClientCtxIs /\ WholeStreamIsTaken /\ SignedPartIsWhole

-----------------------------------------------------------------------------
(* Digests                                                                 *)

KeyType(k) == k = [name |-> k.name, secret |-> k.secret, algorithm |-> k.algorithm]

LEMMA DigestsAre ==
    ASSUME NEW k, NEW d, NEW x
    PROVE  /\ Update(<<Hash(k, d)>>, x) = <<Hash(k, Append(d, x))>>
           /\ UpdatedWith(<<Hash(k, d)>>, x) = <<Hash(k, d \o x)>>
           /\ Mac(<<Hash(k, d)>>) = Hash(k, d)
<1>1. \A c : <<c>>[1] = c
  OBVIOUS
<1>2. \A y : [Hash(k, d) EXCEPT !.data = y] = Hash(k, y)
  BY DEF Hash
<1>3. Hash(k, d).data = d
  BY DEF Hash
<1>4. Update(<<Hash(k, d)>>, x) = <<[Hash(k, d) EXCEPT !.data = Append(d, x)]>>
  BY <1>1, <1>3, Zenon DEF Update
<1>5. UpdatedWith(<<Hash(k, d)>>, x) = <<[Hash(k, d) EXCEPT !.data = d \o x]>>
  BY <1>1, <1>3, Zenon DEF UpdatedWith
<1> QED
  BY <1>1, <1>2, <1>4, <1>5, Zenon DEF Mac

LEMMA DigestStarts ==
    ASSUME NEW k, NEW mac
    PROVE  MaybeStartDigest(k, mac, TRUE) = <<Hash(k, <<mac>>)>>
<1>1. GetContext(k) = <<Hash(k, <<>>)>>
  BY DEF GetContext, Hash
<1>2. Append(<<>>, mac) = <<mac>>
  OBVIOUS
<1>3. Update(<<Hash(k, <<>>)>>, mac) = <<Hash(k, Append(<<>>, mac))>>
  BY DigestsAre
<1> QED
  BY <1>1, <1>2, <1>3, Zenon DEF MaybeStartDigest

LEMMA RequestMacIs == RequestMac = Hash(ClientKey, <<"request">>)
<1>1. Update(GetContext(ClientKey), "request") = <<Hash(ClientKey, <<"request">>)>>
  BY DigestStarts DEF MaybeStartDigest
<1>2. Mac(<<Hash(ClientKey, <<"request">>)>>) = Hash(ClientKey, <<"request">>)
  BY DigestsAre
<1> QED
  BY <1>1, <1>2 DEF RequestMac

LEMMA SinceIs ==
    ASSUME NEW msgs, NEW numbers \in Seq(Nat), NEW l \in Nat, 1 <= l, l <= Len(numbers)
    PROVE  /\ \E S : Since(msgs, l, numbers) \in Seq(S)
           /\ Len(Since(msgs, l, numbers)) = Len(numbers) - l + 1
           /\ Since(msgs, l, numbers)[1] = MacOf(msgs, l)
           /\ \A j \in 2 .. Len(numbers) - l + 1 :
                  Since(msgs, l, numbers)[j] = WireOf(msgs, numbers[l + j - 1])
<1> DEFINE s == Since(msgs, l, numbers)
           n == Len(numbers) - l + 1
<1>1. n \in Nat /\ n >= 1
  OBVIOUS
<1>2. n = Len(numbers) - l + 1
  OBVIOUS
<1> HIDE DEF n
<1>3. s = [j \in 1 .. n |-> IF j = 1 THEN MacOf(msgs, l) ELSE WireOf(msgs, numbers[l + j - 1])]
  BY <1>2 DEF Since
<1>4. s \in Seq({s[j] : j \in 1 .. n})
  <2>1. s \in [1 .. n -> {s[j] : j \in 1 .. n}]
    BY <1>3
  <2> QED
    BY <1>1, <2>1, SeqDef
<1>5. Len(s) = n
  BY <1>1, <1>3, <1>4, LenProperties
<1> HIDE DEF s
<1>6. s[1] = MacOf(msgs, l) /\ \A j \in 2 .. n : s[j] = WireOf(msgs, numbers[l + j - 1])
  BY <1>1, <1>3
<1>7. \E S : s \in Seq(S)
  BY <1>4
<1> QED
  BY <1>2, <1>5, <1>6, <1>7 DEF s

LEMMA SinceGrows ==
    ASSUME NEW msgs, NEW numbers \in Seq(Nat), NEW l \in Nat, 1 <= l, l <= Len(numbers),
           NEW n \in Nat
    PROVE  Append(Since(msgs, l, numbers), WireOf(msgs, n)) = Since(msgs, l, Append(numbers, n))
<1> DEFINE s == Since(msgs, l, numbers)
           more == Append(numbers, n)
           t == Since(msgs, l, more)
           w == WireOf(msgs, n)
           k == Len(numbers) - l + 1
<1>1. k \in Nat /\ k >= 1 /\ k = Len(numbers) - l + 1 /\ Len(numbers) \in Nat
  OBVIOUS
<1> HIDE DEF k, w
<1>2. more \in Seq(Nat) /\ Len(more) = Len(numbers) + 1 /\ more[Len(numbers) + 1] = n
      /\ \A j \in 1 .. Len(numbers) : more[j] = numbers[j]
  OBVIOUS
<1>3. PICK S : s \in Seq(S)
  BY SinceIs
<1>4. Len(s) = k /\ s[1] = MacOf(msgs, l)
      /\ \A j \in 2 .. k : s[j] = WireOf(msgs, numbers[l + j - 1])
  BY <1>1, SinceIs
<1>5. PICK T : t \in Seq(T)
  <2>1. l <= Len(more)
    BY <1>1, <1>2
  <2> HIDE DEF more
  <2> QED
    BY <1>2, <2>1, SinceIs
<1>6. Len(t) = k + 1 /\ t[1] = MacOf(msgs, l)
      /\ \A j \in 2 .. k + 1 : t[j] = WireOf(msgs, more[l + j - 1])
  <2>1. l <= Len(more)
    BY <1>1, <1>2
  <2>2. Len(more) - l + 1 = k + 1
    BY <1>1, <1>2
  <2> HIDE DEF more
  <2>3. /\ Len(t) = Len(more) - l + 1 /\ t[1] = MacOf(msgs, l)
        /\ \A j \in 2 .. Len(more) - l + 1 : t[j] = WireOf(msgs, more[l + j - 1])
    BY <1>2, <2>1, SinceIs
  <2> HIDE DEF t
  <2> QED
    BY <2>2, <2>3
<1>7. s \in Seq(S \cup {w}) /\ Append(s, w) \in Seq(S \cup {w}) /\ Len(Append(s, w)) = k + 1
      /\ Append(s, w)[k + 1] = w /\ \A j \in 1 .. k : Append(s, w)[j] = s[j]
  BY <1>3, <1>4
<1> HIDE DEF s, t, more, w
<1>8. \A j \in 1 .. k + 1 : Append(s, w)[j] = t[j]
  <2> SUFFICES ASSUME NEW j \in 1 .. k + 1 PROVE Append(s, w)[j] = t[j]
    OBVIOUS
  <2>1. CASE j = 1
    BY <1>1, <1>4, <1>6, <1>7, <2>1
  <2>2. CASE j \in 2 .. k
    <3>1. l + j - 1 \in 1 .. Len(numbers)
      BY <1>1, <2>2
    <3>2. more[l + j - 1] = numbers[l + j - 1]
      BY <1>2, <3>1
    <3>3. t[j] = WireOf(msgs, more[l + j - 1])
      BY <1>6, <2>2
    <3>4. s[j] = WireOf(msgs, numbers[l + j - 1])
      BY <1>4, <2>2
    <3> QED
      BY <1>7, <2>2, <3>2, <3>3, <3>4
  <2>3. CASE j = k + 1 /\ k # 0
    <3>1. l + j - 1 = Len(numbers) + 1
      BY <1>1, <2>3
    <3>3. j \in 2 .. k + 1
      BY <1>1, <2>3
    <3>2. t[j] = WireOf(msgs, more[l + j - 1])
      BY <1>6, <3>3
    <3> QED
      BY <1>2, <1>7, <2>3, <3>1, <3>2 DEF w
  <2>4. j = 1 \/ j \in 2 .. k \/ (j = k + 1 /\ k # 0)
    BY <1>1
  <2> QED
    BY <2>1, <2>2, <2>3, <2>4
<1>9. Append(s, w) = t
  BY <1>5, <1>6, <1>7, <1>8, SeqEqual
<1> QED
  BY <1>9 DEF s, t, w, more

LEMMA SinceStarts ==
    ASSUME NEW msgs, NEW numbers \in Seq(Nat), Len(numbers) >= 1
    PROVE  Since(msgs, Len(numbers), numbers) = <<MacOf(msgs, Len(numbers))>>
  BY DEF Since

LEMMA SinceSame ==
    ASSUME NEW msgs, NEW more, NEW numbers \in Seq(Nat), NEW l \in 1 .. Len(numbers),
           MacOf(more, l) = MacOf(msgs, l),
           \A j \in l + 1 .. Len(numbers) : WireOf(more, numbers[j]) = WireOf(msgs, numbers[j])
    PROVE  Since(more, l, numbers) = Since(msgs, l, numbers)
<1>1. \A j \in 2 .. Len(numbers) - l + 1 :
          WireOf(more, numbers[l + j - 1]) = WireOf(msgs, numbers[l + j - 1])
  <2> SUFFICES ASSUME NEW j \in 2 .. Len(numbers) - l + 1
               PROVE  WireOf(more, numbers[l + j - 1]) = WireOf(msgs, numbers[l + j - 1])
    OBVIOUS
  <2>1. l + j - 1 \in l + 1 .. Len(numbers)
    OBVIOUS
  <2> QED
    BY <2>1
<1>2. \A j \in 1 .. Len(numbers) - l + 1 :
          (IF j = 1 THEN MacOf(more, l) ELSE WireOf(more, numbers[l + j - 1]))
          = (IF j = 1 THEN MacOf(msgs, l) ELSE WireOf(msgs, numbers[l + j - 1]))
  BY <1>1
<1> QED
  BY <1>2, Zenon DEF Since

LEMMA SinceStays ==
    ASSUME NEW msgs, NEW more, NEW numbers \in Seq(Nat), NEW l \in 1 .. Len(numbers),
           more[l] = msgs[l], \A i \in 1 .. Len(numbers) : more[numbers[i]] = msgs[numbers[i]]
    PROVE  Since(more, l, numbers) = Since(msgs, l, numbers)
<1>1. MacOf(more, l) = MacOf(msgs, l)
  BY DEF MacOf
<1>2. \A j \in l + 1 .. Len(numbers) : WireOf(more, numbers[j]) = WireOf(msgs, numbers[j])
  <2>1. \A j \in l + 1 .. Len(numbers) : j \in 1 .. Len(numbers)
    OBVIOUS
  <2> QED
    BY <2>1 DEF WireOf
<1> QED
  BY <1>1, <1>2, SinceSame

LEMMA FirstMacIs ==
    ASSUME NEW msgs, NEW k, NEW i
    PROVE  LET d == FirstMac(k, msgs, i).data
           IN /\ FirstMac(k, msgs, i) = Hash(k, d)
              /\ Len(d) = 6 /\ d[1] = RequestMac /\ d[3] = k.name
<1> DEFINE r == msgs[i].tsig[1]
           e == <<SignedWireOf(msgs, i), k.name, k.algorithm, TimesOf(msgs, i), <<r.error, r.other>>>>
           T == {RequestMac, SignedWireOf(msgs, i), k.name, k.algorithm, TimesOf(msgs, i),
                 <<r.error, r.other>>}
<1>1. FirstMac(k, msgs, i).data = <<RequestMac>> \o e
  BY DEF FirstMac, Hash
<1>2. <<RequestMac>> \in Seq(T) /\ Len(<<RequestMac>>) = 1 /\ <<RequestMac>>[1] = RequestMac
  OBVIOUS
<1>3. e \in Seq(T) /\ Len(e) = 5 /\ e[2] = k.name
  OBVIOUS
<1> DEFINE f == <<RequestMac>>
<1> HIDE DEF e, f, T
<1>6. f \in Seq(T) /\ Len(f) = 1 /\ f[1] = RequestMac
  BY <1>2 DEF f
<1>7. /\ Len(f \o e) = Len(f) + Len(e)
      /\ \A j \in 1 .. Len(f) + Len(e) :
             (f \o e)[j] = IF j <= Len(f) THEN f[j] ELSE e[j - Len(f)]
  BY <1>3, <1>6, ConcatProperties
<1>4. Len(<<RequestMac>> \o e) = 6 /\ (<<RequestMac>> \o e)[1] = RequestMac
  BY <1>3, <1>6, <1>7 DEF f
<1>5. (<<RequestMac>> \o e)[3] = e[2]
  BY <1>3, <1>6, <1>7 DEF f
<1> QED
  BY <1>1, <1>3, <1>4, <1>5 DEF FirstMac, Hash

\* What a later signature is of tells the signature before it and how many
\* messages are since.
LEMMA LaterMacIs ==
    ASSUME NEW msgs, NEW k, NEW numbers \in Seq(Nat), NEW l \in 1 .. Len(numbers), NEW i
    PROVE  /\ LaterMac(k, msgs, l, numbers, i).secret = k.secret
           /\ LaterMac(k, msgs, l, numbers, i).algorithm = k.algorithm
           /\ LaterMac(k, msgs, l, numbers, i).data[1] = MacOf(msgs, l)
           /\ Len(LaterMac(k, msgs, l, numbers, i).data) = Len(numbers) - l + 3
<1> DEFINE s == Since(msgs, l, numbers)
           e == <<SignedWireOf(msgs, i), TimesOf(msgs, i)>>
           mac == LaterMac(k, msgs, l, numbers, i)
<1>1. mac.secret = k.secret /\ mac.algorithm = k.algorithm /\ mac.data = s \o e
  BY DEF LaterMac, Hash
<1>2. PICK S : s \in Seq(S)
  BY SinceIs
<1>3. Len(s) = Len(numbers) - l + 1 /\ s[1] = MacOf(msgs, l)
  BY SinceIs
<1> HIDE DEF s
<1>4. Len(s) >= 1 /\ Len(s) \in Nat
  BY <1>3
<1>5. Len(s \o e) = Len(s) + 2 /\ (s \o e)[1] = s[1]
  <2> DEFINE T == S \cup {SignedWireOf(msgs, i), TimesOf(msgs, i)}
  <2>1. s \in Seq(T) /\ e \in Seq(T) /\ Len(e) = 2
    BY <1>2
  <2> QED
    BY <1>4, <2>1, ConcatProperties
<1> HIDE DEF e, mac
<1> QED
  BY <1>1, <1>3, <1>5 DEF mac

\* and what each of these was when it was digested.
LEMMA LaterMacsEqual ==
    ASSUME NEW msgs, NEW more, NEW numbers \in Seq(Nat), NEW l \in 1 .. Len(numbers),
           NEW k, NEW k2, NEW i, NEW i2,
           LaterMac(k, msgs, l, numbers, i) = LaterMac(k2, more, l, numbers, i2)
    PROVE  \A j \in l + 1 .. Len(numbers) : WireOf(msgs, numbers[j]) = WireOf(more, numbers[j])
<1> DEFINE a == Since(msgs, l, numbers)
           b == Since(more, l, numbers)
           e == <<SignedWireOf(msgs, i), TimesOf(msgs, i)>>
           f == <<SignedWireOf(more, i2), TimesOf(more, i2)>>
           n == Len(numbers) - l + 1
<1>1. a \o e = b \o f
  BY DEF LaterMac, Hash
<1>2. /\ \E S : a \in Seq(S)
      /\ Len(a) = n /\ \A j \in 2 .. n : a[j] = WireOf(msgs, numbers[l + j - 1])
  BY SinceIs
<1>3. /\ \E S : b \in Seq(S)
      /\ Len(b) = n /\ \A j \in 2 .. n : b[j] = WireOf(more, numbers[l + j - 1])
  BY SinceIs
<1>4. \E S : e \in Seq(S)
  <2>1. e \in Seq({SignedWireOf(msgs, i), TimesOf(msgs, i)})
    OBVIOUS
  <2> QED
    BY <2>1
<1>5. \E S : f \in Seq(S)
  <2>1. f \in Seq({SignedWireOf(more, i2), TimesOf(more, i2)})
    OBVIOUS
  <2> QED
    BY <2>1
<1> HIDE DEF a, b, e, f
<1>6. ASSUME NEW u, NEW v, \E S : u \in Seq(S), \E S : v \in Seq(S), NEW j \in 1 .. Len(u)
      PROVE  (u \o v)[j] = u[j]
  <2>1. PICK S : u \in Seq(S)
    BY <1>6
  <2>2. PICK T : v \in Seq(T)
    BY <1>6
  <2>3. u \in Seq(S \cup T) /\ v \in Seq(S \cup T)
    BY <2>1, <2>2
  <2> QED
    BY <1>6, <2>3, ConcatProperties
<1>7. \A j \in 1 .. n : a[j] = b[j]
  BY <1>1, <1>2, <1>3, <1>4, <1>5, <1>6
<1>8. ASSUME NEW j \in l + 1 .. Len(numbers)
      PROVE  WireOf(msgs, numbers[j]) = WireOf(more, numbers[j])
  <2> DEFINE h == j - l + 1
  <2>1. h \in 2 .. n /\ h \in 1 .. n /\ l + h - 1 = j
    OBVIOUS
  <2> HIDE DEF h, n
  <2>2. a[h] = WireOf(msgs, numbers[l + h - 1]) /\ b[h] = WireOf(more, numbers[l + h - 1])
    BY <1>2, <1>3, <2>1
  <2> QED
    BY <1>7, <2>1, <2>2
<1> QED
  BY <1>8

\* The first signature starts from the mac of the request, which is no
\* signature of the server.
LEMMA FirstIsNotRequest ==
    ASSUME NEW msgs, NEW k, NEW i
    PROVE  FirstMac(k, msgs, i).data[1] = RequestMac /\ FirstMac(k, msgs, i) # RequestMac
<1>1. Len(RequestMac.data) = 1
  BY RequestMacIs DEF Hash
<1> QED
  BY <1>1, FirstMacIs

LEMMA LaterIsNotRequest ==
    ASSUME NEW msgs, NEW k, NEW numbers \in Seq(Nat), NEW l \in 1 .. Len(numbers), NEW i
    PROVE  LaterMac(k, msgs, l, numbers, i) # RequestMac
<1>1. Len(RequestMac.data) = 1
  BY RequestMacIs DEF Hash
<1>2. /\ LaterMac(k, msgs, l, numbers, i).data[1] = MacOf(msgs, l)
      /\ Len(LaterMac(k, msgs, l, numbers, i).data) = Len(numbers) - l + 3
  BY LaterMacIs
<1>3. Len(numbers) - l + 3 # 1
  OBVIOUS
<1> QED
  BY <1>1, <1>2, <1>3

LEMMA FirstMacsEqual ==
    ASSUME NEW msgs, NEW k, NEW i, NEW k2, NEW i2, KeyType(k), KeyType(k2),
           FirstMac(k, msgs, i) = FirstMac(k2, msgs, i2)
    PROVE  k = k2
<1>1. FirstMac(k, msgs, i).data = FirstMac(k2, msgs, i2).data
      /\ k.secret = k2.secret /\ k.algorithm = k2.algorithm
  BY FirstMacIs DEF FirstMac, Hash
<1>2. k.name = k2.name
  BY <1>1, FirstMacIs
<1> QED
  BY <1>1, <1>2 DEF KeyType

\* What _digest() makes of messages.
LEMMA DigestOfFirst ==
    ASSUME NEW m, NEW k, NEW r
    PROVE  Mac(DigestOf(m, k, r, RequestMac, NoContext, TRUE))
           = Hash(k, <<RequestMac>> \o
                       <<<<r.original_id, m.body>>, k.name, k.algorithm,
                         <<"times", r.time_signed, r.fudge>>, <<r.error, r.other>>>>)
<1> DEFINE items == <<<<r.original_id, m.body>>, k.name, k.algorithm,
                      <<"times", r.time_signed, r.fudge>>, <<r.error, r.other>>>>
<1>1. RequestMac # NoMac
  <2>1. "data" \in DOMAIN RequestMac
    BY RequestMacIs DEF Hash
  <2>2. "data" \notin DOMAIN NoMac
    BY DEF NoMac
  <2> QED
    BY <2>1, <2>2
<1>2. Update(GetContext(k), RequestMac) = <<Hash(k, <<RequestMac>>)>>
  BY DigestStarts DEF MaybeStartDigest
<1> HIDE DEF items
<1>3. DigestOf(m, k, r, RequestMac, NoContext, TRUE) = UpdatedWith(<<Hash(k, <<RequestMac>>)>>, items)
  BY <1>1, <1>2 DEF DigestOf, IsFirst, items, SignedWire
<1>4. UpdatedWith(<<Hash(k, <<RequestMac>>)>>, items) = <<Hash(k, <<RequestMac>> \o items)>>
  BY DigestsAre
<1>5. Mac(<<Hash(k, <<RequestMac>> \o items)>>) = Hash(k, <<RequestMac>> \o items)
  BY DigestsAre
<1> QED
  BY <1>3, <1>4, <1>5 DEF items

LaterHash(k, items, m, r) ==
    Hash(k, items \o <<<<r.original_id, m.body>>, <<"times", r.time_signed, r.fudge>>>>)

IsDigest(ctx, k, items) == ctx = <<Hash(k, items)>>

LEMMA DigestOfLater ==
    ASSUME NEW m, NEW k, NEW r, NEW ctx, NEW k2, NEW d, IsDigest(ctx, k2, d)
    PROVE  Mac(DigestOf(m, k, r, RequestMac, ctx, TRUE)) = LaterHash(k2, d, m, r)
<1> DEFINE items == <<<<r.original_id, m.body>>, <<"times", r.time_signed, r.fudge>>>>
<1>5. ctx = <<Hash(k2, d)>>
  BY DEF IsDigest
<1>1. ctx # NoContext
  BY <1>5 DEF NoContext
<1> HIDE DEF items
<1>2. DigestOf(m, k, r, RequestMac, ctx, TRUE) = UpdatedWith(ctx, items)
  BY <1>1 DEF DigestOf, IsFirst, items, SignedWire
<1>3. UpdatedWith(ctx, items) = <<Hash(k2, d \o items)>>
  BY <1>5, DigestsAre
<1>4. Mac(<<Hash(k2, d \o items)>>) = Hash(k2, d \o items)
  BY DigestsAre
<1> QED
  BY <1>2, <1>3, <1>4 DEF LaterHash, items

-----------------------------------------------------------------------------
(* What stays as messages are sent                                          *)

LEMMA FirstNumbersAre ==
    ASSUME NEW n \in Nat
    PROVE  /\ FirstNumbers(n) \in Seq(Nat) /\ Len(FirstNumbers(n)) = n
           /\ \A i \in 1 .. n : FirstNumbers(n)[i] = i
           /\ Append(FirstNumbers(n), n + 1) = FirstNumbers(n + 1)
<1>1. \A m \in Nat : /\ FirstNumbers(m) \in Seq(Nat) /\ Len(FirstNumbers(m)) = m
                     /\ \A i \in 1 .. m : FirstNumbers(m)[i] = i
  BY SeqDef DEF FirstNumbers
<1> DEFINE a == FirstNumbers(n)
           b == FirstNumbers(n + 1)
<1>2. a \in Seq(Nat) /\ Len(a) = n /\ b \in Seq(Nat) /\ Len(b) = n + 1
  BY <1>1
<1>3. (\A i \in 1 .. n : a[i] = i) /\ (\A i \in 1 .. n + 1 : b[i] = i)
  BY <1>1
<1> HIDE DEF a, b
<1>4. Append(a, n + 1) = b
  BY <1>2, <1>3, SeqEqual
<1> QED
  BY <1>1, <1>4 DEF a, b

LEMMA MessagesStay ==
    ASSUME NEW msgs, NEW more, NEW n \in Nat, \A i \in 1 .. n : more[i] = msgs[i]
    PROVE  /\ \A i \in 1 .. n : /\ Signed(more, i) <=> Signed(msgs, i)
                                /\ MacOf(more, i) = MacOf(msgs, i)
                                /\ \A k : FirstMac(k, more, i) = FirstMac(k, msgs, i)
           /\ \A l \in 1 .. n, m \in 0 .. n : IsLastSigned(more, l, m) <=> IsLastSigned(msgs, l, m)
<1>1. \A i \in 1 .. n : Signed(more, i) <=> Signed(msgs, i)
  BY DEF Signed
<1>2. \A i \in 1 .. n : MacOf(more, i) = MacOf(msgs, i)
  BY DEF MacOf
<1>3. \A i \in 1 .. n : \A k : FirstMac(k, more, i) = FirstMac(k, msgs, i)
  BY Zenon DEF FirstMac, SignedWireOf, TimesOf
<1>4. ASSUME NEW l \in 1 .. n, NEW m \in 0 .. n
      PROVE  IsLastSigned(more, l, m) <=> IsLastSigned(msgs, l, m)
  <2>1. \A j \in l + 1 .. m : j \in 1 .. n
    OBVIOUS
  <2> QED
    BY <1>1, <2>1 DEF IsLastSigned
<1> QED
  BY <1>1, <1>2, <1>3, <1>4

LEMMA LaterMacStays ==
    ASSUME NEW msgs, NEW more, NEW numbers \in Seq(Nat), NEW l \in 1 .. Len(numbers), NEW k, NEW i,
           more[l] = msgs[l], more[i] = msgs[i],
           \A j \in 1 .. Len(numbers) : more[numbers[j]] = msgs[numbers[j]]
    PROVE  LaterMac(k, more, l, numbers, i) = LaterMac(k, msgs, l, numbers, i)
<1>1. Since(more, l, numbers) = Since(msgs, l, numbers)
  BY SinceStays
<1>2. SignedWireOf(more, i) = SignedWireOf(msgs, i) /\ TimesOf(more, i) = TimesOf(msgs, i)
  BY DEF SignedWireOf, TimesOf
<1> QED
  BY <1>1, <1>2 DEF LaterMac

\* The l-th of the first messages is the last that is signed: there is one.
LEMMA LastSignedIsOne ==
    ASSUME NEW msgs, NEW n \in Nat, NEW l, NEW l2,
           IsLastSigned(msgs, l, n), IsLastSigned(msgs, l2, n)
    PROVE  l = l2
  BY DEF IsLastSigned

-----------------------------------------------------------------------------
(* The stream and its numbers                                               *)

HaveNumbers(msgs) ==
    (\E S : msgs \in Seq(S)) /\ \A j \in 1 .. Len(msgs) : msgs[j].number \in Nat

Continues(all, numbers, msgs) ==
    /\ all \in Seq(Nat) /\ Len(all) = Len(numbers) + Len(msgs)
    /\ \A i \in 1 .. Len(numbers) : all[i] = numbers[i]
    /\ \A j \in 1 .. Len(msgs) : all[Len(numbers) + j] = msgs[j].number

LEMMA NumbersAre ==
    ASSUME NEW numbers \in Seq(Nat), NEW msgs, HaveNumbers(msgs)
    PROVE  Continues(NumbersOf(numbers, msgs), numbers, msgs)
<1> DEFINE rest == [i \in DOMAIN msgs |-> msgs[i].number]
           all == NumbersOf(numbers, msgs)
<1>7. (\E S : msgs \in Seq(S)) /\ \A j \in 1 .. Len(msgs) : msgs[j].number \in Nat
  BY DEF HaveNumbers
<1>1. Len(msgs) \in Nat /\ DOMAIN msgs = 1 .. Len(msgs) /\ Len(numbers) \in Nat
  BY <1>7
<1>2. rest \in Seq(Nat) /\ Len(rest) = Len(msgs)
      /\ \A j \in 1 .. Len(msgs) : rest[j] = msgs[j].number
  BY <1>1, <1>7, SeqDef
<1>3. all = numbers \o rest
  BY DEF NumbersOf
<1> HIDE DEF rest, all
<1>4. /\ all \in Seq(Nat) /\ Len(all) = Len(numbers) + Len(rest)
      /\ \A i \in 1 .. Len(numbers) + Len(rest) :
             all[i] = IF i <= Len(numbers) THEN numbers[i] ELSE rest[i - Len(numbers)]
  <2>1. /\ numbers \o rest \in Seq(Nat) /\ Len(numbers \o rest) = Len(numbers) + Len(rest)
        /\ \A i \in 1 .. Len(numbers) + Len(rest) :
               (numbers \o rest)[i] = IF i <= Len(numbers) THEN numbers[i] ELSE rest[i - Len(numbers)]
    BY <1>2, ConcatProperties
  <2> QED
    BY <1>3, <2>1
<1>5. \A i \in 1 .. Len(numbers) : all[i] = numbers[i]
  BY <1>1, <1>2, <1>4
<1>6. ASSUME NEW j \in 1 .. Len(msgs) PROVE all[Len(numbers) + j] = msgs[j].number
  <2> DEFINE i == Len(numbers) + j
  <2>1. i \in 1 .. Len(numbers) + Len(msgs) /\ ~(i <= Len(numbers)) /\ i - Len(numbers) = j
    BY <1>1
  <2> HIDE DEF i
  <2>2. all[i] = rest[j]
    BY <1>2, <1>4, <2>1
  <2> QED
    BY <1>2, <2>2 DEF i
<1> QED
  BY <1>2, <1>4, <1>5, <1>6 DEF all, Continues

LEMMA GrowInOrder ==
    ASSUME NEW a, NEW b, NEW n \in Nat, NEW c \in Nat, AreInOrder(a, n), Len(a) = c, Len(b) = c + 1,
           b[c + 1] = n + 1, \A i \in 1 .. c : a[i] \in Nat, \A i \in 1 .. c : b[i] = a[i]
    PROVE  AreInOrder(b, n + 1)
<1>1. c <= n
  BY DEF AreInOrder
<1>2. \A i \in 1 .. c : a[i] >= i /\ a[i] - i <= n - c
  BY DEF AreInOrder
<1>3. \A i, j \in 1 .. c : i <= j => a[i] - i <= a[j] - j
  BY DEF AreInOrder
<1>4. ASSUME NEW i \in 1 .. c + 1
      PROVE  b[i] \in Nat /\ b[i] >= i /\ b[i] - i <= n - c
  <2>1. CASE i = c + 1
    BY <1>1, <2>1
  <2>2. CASE i \in 1 .. c
    BY <1>2, <2>2
  <2> QED
    BY <2>1, <2>2
<1>5. \A i \in 1 .. c + 1 : b[i] >= i /\ b[i] - i <= (n + 1) - (c + 1)
  <2>1. n - c = (n + 1) - (c + 1)
    OBVIOUS
  <2> QED
    BY <1>4, <2>1
<1>6. ASSUME NEW i \in 1 .. c + 1, NEW j \in 1 .. c + 1, i <= j PROVE b[i] - i <= b[j] - j
  <2>1. CASE j = c + 1
    <3>1. b[j] - j = n - c
      BY <2>1
    <3> QED
      BY <1>4, <3>1
  <2>2. CASE j \in 1 .. c
    <3>1. i \in 1 .. c
      BY <1>6, <2>2
    <3>2. a[i] - i <= a[j] - j
      BY <1>3, <1>6, <2>2, <3>1
    <3> QED
      BY <2>2, <3>1, <3>2
  <2> QED
    BY <2>1, <2>2
<1>7. c + 1 <= n + 1
  BY <1>1
<1> QED
  BY <1>5, <1>6, <1>7, Zenon DEF AreInOrder

LEMMA LoseInOrder ==
    ASSUME NEW a, NEW b, NEW n \in Nat, NEW c \in Nat, AreInOrder(a, n), Len(a) = c + 1, Len(b) = c,
           \A i \in 1 .. c + 1 : a[i] \in Nat,
           NEW l \in 1 .. c + 1, \A i \in 1 .. c : b[i] = a[IF i < l THEN i ELSE i + 1]
    PROVE  AreInOrder(b, n)
<1>1. c + 1 <= n
  BY DEF AreInOrder
<1>2. \A i \in 1 .. c + 1 : a[i] >= i /\ a[i] - i <= n - (c + 1)
  BY DEF AreInOrder
<1>3. \A i, j \in 1 .. c + 1 : i <= j => a[i] - i <= a[j] - j
  BY DEF AreInOrder
<1> DEFINE at(i) == IF i < l THEN i ELSE i + 1
<1>4. \A i \in 1 .. c : at(i) \in 1 .. c + 1 /\ b[i] = a[at(i)]
  OBVIOUS
<1>5. \A i \in 1 .. c : i <= at(i) /\ at(i) <= i + 1
  OBVIOUS
<1>6. \A i, j \in 1 .. c : i <= j => at(i) <= at(j) /\ at(i) - i <= at(j) - j
  OBVIOUS
<1> HIDE DEF at
<1>7. ASSUME NEW i \in 1 .. c
      PROVE  b[i] >= i /\ b[i] - i <= n - c
  <2> DEFINE v == a[at(i)]
             p == at(i)
  <2>1. p \in 1 .. c + 1 /\ i <= p /\ p <= i + 1 /\ b[i] = v
    BY <1>4, <1>5
  <2>2. v \in Nat /\ v >= p /\ v - p <= n - (c + 1)
    BY <1>2, <2>1
  <2> HIDE DEF v, p
  <2> QED
    BY <2>1, <2>2
<1>8. ASSUME NEW i \in 1 .. c, NEW j \in 1 .. c, i <= j PROVE b[i] - i <= b[j] - j
  <2> DEFINE p == at(i)
             q == at(j)
             v == a[at(i)]
             w == a[at(j)]
  <2>1. p \in 1 .. c + 1 /\ q \in 1 .. c + 1 /\ p <= q /\ p - i <= q - j /\ b[i] = v /\ b[j] = w
    BY <1>4, <1>6, <1>8
  <2>2. v \in Nat /\ w \in Nat /\ v - p <= w - q
    BY <1>3, <2>1
  <2> HIDE DEF v, p, w, q
  <2> QED
    BY <2>1, <2>2
<1>9. c <= n
  BY <1>1
<1> QED
  BY <1>7, <1>8, <1>9, Zenon DEF AreInOrder

\* Messages in order are all of them when they are as many.
LEMMA WholeByLength ==
    ASSUME NEW a \in Seq(Nat), NEW n \in Nat, AreInOrder(a, n)
    PROVE  /\ a = FirstNumbers(n) <=> Len(a) = n
           /\ \A i \in 1 .. Len(a) : a[i] \in 1 .. n
           /\ \A j \in 1 .. Len(a) : a[j] = j => \A i \in 1 .. j : a[i] = i
           /\ Len(a) = n => \A i \in 1 .. n : a[i] = i
<1>1. Len(a) \in Nat /\ \A i \in 1 .. Len(a) : a[i] \in Nat
  OBVIOUS
<1>2. FirstNumbers(n) \in Seq(Nat) /\ Len(FirstNumbers(n)) = n
      /\ \A i \in 1 .. n : FirstNumbers(n)[i] = i
  BY FirstNumbersAre
<1>3. \A i \in 1 .. Len(a) : a[i] >= i /\ a[i] - i <= n - Len(a)
  BY DEF AreInOrder
<1>4. \A i, j \in 1 .. Len(a) : i <= j => a[i] - i <= a[j] - j
  BY DEF AreInOrder
<1>5. Len(a) = n => \A i \in 1 .. n : a[i] = i
  BY <1>1, <1>3
<1>6. a = FirstNumbers(n) => Len(a) = n
  BY <1>2
<1>7. Len(a) = n => a = FirstNumbers(n)
  BY <1>2, <1>5, SeqEqual
<1>8. ASSUME NEW i \in 1 .. Len(a) PROVE a[i] \in 1 .. n
  BY <1>1, <1>3
<1>9. ASSUME NEW j \in 1 .. Len(a), a[j] = j, NEW i \in 1 .. j PROVE a[i] = i
  <2>1. i \in 1 .. Len(a) /\ i <= j
    BY <1>1
  <2>2. a[i] - i <= a[j] - j /\ a[i] >= i /\ a[i] \in Nat
    BY <1>1, <1>3, <1>4, <2>1
  <2> QED
    BY <1>9, <2>2
<1> QED
  BY <1>5, <1>6, <1>7, <1>8, <1>9

-----------------------------------------------------------------------------
(* The steps                                                                *)

\* The signature of one more message differs from those before it.
LEMMA NewMacDiffers ==
    ASSUME NEW msgs, NEW n \in Nat, NEW k, n >= 2,
           NEW l \in 1 .. n - 1, Signed(msgs, l),
           MacOf(msgs, n) = LaterMac(k, msgs, l, FirstNumbers(n - 1), n),
           \A i \in 1 .. n - 1 :
               Signed(msgs, i) =>
                   IF i = 1 THEN MacOf(msgs, i) = FirstMac(k, msgs, i)
                   ELSE \E h \in 1 .. i - 1 :
                           /\ IsLastSigned(msgs, h, i - 1)
                           /\ MacOf(msgs, i) = LaterMac(k, msgs, h, FirstNumbers(i - 1), i),
           \A i, j \in 1 .. n - 1 :
               Signed(msgs, i) /\ Signed(msgs, j) /\ MacOf(msgs, i) = MacOf(msgs, j) => i = j
    PROVE  \A i \in 1 .. n - 1 : Signed(msgs, i) => MacOf(msgs, i) # MacOf(msgs, n)
<1>1. \A m \in Nat : FirstNumbers(m) \in Seq(Nat) /\ Len(FirstNumbers(m)) = m
  BY FirstNumbersAre
<1> SUFFICES ASSUME NEW i \in 1 .. n - 1, Signed(msgs, i), MacOf(msgs, i) = MacOf(msgs, n)
             PROVE  FALSE
  OBVIOUS
<1> DEFINE to == FirstNumbers(n - 1)
<1>2. to \in Seq(Nat) /\ Len(to) = n - 1
  BY <1>1
<1>3. MacOf(msgs, n) = LaterMac(k, msgs, l, to, n)
  OBVIOUS
<1> HIDE DEF to
<1>4. \A j : LaterMac(k, msgs, l, to, j).data[1] = MacOf(msgs, l)
  BY <1>2, LaterMacIs
<1>5. CASE i = 1
  <2>1. MacOf(msgs, l) = RequestMac
    BY <1>3, <1>4, <1>5, FirstIsNotRequest
  <2>2. CASE l = 1
    BY <2>1, <2>2, FirstIsNotRequest
  <2>3. CASE l # 1
    <3>1. PICK h \in 1 .. l - 1 : MacOf(msgs, l) = LaterMac(k, msgs, h, FirstNumbers(l - 1), l)
      BY <2>3
    <3> DEFINE low == FirstNumbers(l - 1)
    <3>2. low \in Seq(Nat) /\ Len(low) = l - 1
      <4>1. l - 1 \in Nat
        BY <2>3
      <4> QED
        BY <1>1, <4>1
    <3>3. MacOf(msgs, l) = LaterMac(k, msgs, h, low, l)
      BY <3>1
    <3> HIDE DEF low
    <3>4. h \in 1 .. Len(low)
      BY <3>2
    <3>5. LaterMac(k, msgs, h, low, l) # RequestMac
      BY <3>2, <3>4, LaterIsNotRequest
    <3> QED
      BY <2>1, <3>3, <3>5
  <2> QED
    BY <2>2, <2>3
<1>6. CASE i # 1
  <2>1. PICK h \in 1 .. i - 1 : /\ IsLastSigned(msgs, h, i - 1)
                                /\ MacOf(msgs, i) = LaterMac(k, msgs, h, FirstNumbers(i - 1), i)
    BY <1>6
  <2> DEFINE low == FirstNumbers(i - 1)
  <2>2. low \in Seq(Nat) /\ Len(low) = i - 1
    <3>1. i - 1 \in Nat
      BY <1>6
    <3> QED
      BY <1>1, <3>1
  <2>3. LaterMac(k, msgs, h, low, i) = LaterMac(k, msgs, l, to, n)
    BY <1>3, <2>1
  <2> HIDE DEF low
  <2>4. /\ LaterMac(k, msgs, h, low, i).data[1] = MacOf(msgs, h)
        /\ Len(LaterMac(k, msgs, h, low, i).data) = Len(low) - h + 3
    BY <2>2, LaterMacIs, SMTT(30)
  <2>5. Len(LaterMac(k, msgs, l, to, n).data) = Len(to) - l + 3
    BY <1>2, LaterMacIs
  <2>6. h \in 1 .. n - 1 /\ Signed(msgs, h)
    BY <2>1 DEF IsLastSigned
  <2>7. MacOf(msgs, h) = MacOf(msgs, l)
    BY <1>4, <2>3, <2>4
  <2>8. h = l
    BY <2>6, <2>7
  <2>9. i - 1 - h + 3 = n - 1 - l + 3
    BY <1>2, <2>2, <2>3, <2>4, <2>5
  <2> QED
    BY <2>8, <2>9
<1> QED
  BY <1>5, <1>6

\* A server sends a message whose signature, if it has one, is of the digest
\* that the server has begun.
Sends(x) ==
    /\ sent' = Append(sent, x) /\ stream' = Append(stream, x)
    /\ UNCHANGED <<key, forwarded, clock, taken, tsigCtx, outcome>>
IsOfServer(x) ==
    /\ x = [id |-> Id, body |-> x.body, tsig |-> x.tsig, number |-> Len(sent) + 1]
    /\ sent = <<>> => x.tsig # <<>>
    /\ x.tsig # <<>> => x.tsig = <<x.tsig[1]>> /\ RecordIs(x.tsig[1], key, clock)
NewMacIs(msgs, n) ==
    IF n = 0 THEN MacOf(msgs, 1) = FirstMac(key, msgs, 1)
    ELSE \E l \in 1 .. n : /\ IsLastSigned(msgs, l, n)
                           /\ MacOf(msgs, n + 1) = LaterMac(key, msgs, l, FirstNumbers(n), n + 1)

LEMMA SendKeeps ==
    ASSUME TsigInv, NEW x, Sends(x), IsOfServer(x),
           x.tsig # <<>> => NewMacIs(sent', Len(sent)), ServerCtxIs'
    PROVE  TsigInv'
<1> DEFINE n == Len(sent)
           c == Len(stream)
           t == Len(taken)
<1>1. n \in Nat /\ c \in Nat /\ t \in Nat /\ taken \in Seq(Nat)
  BY DEF TsigInv, TsigTyped
<1>2. /\ Len(sent') = n + 1 /\ sent'[n + 1] = x /\ \A i \in 1 .. n : sent'[i] = sent[i]
      /\ \E S : sent' \in Seq(S)
  <2>1. PICK S : sent \in Seq(S)
    BY DEF TsigInv, TsigTyped
  <2>2. sent \in Seq(S \cup {x})
    BY <2>1
  <2> QED
    BY <2>2 DEF Sends
<1>3. /\ Len(stream') = c + 1 /\ stream'[c + 1] = x
      /\ \A i \in 1 .. c : stream'[i] = stream[i]
      /\ \E S : stream' \in Seq(S)
  <2>1. PICK S : stream \in Seq(S)
    BY DEF TsigInv, TsigTyped
  <2>2. stream \in Seq(S \cup {x})
    BY <2>1
  <2> QED
    BY <2>2 DEF Sends
<1>4. sent = <<>> <=> n = 0
  <2>1. PICK S : sent \in Seq(S)
    BY DEF TsigInv, TsigTyped
  <2> QED
    BY <2>1, EmptySeq
<1>5. /\ x.number = n + 1 /\ x.id = Id
      /\ x = [id |-> x.id, body |-> x.body, tsig |-> x.tsig, number |-> x.number]
  BY DEF IsOfServer
<1>6. UNCHANGED <<key, forwarded, clock, taken, tsigCtx, outcome>>
  BY DEF Sends
<1>22. forwarded \subseteq 1 .. n
  BY DEF TsigInv, TsigTyped
<1>17. /\ sent = <<>> => x.tsig # <<>>
       /\ x.tsig # <<>> => x.tsig = <<x.tsig[1]>> /\ RecordIs(x.tsig[1], key, clock)
  BY DEF IsOfServer
<1>18. x.tsig # <<>> => NewMacIs(sent', n)
  OBVIOUS
<1> HIDE DEF n, c, t
<1>7. /\ \A i \in 1 .. n : /\ Signed(sent', i) <=> Signed(sent, i)
                           /\ MacOf(sent', i) = MacOf(sent, i)
                           /\ \A k : FirstMac(k, sent', i) = FirstMac(k, sent, i)
      /\ \A l \in 1 .. n, m \in 0 .. n : IsLastSigned(sent', l, m) <=> IsLastSigned(sent, l, m)
  <2> DEFINE more == sent'
  <2>1. \A i \in 1 .. n : more[i] = sent[i]
    BY <1>2
  <2> HIDE DEF more
  <2>2. /\ \A i \in 1 .. n : /\ Signed(more, i) <=> Signed(sent, i)
                             /\ MacOf(more, i) = MacOf(sent, i)
                             /\ \A k : FirstMac(k, more, i) = FirstMac(k, sent, i)
        /\ \A l \in 1 .. n, m \in 0 .. n : IsLastSigned(more, l, m) <=> IsLastSigned(sent, l, m)
    BY <1>1, <2>1, MessagesStay
  <2> QED
    BY <2>2 DEF more
<1>8. TsigTyped'
  <2>1. forwarded' \subseteq 1 .. Len(sent')
    BY <1>1, <1>2, <1>6, <1>22
  <2> QED
    BY <1>2, <1>3, <1>6, <2>1 DEF TsigInv, TsigTyped
<1>9. SentIs'
  <2> SUFFICES ASSUME NEW i \in 1 .. n + 1
               PROVE  /\ sent'[i].number = i /\ sent'[i].id = Id
                      /\ i = 1 => Signed(sent', i)
                      /\ Signed(sent', i) =>
                            sent'[i].tsig = <<sent'[i].tsig[1]>> /\ RecordIs(sent'[i].tsig[1], key, clock)
    BY <1>2, <1>6 DEF SentIs
  <2>1. CASE i \in 1 .. n
    <3>1. /\ sent[i].number = i /\ sent[i].id = Id /\ (i = 1 => Signed(sent, i))
          /\ Signed(sent, i) => sent[i].tsig = <<sent[i].tsig[1]>> /\ RecordIs(sent[i].tsig[1], key, clock)
      BY <2>1 DEF TsigInv, SentIs, n
    <3>2. sent'[i] = sent[i]
      BY <1>2, <2>1
    <3> QED
      BY <1>7, <2>1, <3>1, <3>2
  <2>2. CASE i = n + 1
    <3>1. sent'[i] = x
      BY <1>2, <2>2
    <3>2. Signed(sent', i) <=> x.tsig # <<>>
      BY <3>1 DEF Signed
    <3>3. i = 1 => sent = <<>>
      BY <1>1, <1>4, <2>2
    <3> QED
      BY <1>5, <1>17, <2>2, <3>1, <3>2, <3>3
  <2>3. i \in 1 .. n \/ i = n + 1
    BY <1>1
  <2> QED
    BY <2>1, <2>2, <2>3
<1>10. StreamIs'
  <2> SUFFICES ASSUME NEW j \in 1 .. c + 1
               PROVE  /\ stream'[j] = [id |-> stream'[j].id, body |-> stream'[j].body,
                                       tsig |-> stream'[j].tsig, number |-> stream'[j].number]
                      /\ stream'[j].number \in 1 .. n + 1
                      /\ stream'[j].body = sent'[stream'[j].number].body
                      /\ stream'[j].tsig = sent'[stream'[j].number].tsig
                      /\ stream'[j].id = IdNow(stream'[j].number)
    BY <1>2, <1>3, <1>6 DEF StreamIs, IdNow
  <2>1. CASE j \in 1 .. c
    <3> DEFINE y == stream[j]
    <3>1. stream'[j] = y
      BY <1>3, <2>1
    <3>2. /\ y = [id |-> y.id, body |-> y.body, tsig |-> y.tsig, number |-> y.number]
          /\ y.number \in 1 .. n /\ y.body = sent[y.number].body /\ y.tsig = sent[y.number].tsig
          /\ y.id = IdNow(y.number)
      BY <2>1 DEF TsigInv, StreamIs, n, c
    <3> HIDE DEF y
    <3>3. sent'[y.number] = sent[y.number] /\ y.number \in 1 .. n + 1
      BY <1>1, <1>2, <3>2
    <3> QED
      BY <3>1, <3>2, <3>3
  <2>2. CASE j = c + 1
    <3>1. stream'[j] = x /\ sent'[x.number] = x /\ x.number \in 1 .. n + 1
      BY <1>1, <1>2, <1>3, <1>5, <2>2
    <3>2. IdNow(x.number) = Id
      BY <1>1, <1>5, <1>22 DEF IdNow
    <3> QED
      BY <1>5, <3>1, <3>2
  <2>3. j \in 1 .. c \/ j = c + 1
    BY <1>1
  <2> QED
    BY <2>1, <2>2, <2>3
<1>19. /\ NumbersOf(taken, stream) \in Seq(Nat) /\ Len(NumbersOf(taken, stream)) = t + c
       /\ \A i \in 1 .. t : NumbersOf(taken, stream)[i] = taken[i]
       /\ \A j \in 1 .. c : NumbersOf(taken, stream)[t + j] = stream[j].number
  <2> DEFINE now == stream
  <2>1. (\E S : now \in Seq(S)) /\ Len(now) = c /\ \A j \in 1 .. Len(now) : now[j].number \in Nat
    <3>1. (\E S : now \in Seq(S)) /\ Len(now) = c
      BY DEF TsigInv, TsigTyped, c
    <3>2. \A j \in 1 .. Len(now) : now[j].number \in 1 .. n
      BY DEF TsigInv, StreamIs, n
    <3> HIDE DEF now
    <3>3. \A j \in 1 .. Len(now) : now[j].number \in Nat
      BY <1>1, <3>2
    <3> QED
      BY <3>1, <3>3
  <2>3. HaveNumbers(now)
    BY <2>1 DEF HaveNumbers
  <2> HIDE DEF now
  <2>2. Continues(NumbersOf(taken, now), taken, now)
    BY <1>1, <2>3, NumbersAre
  <2> QED
    BY <2>1, <2>2 DEF Continues, now, t
<1>20. /\ NumbersOf(taken, stream') \in Seq(Nat) /\ Len(NumbersOf(taken, stream')) = t + (c + 1)
       /\ \A i \in 1 .. t : NumbersOf(taken, stream')[i] = taken[i]
       /\ \A j \in 1 .. c + 1 : NumbersOf(taken, stream')[t + j] = stream'[j].number
  <2> DEFINE more == stream'
  <2>1. (\E S : more \in Seq(S)) /\ Len(more) = c + 1 /\ \A j \in 1 .. Len(more) : more[j].number \in Nat
    <3>1. (\E S : more \in Seq(S)) /\ Len(more) = c + 1
      BY <1>3
    <3>2. Len(sent') = n + 1
      BY <1>2
    <3>3. \A j \in 1 .. Len(more) : more[j].number \in 1 .. Len(sent')
      BY <1>10 DEF StreamIs
    <3> HIDE DEF more
    <3>4. \A j \in 1 .. Len(more) : more[j].number \in Nat
      BY <1>1, <3>2, <3>3
    <3> QED
      BY <3>1, <3>4
  <2>3. HaveNumbers(more)
    BY <2>1 DEF HaveNumbers
  <2> HIDE DEF more
  <2>2. Continues(NumbersOf(taken, more), taken, more)
    BY <1>1, <2>3, NumbersAre
  <2> QED
    BY <2>1, <2>2 DEF Continues, more, t
<1>11. InOrder'
  <2> DEFINE a == NumbersOf(taken, stream)
             b == NumbersOf(taken, stream')
  <2>1. a \in Seq(Nat) /\ b \in Seq(Nat) /\ Len(a) = t + c /\ Len(b) = Len(a) + 1
    BY <1>1, <1>19, <1>20
  <2>2. b[Len(a) + 1] = n + 1
    <3>1. b[t + (c + 1)] = n + 1
      BY <1>1, <1>3, <1>5, <1>20
    <3>2. Len(a) + 1 = t + (c + 1)
      BY <1>1, <2>1
    <3> QED
      BY <3>1, <3>2
  <2>3. ASSUME NEW i \in 1 .. Len(a) PROVE b[i] = a[i]
    <3>1. CASE i \in 1 .. t
      BY <1>19, <1>20, <3>1
    <3>2. CASE i \notin 1 .. t
      <4> DEFINE j == i - t
      <4>1. j \in 1 .. c /\ j \in 1 .. c + 1 /\ i = t + j
        BY <1>1, <2>1, <3>2
      <4> HIDE DEF j
      <4>2. a[t + j] = stream[j].number /\ b[t + j] = stream'[j].number
        BY <1>19, <1>20, <4>1
      <4> QED
        BY <1>3, <4>1, <4>2
    <3> QED
      BY <3>1, <3>2
  <2>4. AreInOrder(a, n)
    BY DEF TsigInv, InOrder, n
  <2> HIDE DEF a, b
  <2>6. Len(a) \in Nat /\ \A i \in 1 .. Len(a) : a[i] \in Nat
    BY <2>1
  <2>5. AreInOrder(b, n + 1)
    BY <1>1, <2>1, <2>2, <2>3, <2>4, <2>6, GrowInOrder
  <2> QED
    BY <1>2, <1>6, <2>5 DEF InOrder, b
<1>12. MacsAre'
  <2> SUFFICES ASSUME NEW i \in 1 .. n + 1, Signed(sent', i)
               PROVE  IF i = 1 THEN MacOf(sent', i) = FirstMac(key, sent', i)
                      ELSE \E l \in 1 .. i - 1 :
                              /\ IsLastSigned(sent', l, i - 1)
                              /\ MacOf(sent', i) = LaterMac(key, sent', l, FirstNumbers(i - 1), i)
    BY <1>2, <1>6 DEF MacsAre
  <2>1. CASE i \in 1 .. n /\ i = 1
    BY <1>7, <2>1 DEF TsigInv, MacsAre, n
  <2>2. CASE i \in 1 .. n /\ i # 1
    <3>1. Signed(sent, i)
      BY <1>7, <2>2
    <3>2. PICK l \in 1 .. i - 1 :
              /\ IsLastSigned(sent, l, i - 1)
              /\ MacOf(sent, i) = LaterMac(key, sent, l, FirstNumbers(i - 1), i)
      BY <2>2, <3>1 DEF TsigInv, MacsAre, n
    <3>3. IsLastSigned(sent', l, i - 1) /\ MacOf(sent', i) = MacOf(sent, i)
      <4>1. l \in 1 .. n /\ i - 1 \in 0 .. n
        BY <1>1, <2>2
      <4> QED
        BY <1>7, <2>2, <3>2, <4>1
    <3>4. LaterMac(key, sent', l, FirstNumbers(i - 1), i)
          = LaterMac(key, sent, l, FirstNumbers(i - 1), i)
      <4> DEFINE more == sent'
                 low == FirstNumbers(i - 1)
      <4>1. low \in Seq(Nat) /\ Len(low) = i - 1 /\ \A j \in 1 .. i - 1 : low[j] = j
        <5>1. i - 1 \in Nat
          BY <2>2
        <5> QED
          BY <5>1, FirstNumbersAre
      <4>2. \A j \in 1 .. n : more[j] = sent[j]
        BY <1>2
      <4> HIDE DEF more, low
      <4>3. l \in 1 .. n /\ l \in 1 .. Len(low) /\ \A j \in 1 .. Len(low) : low[j] \in 1 .. n
        BY <1>1, <2>2, <4>1
      <4>4. more[l] = sent[l] /\ more[i] = sent[i]
            /\ \A j \in 1 .. Len(low) : more[low[j]] = sent[low[j]]
        BY <2>2, <4>2, <4>3
      <4>5. LaterMac(key, more, l, low, i) = LaterMac(key, sent, l, low, i)
        BY <4>1, <4>3, <4>4, LaterMacStays
      <4> QED
        BY <4>5 DEF more, low
    <3> QED
      BY <2>2, <3>2, <3>3, <3>4
  <2>3. CASE i = n + 1
    <3>1. x.tsig # <<>>
      BY <1>2, <2>3 DEF Signed
    <3>2. CASE n = 0
      BY <1>18, <2>3, <3>1, <3>2 DEF NewMacIs
    <3>3. CASE n # 0
      <4>1. \E l \in 1 .. n : /\ IsLastSigned(sent', l, n)
                              /\ MacOf(sent', n + 1) = LaterMac(key, sent', l, FirstNumbers(n), n + 1)
        BY <1>18, <3>1, <3>3 DEF NewMacIs
      <4>2. i - 1 = n /\ i # 1
        BY <1>1, <2>3, <3>3
      <4> QED
        BY <2>3, <4>1, <4>2
    <3> QED
      BY <3>2, <3>3
  <2> QED
    BY <1>1, <2>1, <2>2, <2>3
<1>13. MacsDiffer'
  <2>1. \A i, j \in 1 .. n :
            Signed(sent', i) /\ Signed(sent', j) /\ MacOf(sent', i) = MacOf(sent', j) => i = j
    BY <1>7 DEF TsigInv, MacsDiffer, n
  <2>2. ASSUME NEW i \in 1 .. n, Signed(sent', i), Signed(sent', n + 1)
        PROVE  MacOf(sent', i) # MacOf(sent', n + 1)
    <3> DEFINE more == sent'
               p == n + 1
    <3>1. p \in Nat /\ p >= 2 /\ n = p - 1 /\ p # 1
      BY <1>1
    <3>2. \A h \in 1 .. p :
              Signed(more, h) =>
                 IF h = 1 THEN MacOf(more, h) = FirstMac(key, more, h)
                 ELSE \E l \in 1 .. h - 1 :
                         /\ IsLastSigned(more, l, h - 1)
                         /\ MacOf(more, h) = LaterMac(key, more, l, FirstNumbers(h - 1), h)
      BY <1>2, <1>6, <1>12 DEF MacsAre
    <3>3. \A g, h \in 1 .. p - 1 :
              Signed(more, g) /\ Signed(more, h) /\ MacOf(more, g) = MacOf(more, h) => g = h
      BY <2>1, <3>1
    <3>4. Signed(more, i) /\ Signed(more, p)
      BY <2>2
    <3> HIDE DEF more, p
    <3>5. PICK l \in 1 .. p - 1 : /\ IsLastSigned(more, l, p - 1)
                                  /\ MacOf(more, p) = LaterMac(key, more, l, FirstNumbers(p - 1), p)
      BY <3>1, <3>2, <3>4
    <3>6. Signed(more, l)
      BY <3>5 DEF IsLastSigned
    <3>7. \A h \in 1 .. p - 1 :
              Signed(more, h) =>
                 IF h = 1 THEN MacOf(more, h) = FirstMac(key, more, h)
                 ELSE \E g \in 1 .. h - 1 :
                         /\ IsLastSigned(more, g, h - 1)
                         /\ MacOf(more, h) = LaterMac(key, more, g, FirstNumbers(h - 1), h)
      <4>1. \A h \in 1 .. p - 1 : h \in 1 .. p
        BY <3>1
      <4> QED
        BY <3>2, <4>1
    <3>8. \A h \in 1 .. p - 1 : Signed(more, h) => MacOf(more, h) # MacOf(more, p)
      BY <3>1, <3>3, <3>5, <3>6, <3>7, NewMacDiffers
    <3>9. MacOf(more, i) # MacOf(more, p)
      BY <3>1, <3>4, <3>8
    <3> QED
      BY <3>9 DEF more, p
  <2> SUFFICES ASSUME NEW i \in 1 .. n + 1, NEW j \in 1 .. n + 1,
                      Signed(sent', i), Signed(sent', j), MacOf(sent', i) = MacOf(sent', j)
               PROVE  i = j
    BY <1>2 DEF MacsDiffer
  <2>3. (i \in 1 .. n \/ i = n + 1) /\ (j \in 1 .. n \/ j = n + 1)
    BY <1>1
  <2> QED
    BY <2>1, <2>2, <2>3
<1>21. \A j \in 1 .. t : taken[j] \in 1 .. n
  <2>1. \A i \in 1 .. t + c : NumbersOf(taken, stream)[i] \in 1 .. n
    BY <1>1, <1>19, WholeByLength DEF TsigInv, InOrder, n
  <2> QED
    BY <1>1, <1>19, <2>1
<1>23. DOMAIN sent = 1 .. n /\ DOMAIN sent' = 1 .. n + 1
  <2>1. PICK S : sent \in Seq(S)
    BY DEF TsigInv, TsigTyped
  <2>2. PICK T : sent' \in Seq(T)
    BY <1>2
  <2> QED
    BY <1>2, <2>1, <2>2 DEF n
<1>24. ASSUME NEW m \in Nat PROVE IdsCovered(m)' <=> IdsCovered(m)
  <2>1. \A i \in forwarded : sent'[i] = sent[i]
    BY <1>2, <1>22
  <2> QED
    BY <1>6, <2>1 DEF IdsCovered
<1>14. ClientCtxIs'
  <2> SUFFICES ASSUME outcome = "reading"
               PROVE  IF taken = <<>>
                      THEN tsigCtx = NoContext /\ (sent' # <<>> => stream' # <<>> /\ stream'[1].number = 1)
                      ELSE /\ key = ClientKey
                           /\ \E s \in 1 .. Len(taken) :
                                  /\ taken[s] = s /\ Signed(sent', s)
                                  /\ \A j \in s + 1 .. Len(taken) : ~Signed(sent', taken[j])
                                  /\ tsigCtx = Ctx(ClientKey, Came', s, taken)
    BY <1>6 DEF ClientCtxIs
  <2>1. CASE taken = <<>>
    <3>1. tsigCtx = NoContext /\ (sent # <<>> => stream # <<>> /\ stream[1].number = 1)
      BY <2>1 DEF TsigInv, ClientCtxIs
    <3>2. stream' # <<>>
      BY <1>1, <1>3
    <3>3. CASE sent = <<>>
      <4>1. n = 0 /\ c = 0
        BY <1>1, <1>4, <1>19, <3>3 DEF TsigInv, InOrder, AreInOrder, n
      <4> QED
        BY <1>3, <1>5, <2>1, <3>1, <3>2, <4>1
    <3>4. CASE sent # <<>>
      <4>1. stream # <<>> /\ stream[1].number = 1
        BY <3>1, <3>4
      <4>2. c # 0
        <5>1. PICK S : stream \in Seq(S)
          BY DEF TsigInv, TsigTyped
        <5> QED
          BY <4>1, <5>1, EmptySeq DEF c
      <4>3. stream'[1] = stream[1]
        BY <1>1, <1>3, <4>2
      <4> QED
        BY <2>1, <3>1, <3>2, <4>1, <4>3
    <3> QED
      BY <3>3, <3>4
  <2>2. CASE taken # <<>>
    <3>1. key = ClientKey
      BY <2>2 DEF TsigInv, ClientCtxIs
    <3>2. PICK s \in 1 .. Len(taken) :
              /\ taken[s] = s /\ Signed(sent, s)
              /\ \A j \in s + 1 .. Len(taken) : ~Signed(sent, taken[j])
              /\ tsigCtx = Ctx(ClientKey, Came, s, taken)
      BY <2>2 DEF TsigInv, ClientCtxIs
    <3>3. \A j \in 1 .. Len(taken) : taken[j] \in 1 .. n
      BY <1>21 DEF t
    <3>4. s \in 1 .. n
      BY <3>2, <3>3
    <3>5. Signed(sent', s) /\ \A j \in s + 1 .. Len(taken) : ~Signed(sent', taken[j])
      BY <1>1, <1>7, <3>2, <3>3, <3>4
    <3>6. Since(Came', s, taken) = Since(Came, s, taken)
      <4> DEFINE more == Came'
      <4>1. \A j \in 1 .. n : more[j] = Came[j]
        BY <1>1, <1>2, <1>6, <1>23 DEF Came, IdNow
      <4> HIDE DEF more
      <4>2. more[s] = Came[s] /\ \A j \in 1 .. Len(taken) : more[taken[j]] = Came[taken[j]]
        BY <3>3, <3>4, <4>1
      <4>3. Since(more, s, taken) = Since(Came, s, taken)
        BY <1>1, <3>2, <4>2, SinceStays
      <4> QED
        BY <4>3 DEF more
    <3>7. tsigCtx = Ctx(ClientKey, Came', s, taken)
      BY <3>2, <3>6 DEF Ctx
    <3> QED
      BY <2>2, <3>1, <3>2, <3>5, <3>7
  <2> QED
    BY <2>1, <2>2
<1>15. WholeStreamIsTaken'
  <2> SUFFICES ASSUME IsWhole', key = ClientKey, ~Late', ~Refused', IdsCovered(Len(sent))'
               PROVE  outcome = "reading"
    BY <1>6 DEF WholeStreamIsTaken
  <2>1. NumbersOf(taken, stream') = FirstNumbers(n + 1)
    BY <1>2, <1>6 DEF IsWhole, NumbersOf
  <2>2. t + (c + 1) = n + 1
    BY <1>1, <1>20, <2>1, FirstNumbersAre
  <2>3. IsWhole
    <3>1. NumbersOf(taken, stream) = FirstNumbers(n)
      BY <1>1, <1>19, <2>2, WholeByLength DEF TsigInv, InOrder, n
    <3> QED
      BY <3>1 DEF IsWhole, NumbersOf, n
  <2>5. \A i \in 1 .. n : i \in DOMAIN sent' /\ sent'[i] = sent[i]
    BY <1>1, <1>2, <1>23
  <2>6. ~Late
    BY <1>6, <1>23, <2>5 DEF Late
  <2>7. ~Refused
    BY <1>23, <2>5 DEF Refused
  <2>8. IdsCovered(n)
    BY <1>2, <1>6, <1>22, <2>5 DEF IdsCovered
  <2> QED
    BY <2>3, <2>6, <2>7, <2>8 DEF TsigInv, WholeStreamIsTaken, n
<1>16. SignedPartIsWhole'
  <2>1. DOMAIN taken = 1 .. t
    BY <1>1 DEF t
  <2>2. \A i \in DOMAIN taken : sent'[taken[i]] = sent[taken[i]]
    BY <1>2, <1>21, <2>1
  <2>3. \A i \in DOMAIN taken : IdsCovered(i)' <=> IdsCovered(i)
    BY <1>1, <1>24, <2>1
  <2> QED
    BY <1>6, <2>2, <2>3 DEF TsigInv, SignedPartIsWhole
<1> QED
  BY <1>8, <1>9, <1>10, <1>11, <1>12, <1>13, <1>14, <1>15, <1>16 DEF TsigInv

\* What a server digests of a message that it appends.
Appended(msgs, more, x) ==
    (\E S : msgs \in Seq(S)) /\ more = Append(msgs, x)

LEMMA AppendedIs ==
    ASSUME NEW msgs, NEW more, NEW x, Appended(msgs, more, x)
    PROVE  /\ Len(msgs) \in Nat /\ Len(more) = Len(msgs) + 1 /\ more[Len(msgs) + 1] = x
           /\ \A i \in 1 .. Len(msgs) : more[i] = msgs[i]
           /\ more # <<>> /\ (msgs = <<>> <=> Len(msgs) = 0)
           /\ \A l \in 1 .. Len(msgs) :
                  Since(more, l, FirstNumbers(Len(msgs))) = Since(msgs, l, FirstNumbers(Len(msgs)))
<1> DEFINE n == Len(msgs)
<1>1. PICK S : msgs \in Seq(S)
  BY DEF Appended
<1>2. msgs \in Seq(S \cup {x}) /\ more = Append(msgs, x)
  BY <1>1 DEF Appended
<1>3. n \in Nat /\ Len(more) = n + 1 /\ more[n + 1] = x /\ \A i \in 1 .. n : more[i] = msgs[i]
  BY <1>2
<1>4. msgs = <<>> <=> n = 0
  BY <1>1, EmptySeq
<1>5. more # <<>>
  BY <1>2, <1>3
<1>6. ASSUME NEW l \in 1 .. n
      PROVE  Since(more, l, FirstNumbers(n)) = Since(msgs, l, FirstNumbers(n))
  <2> DEFINE to == FirstNumbers(n)
  <2>1. to \in Seq(Nat) /\ Len(to) = n /\ \A i \in 1 .. n : to[i] = i
    BY <1>3, FirstNumbersAre
  <2> HIDE DEF to, n
  <2>2. l \in 1 .. Len(to) /\ more[l] = msgs[l] /\ \A i \in 1 .. Len(to) : more[to[i]] = msgs[to[i]]
    BY <1>3, <2>1
  <2>3. Since(more, l, to) = Since(msgs, l, to)
    BY <2>1, <2>2, SinceStays
  <2> QED
    BY <2>3 DEF to
<1> QED
  BY <1>3, <1>4, <1>5, <1>6

\* The record that is to be signed.
LEMMA RecordTimed ==
    ASSUME NEW k, NEW error, NEW time
    PROVE  [UseTsig(k, Id, error) EXCEPT !.time_signed = time]
           = [owner |-> k.name, algorithm |-> k.algorithm, time_signed |-> time, fudge |-> Fudge,
              mac |-> NoMac, original_id |-> Id, error |-> error, other |-> ""]
<1> DEFINE base == UseTsig(k, Id, error)
<1>1. PICK zero, empty :
          /\ base = [owner |-> k.name, algorithm |-> k.algorithm, time_signed |-> zero,
                     fudge |-> Fudge, mac |-> NoMac, original_id |-> Id, error |-> error,
                     other |-> empty]
          /\ empty = ""
  BY Zenon DEF UseTsig
<1> HIDE DEF base
<1>2. [base EXCEPT !.time_signed = time]
      = [owner |-> k.name, algorithm |-> k.algorithm, time_signed |-> time, fudge |-> Fudge,
         mac |-> NoMac, original_id |-> Id, error |-> error, other |-> empty]
  <2>1. base = [owner |-> k.name, algorithm |-> k.algorithm, time_signed |-> zero, fudge |-> Fudge,
                mac |-> NoMac, original_id |-> Id, error |-> error, other |-> empty]
    BY <1>1
  <2> QED
    BY <2>1
<1>3. empty = ""
  BY <1>1
<1> QED
  BY <1>2, <1>3, Zenon DEF base

LEMMA SendSignedKeeps ==
    ASSUME TsigInv, NEW body, NEW error, SendSigned(body, error)
    PROVE  TsigInv'
<1> DEFINE n == Len(sent)
           m == Unsigned(body)
           timed == [UseTsig(key, Id, error) EXCEPT !.time_signed = clock]
           mac == Mac(DigestOf(m, key, timed, RequestMac, serverCtx, TRUE))
           r == [timed EXCEPT !.mac = mac]
           x == [m EXCEPT !.tsig = <<r>>]
<1>1. sent' = Append(sent, x) /\ Sends(x) /\ serverCtx' = MaybeStartDigest(key, mac, TRUE)
  BY DEF SendSigned, Sign, Sends
<1>2. m = [id |-> Id, body |-> body, tsig |-> <<>>, number |-> n + 1]
  BY DEF Unsigned
<1>3. timed = [owner |-> key.name, algorithm |-> key.algorithm, time_signed |-> clock, fudge |-> Fudge,
               mac |-> NoMac, original_id |-> Id, error |-> error, other |-> ""]
  BY RecordTimed, Zenon
<1> HIDE DEF m, timed, mac
<1>4. r = [owner |-> key.name, algorithm |-> key.algorithm, time_signed |-> clock, fudge |-> Fudge,
           mac |-> mac, original_id |-> Id, error |-> error, other |-> ""]
  <2>1. PICK empty :
            /\ timed = [owner |-> key.name, algorithm |-> key.algorithm, time_signed |-> clock,
                        fudge |-> Fudge, mac |-> NoMac, original_id |-> Id, error |-> error, other |-> empty]
            /\ empty = ""
    BY <1>3, Zenon
  <2>2. r = [owner |-> key.name, algorithm |-> key.algorithm, time_signed |-> clock, fudge |-> Fudge,
             mac |-> mac, original_id |-> Id, error |-> error, other |-> empty]
    <3>1. timed = [owner |-> key.name, algorithm |-> key.algorithm, time_signed |-> clock,
                   fudge |-> Fudge, mac |-> NoMac, original_id |-> Id, error |-> error, other |-> empty]
      BY <2>1
    <3> QED
      BY <3>1
  <2>3. empty = ""
    BY <2>1
  <2> QED
    BY <2>2, <2>3, Zenon
<1>5. x = [id |-> Id, body |-> body, tsig |-> <<r>>, number |-> n + 1]
  BY <1>2
<1> HIDE DEF r, x
<1>6. /\ r.owner = key.name /\ r.algorithm = key.algorithm /\ r.time_signed = clock /\ r.fudge = Fudge
      /\ r.mac = mac /\ r.original_id = Id /\ r.error = error /\ r.other = ""
  BY <1>4
<1>7. x.tsig = <<r>> /\ x.tsig # <<>> /\ x.tsig[1] = r /\ x.body = body /\ x.id = Id /\ x.number = n + 1
  BY <1>5
<1>8. timed.time_signed = clock /\ timed.fudge = Fudge /\ timed.original_id = Id /\ timed.error = error
      /\ timed.other = "" /\ m.body = body
  BY <1>2, <1>3
<1>9. IsOfServer(x)
  <2>1. clock \in Nat
    BY DEF TsigInv, TsigTyped
  <2>2. RecordIs(x.tsig[1], key, clock)
    <3>1. clock <= clock
      BY <2>1
    <3> QED
      BY <1>6, <1>7, <2>1, <3>1 DEF RecordIs
  <2>3. x = [id |-> Id, body |-> x.body, tsig |-> x.tsig, number |-> Len(sent) + 1]
    BY <1>5, <1>7
  <2> QED
    BY <1>7, <2>2, <2>3 DEF IsOfServer
<1>10. Appended(sent, sent', x)
  BY <1>1 DEF TsigInv, TsigTyped, Appended
<1> DEFINE more == sent'
<1>11. Appended(sent, more, x)
  BY <1>10
<1> HIDE DEF more
<1>12. /\ n \in Nat /\ Len(more) = n + 1 /\ more[n + 1] = x
       /\ \A i \in 1 .. n : more[i] = sent[i]
       /\ more # <<>> /\ (sent = <<>> <=> n = 0)
       /\ \A l \in 1 .. n : Since(more, l, FirstNumbers(n)) = Since(sent, l, FirstNumbers(n))
  BY <1>11, AppendedIs
<1> HIDE DEF n
<1>13. /\ SignedWireOf(more, n + 1) = <<Id, body>> /\ TimesOf(more, n + 1) = <<"times", clock, Fudge>>
       /\ MacOf(more, n + 1) = mac /\ Signed(more, n + 1)
       /\ more[n + 1].tsig[1].error = error /\ more[n + 1].tsig[1].other = ""
  BY <1>6, <1>7, <1>12 DEF SignedWireOf, TimesOf, MacOf, Signed
<1>14. NewMacIs(more, n)
  <2>1. CASE n = 0
    <3>1. serverCtx = NoContext
      BY <1>12, <2>1 DEF TsigInv, ServerCtxIs
    <3>2. mac = Hash(key, <<RequestMac>> \o
                          <<<<timed.original_id, m.body>>, key.name, key.algorithm,
                            <<"times", timed.time_signed, timed.fudge>>, <<timed.error, timed.other>>>>)
      BY <3>1, DigestOfFirst DEF mac
    <3>3. mac = Hash(key, <<RequestMac>> \o
                          <<<<Id, body>>, key.name, key.algorithm,
                            <<"times", clock, Fudge>>, <<error, "">>>>)
      BY <1>8, <3>2
    <3>4. n + 1 = 1
      BY <2>1
    <3>5. MacOf(more, 1) = FirstMac(key, more, 1)
      BY <1>13, <3>3, <3>4, Zenon DEF FirstMac
    <3> QED
      BY <2>1, <3>5 DEF NewMacIs
  <2>2. CASE n # 0
    <3>1. PICK l \in 1 .. n : /\ IsLastSigned(sent, l, n)
                              /\ serverCtx = Ctx(key, sent, l, FirstNumbers(n))
      BY <1>12, <2>2 DEF TsigInv, ServerCtxIs, n
    <3>2. serverCtx = <<Hash(key, Since(more, l, FirstNumbers(n)))>>
      BY <1>12, <3>1 DEF Ctx
    <3>3. mac = Hash(key, Since(more, l, FirstNumbers(n)) \o
                          <<<<timed.original_id, m.body>>, <<"times", timed.time_signed, timed.fudge>>>>)
      <4>1. mac = LaterHash(key, Since(more, l, FirstNumbers(n)), m, timed)
        <5>1. IsDigest(serverCtx, key, Since(more, l, FirstNumbers(n)))
          BY <3>2 DEF IsDigest
        <5> QED
          BY <5>1, DigestOfLater, ZenonT(60) DEF mac
      <4> QED
        BY <4>1 DEF LaterHash
    <3>4. mac = Hash(key, Since(more, l, FirstNumbers(n)) \o
                          <<<<Id, body>>, <<"times", clock, Fudge>>>>)
      BY <1>8, <3>3
    <3>5. MacOf(more, n + 1) = LaterMac(key, more, l, FirstNumbers(n), n + 1)
      BY <1>13, <3>4, Zenon DEF LaterMac
    <3>6. IsLastSigned(more, l, n)
      <4>1. n \in 0 .. n
        BY <1>12
      <4> QED
        BY <1>12, <3>1, <4>1, MessagesStay
    <3> QED
      BY <2>2, <3>5, <3>6 DEF NewMacIs
  <2> QED
    BY <2>1, <2>2
<1>15. ServerCtxIs'
  <2>1. IsLastSigned(more, n + 1, n + 1)
    <3>1. n + 1 \in 1 .. n + 1 /\ \A j \in (n + 1) + 1 .. n + 1 : FALSE
      BY <1>12
    <3> QED
      BY <1>13, <3>1 DEF IsLastSigned
  <2>2. Since(more, n + 1, FirstNumbers(n + 1)) = <<MacOf(more, n + 1)>>
    <3> DEFINE to == FirstNumbers(n + 1)
    <3>1. to \in Seq(Nat) /\ Len(to) = n + 1 /\ Len(to) >= 1
      <4>1. n + 1 \in Nat
        BY <1>12
      <4> QED
        BY <1>12, <4>1, FirstNumbersAre
    <3> HIDE DEF to
    <3>2. Since(more, Len(to), to) = <<MacOf(more, Len(to))>>
      BY <3>1, SinceStarts
    <3> QED
      BY <3>1, <3>2 DEF to
  <2>3. serverCtx' = <<Hash(key, <<mac>>)>>
    BY <1>1, DigestStarts
  <2>4. serverCtx' = Ctx(key, more, n + 1, FirstNumbers(n + 1))
    BY <1>13, <2>2, <2>3 DEF Ctx
  <2>5. key' = key
    BY <1>1 DEF Sends
  <2>6. n + 1 \in 1 .. Len(more)
    BY <1>12
  <2>7. sent' # <<>> /\ Len(sent') = n + 1 /\ n + 1 \in 1 .. Len(sent')
        /\ IsLastSigned(sent', n + 1, n + 1) /\ serverCtx' = Ctx(key', sent', n + 1, FirstNumbers(n + 1))
    BY <1>12, <2>1, <2>4, <2>5, <2>6 DEF more
  <2> HIDE DEF more
  <2> QED
    BY <2>7 DEF ServerCtxIs
<1> QED
  BY <1>1, <1>9, <1>14, <1>15, SendKeeps DEF more, n

LEMMA SendUnsignedKeeps ==
    ASSUME TsigInv, NEW body, SendUnsigned(body)
    PROVE  TsigInv'
<1> DEFINE n == Len(sent)
           x == Unsigned(body)
           more == sent'
<1>1. sent # <<>> /\ more = Append(sent, x) /\ Sends(x) /\ serverCtx' = Update(serverCtx, <<x.id, x.body>>)
  BY DEF SendUnsigned, Sends
<1>2. x = [id |-> Id, body |-> body, tsig |-> <<>>, number |-> n + 1]
  BY DEF Unsigned
<1> HIDE DEF x, more
<1>3. x.tsig = <<>> /\ x.id = Id /\ x.body = body
  BY <1>2
<1>4. IsOfServer(x)
  BY <1>1, <1>2, <1>3 DEF IsOfServer
<1>5. Appended(sent, more, x)
  BY <1>1 DEF TsigInv, TsigTyped, Appended
<1>6. /\ n \in Nat /\ Len(more) = n + 1 /\ more[n + 1] = x
      /\ \A i \in 1 .. n : more[i] = sent[i]
      /\ more # <<>> /\ (sent = <<>> <=> n = 0)
      /\ \A l \in 1 .. n : Since(more, l, FirstNumbers(n)) = Since(sent, l, FirstNumbers(n))
  BY <1>5, AppendedIs
<1>7. PICK l \in 1 .. n : /\ IsLastSigned(sent, l, n)
                          /\ serverCtx = Ctx(key, sent, l, FirstNumbers(n))
  BY <1>1 DEF TsigInv, ServerCtxIs
<1> HIDE DEF n
<1>8. WireOf(more, n + 1) = <<x.id, x.body>> /\ ~Signed(more, n + 1)
  BY <1>3, <1>6 DEF WireOf, Signed
<1>9. serverCtx' = <<Hash(key, Append(Since(more, l, FirstNumbers(n)), <<x.id, x.body>>))>>
  <2>1. serverCtx = <<Hash(key, Since(more, l, FirstNumbers(n)))>>
    BY <1>6, <1>7 DEF Ctx
  <2> QED
    BY <1>1, <2>1, DigestsAre
<1>10. Append(Since(more, l, FirstNumbers(n)), WireOf(more, n + 1)) = Since(more, l, FirstNumbers(n + 1))
  <2> DEFINE to == FirstNumbers(n)
             p == n + 1
  <2>1. to \in Seq(Nat) /\ Len(to) = n /\ Append(to, p) = FirstNumbers(p) /\ p \in Nat
    BY <1>6, FirstNumbersAre
  <2>2. l \in Nat /\ 1 <= l /\ l <= Len(to)
    BY <2>1
  <2> HIDE DEF to, p
  <2>3. Append(Since(more, l, to), WireOf(more, p)) = Since(more, l, Append(to, p))
    BY <2>1, <2>2, SinceGrows
  <2> QED
    BY <2>1, <2>3 DEF to, p
<1>11. IsLastSigned(more, l, n + 1)
  <2>1. IsLastSigned(more, l, n)
    <3>1. n \in 0 .. n
      BY <1>6
    <3> QED
      BY <1>6, <1>7, <3>1, MessagesStay
  <2>2. \A j \in l + 1 .. n + 1 : j \in l + 1 .. n \/ j = n + 1
    BY <1>6
  <2>3. l \in 1 .. n + 1
    BY <1>6
  <2> QED
    BY <1>8, <2>1, <2>2, <2>3 DEF IsLastSigned
<1>12. ServerCtxIs'
  <2>1. serverCtx' = Ctx(key, more, l, FirstNumbers(n + 1))
    BY <1>8, <1>9, <1>10 DEF Ctx
  <2>2. key' = key
    BY <1>1 DEF Sends
  <2>3. l \in 1 .. n + 1
    BY <1>6
  <2>4. sent' # <<>> /\ Len(sent') = n + 1 /\ l \in 1 .. Len(sent')
        /\ IsLastSigned(sent', l, n + 1) /\ serverCtx' = Ctx(key', sent', l, FirstNumbers(n + 1))
    BY <1>6, <1>11, <2>1, <2>2, <2>3 DEF more
  <2> QED
    BY <2>4 DEF ServerCtxIs
<1> QED
  BY <1>1, <1>3, <1>4, <1>12, SendKeeps

LEMMA NumbersNow ==
    ASSUME TsigInv
    PROVE  /\ Len(sent) \in Nat /\ Len(stream) \in Nat /\ Len(taken) \in Nat /\ taken \in Seq(Nat)
           /\ DOMAIN sent = 1 .. Len(sent) /\ DOMAIN stream = 1 .. Len(stream)
           /\ DOMAIN taken = 1 .. Len(taken)
           /\ HaveNumbers(stream) /\ Continues(NumbersOf(taken, stream), taken, stream)
           /\ \A j \in 1 .. Len(taken) : taken[j] \in 1 .. Len(sent)
<1>1. Len(sent) \in Nat /\ Len(stream) \in Nat /\ Len(taken) \in Nat /\ taken \in Seq(Nat)
      /\ DOMAIN sent = 1 .. Len(sent) /\ DOMAIN stream = 1 .. Len(stream)
      /\ DOMAIN taken = 1 .. Len(taken)
  BY DEF TsigInv, TsigTyped
<1>2. HaveNumbers(stream)
  <2>1. \A j \in 1 .. Len(stream) : stream[j].number \in 1 .. Len(sent)
    BY DEF TsigInv, StreamIs
  <2>2. \A j \in 1 .. Len(stream) : stream[j].number \in Nat
    BY <1>1, <2>1
  <2> QED
    BY <2>2 DEF HaveNumbers, TsigInv, TsigTyped
<1>3. Continues(NumbersOf(taken, stream), taken, stream)
  BY <1>1, <1>2, NumbersAre
<1>4. \A j \in 1 .. Len(taken) : taken[j] \in 1 .. Len(sent)
  <2> DEFINE all == NumbersOf(taken, stream)
             n == Len(sent)
  <2>1. all \in Seq(Nat) /\ Len(all) = Len(taken) + Len(stream)
        /\ \A i \in 1 .. Len(taken) : all[i] = taken[i]
    BY <1>3 DEF Continues
  <2>2. AreInOrder(all, n) /\ n \in Nat
    BY <1>1 DEF TsigInv, InOrder
  <2> HIDE DEF all, n
  <2>3. \A i \in 1 .. Len(all) : all[i] \in 1 .. n
    BY <2>1, <2>2, WholeByLength
  <2>4. \A j \in 1 .. Len(taken) : taken[j] \in 1 .. n
    BY <1>1, <2>1, <2>3
  <2> QED
    BY <2>4 DEF n
<1> QED
  BY <1>1, <1>2, <1>3, <1>4

LEMMA TickKeeps ==
    ASSUME TsigInv, Tick
    PROVE  TsigInv'
<1>1. clock \in Nat /\ clock' = clock + 1
      /\ UNCHANGED <<key, sent, serverCtx, stream, forwarded, taken, tsigCtx, outcome>>
  BY DEF TsigInv, TsigTyped, Tick
<1>2. TsigTyped'
  BY <1>1 DEF TsigInv, TsigTyped
<1>3. SentIs'
  <2>1. \A r : RecordIs(r, key, clock) => RecordIs(r, key, clock')
    BY <1>1 DEF RecordIs
  <2>2. ASSUME NEW i \in 1 .. Len(sent)
        PROVE  /\ sent[i].number = i /\ sent[i].id = Id
               /\ i = 1 => Signed(sent, i)
               /\ Signed(sent, i) =>
                     sent[i].tsig = <<sent[i].tsig[1]>> /\ RecordIs(sent[i].tsig[1], key, clock')
    BY <2>1 DEF TsigInv, SentIs
  <2> QED
    BY <1>1, <2>2 DEF SentIs
<1>4. StreamIs'
  BY <1>1 DEF TsigInv, StreamIs, IdNow
<1>5. InOrder'
  BY <1>1 DEF TsigInv, InOrder
<1>6. ServerCtxIs'
  BY <1>1 DEF TsigInv, ServerCtxIs
<1>7. MacsAre' /\ MacsDiffer'
  BY <1>1 DEF TsigInv, MacsAre, MacsDiffer
<1>8. ClientCtxIs'
  BY <1>1 DEF TsigInv, ClientCtxIs, Came, IdNow
<1>9. WholeStreamIsTaken'
  <2>1. ~Late' => ~Late
    <3> SUFFICES ASSUME NEW i \in DOMAIN sent, Signed(sent, i),
                        Differ(sent[i].tsig[1].time_signed, clock) > Fudge
                 PROVE  Late'
      BY DEF Late, Signed
    <3> DEFINE s == sent[i].tsig[1].time_signed
    <3>1. s \in Nat /\ s <= clock
      BY NumbersNow DEF TsigInv, SentIs, RecordIs
    <3> HIDE DEF s
    <3>2. Differ(s, clock) = clock - s
      BY <1>1, <3>1 DEF Differ
    <3>3. Differ(s, clock') = clock' - s
      BY <1>1, <3>1 DEF Differ
    <3>4. Fudge \in Nat
      BY TsigAssumption
    <3>5. Differ(s, clock') > Fudge
      <4>1. clock - s > Fudge
        BY <3>2 DEF s
      <4> QED
        BY <1>1, <3>1, <3>3, <3>4, <4>1
    <3> QED
      BY <1>1, <3>5 DEF Late, Signed, s
  <2> QED
    BY <1>1, <2>1 DEF TsigInv, WholeStreamIsTaken, IsWhole, Refused, IdsCovered
<1>10. SignedPartIsWhole'
  BY <1>1 DEF TsigInv, SignedPartIsWhole, IdsCovered
<1> QED
  BY <1>2, <1>3, <1>4, <1>5, <1>6, <1>7, <1>8, <1>9, <1>10 DEF TsigInv

LEMMA ForwardKeeps ==
    ASSUME TsigInv, Forward
    PROVE  TsigInv'
<1>1. UNCHANGED <<key, sent, serverCtx, clock, taken, tsigCtx, outcome>>
  BY DEF Forward
<1>2. PICK i \in DOMAIN stream : /\ stream' = [stream EXCEPT ![i].id = ForwardedId]
                                 /\ forwarded' = forwarded \cup {stream[i].number}
  BY DEF Forward
<1> DEFINE c == Len(stream)
           t == Len(taken)
           n == Len(sent)
           a == NumbersOf(taken, stream)
           y == stream[i]
           z == [y EXCEPT !.id = ForwardedId]
           more == stream'
<1>3. c \in Nat /\ i \in 1 .. c /\ DOMAIN stream = 1 .. c
  BY <1>2, NumbersNow
<1>4. more = [stream EXCEPT ![i] = z]
  BY <1>2
<1>5. /\ y = [id |-> y.id, body |-> y.body, tsig |-> y.tsig, number |-> y.number]
      /\ y.number \in 1 .. Len(sent) /\ y.body = sent[y.number].body /\ y.tsig = sent[y.number].tsig
  BY <1>2, <1>3 DEF TsigInv, StreamIs
<1> HIDE DEF y
<1>6. z = [id |-> ForwardedId, body |-> y.body, tsig |-> y.tsig, number |-> y.number]
  BY <1>5
<1> HIDE DEF z
<1>7. /\ z = [id |-> z.id, body |-> z.body, tsig |-> z.tsig, number |-> z.number]
      /\ z.body = y.body /\ z.tsig = y.tsig /\ z.number = y.number
  BY <1>6
<1>8. /\ \E S : more \in Seq(S)
      /\ Len(more) = c /\ DOMAIN more = 1 .. c
      /\ more[i] = z /\ \A j \in 1 .. c : j # i => more[j] = stream[j]
  <2>1. PICK S : stream \in Seq(S)
    BY DEF TsigInv, TsigTyped
  <2>2. stream \in Seq(S \cup {z})
    BY <2>1
  <2> QED
    BY <1>3, <1>4, <2>2
<1> HIDE DEF more
<1>9. \A j \in 1 .. c : more[j].number = stream[j].number
  BY <1>7, <1>8 DEF y
<1>10. NumbersOf(taken, more) = NumbersOf(taken, stream)
  <2>1. [j \in DOMAIN more |-> more[j].number] = [j \in DOMAIN stream |-> stream[j].number]
    BY <1>3, <1>8, <1>9
  <2> QED
    BY <2>1 DEF NumbersOf
<1>17. forwarded' = forwarded \cup {y.number} /\ forwarded \subseteq 1 .. n
  BY <1>2 DEF y, TsigInv, TsigTyped
\* The one forwarded comes after those taken and is the only one of its number.
<1>18. t \in Nat /\ n \in Nat /\ a \in Seq(Nat) /\ Len(a) = t + c
       /\ (\A j \in 1 .. t : a[j] = taken[j]) /\ \A j \in 1 .. c : a[t + j] = stream[j].number
  BY NumbersNow DEF Continues
<1>19. AreInOrder(a, n)
  BY DEF TsigInv, InOrder
<1> HIDE DEF a, n, t, c
<1>20. \A j, h \in 1 .. t + c : j < h => a[j] < a[h]
  <2> SUFFICES ASSUME NEW j \in 1 .. t + c, NEW h \in 1 .. t + c, j < h PROVE a[j] < a[h]
    OBVIOUS
  <2>1. a[j] - j <= a[h] - h
    BY <1>3, <1>18, <1>19 DEF AreInOrder
  <2>2. j \in 1 .. Len(a) /\ h \in 1 .. Len(a)
    BY <1>18
  <2>3. a[j] \in Nat /\ a[h] \in Nat
    BY <1>18, <2>2
  <2> QED
    BY <1>3, <1>18, <2>1, <2>3
<1>21. y.number >= t + i /\ \A j \in 1 .. c : j # i => stream[j].number # y.number
  <2>1. t + i \in 1 .. t + c /\ a[t + i] = y.number
    BY <1>3, <1>18 DEF y
  <2>2. a[t + i] >= t + i
    BY <1>18, <1>19, <2>1 DEF AreInOrder
  <2>3. ASSUME NEW j \in 1 .. c, j # i PROVE stream[j].number # y.number
    <3>1. t + j \in 1 .. t + c /\ a[t + j] = stream[j].number /\ t + j # t + i
      BY <1>3, <1>18, <2>3
    <3>5. t \in Nat /\ i \in Nat /\ j \in Nat
      BY <1>3, <1>18
    <3>2. t + j < t + i \/ t + i < t + j
      BY <2>3, <3>5
    <3>3. t + i \in 1 .. Len(a) /\ t + j \in 1 .. Len(a)
      BY <1>18, <2>1, <3>1
    <3>4. a[t + i] \in Nat /\ a[t + j] \in Nat
      BY <1>18, <3>3
    <3> QED
      BY <1>20, <2>1, <3>1, <3>2, <3>4
  <2> QED
    BY <2>1, <2>2, <2>3
<1>22. \A j \in 1 .. t : taken[j] # y.number /\ taken[j] \in 1 .. n
  <2>1. t + i \in 1 .. t + c /\ a[t + i] = y.number
    BY <1>3, <1>18 DEF y
  <2>2. ASSUME NEW j \in 1 .. t PROVE taken[j] # y.number
    <3>1. j \in 1 .. t + c /\ j < t + i /\ j \in 1 .. Len(a)
      BY <1>3, <1>18
    <3>2. a[j] < a[t + i] /\ a[j] = taken[j] /\ a[j] \in Nat
      BY <1>18, <1>20, <2>1, <3>1
    <3> QED
      BY <1>5, <2>1, <3>2, NumbersNow
  <2> QED
    BY <2>2, NumbersNow DEF t, n
<1>23. \A j : j # y.number => IdNow(j)' = IdNow(j)
  BY <1>17 DEF IdNow
<1>11. TsigTyped'
  <2>1. forwarded' \subseteq 1 .. Len(sent)
    BY <1>5, <1>17 DEF n
  <2> QED
    BY <1>1, <1>8, <2>1 DEF TsigInv, TsigTyped, more
<1>12. SentIs' /\ InOrder' /\ ServerCtxIs' /\ MacsAre' /\ MacsDiffer'
  <2>1. SentIs'
    BY <1>1 DEF TsigInv, SentIs
  <2>2. InOrder'
    BY <1>1, <1>10 DEF TsigInv, InOrder, more
  <2>3. ServerCtxIs'
    BY <1>1 DEF TsigInv, ServerCtxIs
  <2>4. MacsAre' /\ MacsDiffer'
    BY <1>1 DEF TsigInv, MacsAre, MacsDiffer
  <2> QED
    BY <2>1, <2>2, <2>3, <2>4
<1>13. StreamIs'
  <2>1. ASSUME NEW j \in 1 .. c
        PROVE  /\ more[j] = [id |-> more[j].id, body |-> more[j].body,
                             tsig |-> more[j].tsig, number |-> more[j].number]
               /\ more[j].number \in 1 .. Len(sent)
               /\ more[j].body = sent[more[j].number].body
               /\ more[j].tsig = sent[more[j].number].tsig
               /\ more[j].id = IF more[j].number \in forwarded' THEN ForwardedId ELSE Id
    <3>1. CASE j = i
      <4>1. y.number \in forwarded'
        BY <1>17
      <4>2. z.id = ForwardedId
        BY <1>6
      <4> QED
        BY <1>5, <1>7, <1>8, <3>1, <4>1, <4>2
    <3>2. CASE j # i
      <4>1. stream[j].number \in forwarded' <=> stream[j].number \in forwarded
        BY <1>17, <1>21, <3>2
      <4> QED
        BY <1>8, <3>2, <4>1 DEF TsigInv, StreamIs, c, IdNow
    <3> QED
      BY <3>1, <3>2
  <2> QED
    BY <1>1, <1>8, <2>1 DEF StreamIs, IdNow, more
<1>14. ClientCtxIs'
  <2>1. ASSUME outcome = "reading", taken = <<>>, sent # <<>>
        PROVE  stream' # <<>> /\ stream'[1].number = 1
    <3>1. stream[1].number = 1
      BY <2>1 DEF TsigInv, ClientCtxIs
    <3>2. 1 \in 1 .. c /\ c # 0
      BY <1>3
    <3>3. more # <<>> /\ more[1].number = 1
      BY <1>8, <1>9, <3>1, <3>2
    <3> QED
      BY <3>3 DEF more
  <2>2. ASSUME outcome = "reading", taken # <<>>
        PROVE  /\ key = ClientKey
               /\ \E s \in 1 .. Len(taken) :
                      /\ taken[s] = s /\ Signed(sent, s)
                      /\ \A j \in s + 1 .. Len(taken) : ~Signed(sent, taken[j])
                      /\ tsigCtx = Ctx(ClientKey, Came', s, taken)
    <3>1. PICK s \in 1 .. Len(taken) :
              /\ key = ClientKey
              /\ taken[s] = s /\ Signed(sent, s)
              /\ \A j \in s + 1 .. Len(taken) : ~Signed(sent, taken[j])
              /\ tsigCtx = Ctx(ClientKey, Came, s, taken)
      BY <2>2 DEF TsigInv, ClientCtxIs
    <3>2. \A j \in 1 .. t : Came'[taken[j]] = Came[taken[j]]
      <4>1. DOMAIN sent = 1 .. n
        BY NumbersNow DEF n
      <4> QED
        BY <1>1, <1>22, <1>23, <4>1 DEF Came
    <3> DEFINE came == Came'
    <3>3. came[s] = Came[s] /\ \A j \in 1 .. Len(taken) : came[taken[j]] = Came[taken[j]]
      BY <3>1, <3>2 DEF t
    <3> HIDE DEF came
    <3>4. Since(came, s, taken) = Since(Came, s, taken)
      BY <3>1, <3>3, NumbersNow, SinceStays
    <3> QED
      BY <3>1, <3>4 DEF Ctx, came
  <2> QED
    BY <1>1, <2>1, <2>2 DEF TsigInv, ClientCtxIs
<1>15. WholeStreamIsTaken'
  <2>1. IsWhole' => IsWhole
    BY <1>1, <1>10 DEF IsWhole, NumbersOf, more
  <2>2. IdsCovered(Len(sent))' => IdsCovered(Len(sent))
    BY <1>1, <1>17 DEF IdsCovered
  <2> QED
    BY <1>1, <2>1, <2>2 DEF TsigInv, WholeStreamIsTaken, Late, Refused
<1>16. SignedPartIsWhole'
  <2>1. DOMAIN taken = 1 .. t
    BY NumbersNow DEF t
  <2>2. \A j \in 1 .. t : IdsCovered(j) => IdsCovered(j)'
    <3>1. \A j \in 1 .. t : ~(y.number <= j)
      BY <1>3, <1>5, <1>18, <1>21, NumbersNow
    <3> QED
      BY <1>1, <1>17, <3>1 DEF IdsCovered
  <2> QED
    BY <1>1, <2>1, <2>2 DEF TsigInv, SignedPartIsWhole
<1> QED
  BY <1>11, <1>12, <1>13, <1>14, <1>15, <1>16 DEF TsigInv

LEMMA RemoveAtIs ==
    ASSUME NEW S, NEW s \in Seq(S), NEW i \in 1 .. Len(s)
    PROVE  /\ RemoveAt(s, i) \in Seq(S) /\ Len(RemoveAt(s, i)) = Len(s) - 1
           /\ \A j \in 1 .. Len(s) - 1 : RemoveAt(s, i)[j] = s[IF j < i THEN j ELSE j + 1]
<1> DEFINE a == SubSeq(s, 1, i - 1)
           b == SubSeq(s, i + 1, Len(s))
           n == Len(s)
<1>1. n \in Nat /\ i \in 1 .. n /\ \A j \in 1 .. n : s[j] \in S
  OBVIOUS
<1>2. a \in Seq(S) /\ Len(a) = i - 1 /\ \A j \in 1 .. i - 1 : a[j] = s[j]
  BY <1>1, SubSeqProperties
<1>3. b \in Seq(S) /\ Len(b) = n - i /\ \A j \in 1 .. n - i : b[j] = s[i + j]
  <2>1. \A j \in i + 1 .. n : s[j] \in S
    BY <1>1
  <2>2. /\ b \in Seq(S) /\ Len(b) = IF i + 1 <= n THEN n - (i + 1) + 1 ELSE 0
        /\ \A j \in 1 .. n - (i + 1) + 1 : b[j] = s[(i + 1) + j - 1]
    BY <1>1, <2>1, SubSeqProperties
  <2>3. (n - (i + 1)) + 1 = n - i /\ (i + 1 <= n \/ n - i = 0)
    BY <1>1
  <2>4. \A j \in 1 .. n - i : (i + 1) + j - 1 = i + j
    BY <1>1
  <2> HIDE DEF b, n
  <2> QED
    BY <2>2, <2>3, <2>4
<1> HIDE DEF a, b, n
<1>4. /\ a \o b \in Seq(S) /\ Len(a \o b) = Len(a) + Len(b)
      /\ \A j \in 1 .. Len(a) + Len(b) : (a \o b)[j] = IF j <= Len(a) THEN a[j] ELSE b[j - Len(a)]
  BY <1>2, <1>3, ConcatProperties
<1>5. Len(a) + Len(b) = n - 1
  BY <1>1, <1>2, <1>3
<1>6. ASSUME NEW j \in 1 .. n - 1 PROVE (a \o b)[j] = s[IF j < i THEN j ELSE j + 1]
  <2>1. CASE j < i
    BY <1>1, <1>2, <1>4, <1>5, <2>1
  <2>2. CASE ~(j < i)
    <3>1. ~(j <= i - 1) /\ j - (i - 1) \in 1 .. n - i /\ i + (j - (i - 1)) = j + 1
      BY <1>1, <2>2
    <3>2. (a \o b)[j] = b[j - (i - 1)]
      BY <1>2, <1>4, <1>5, <3>1
    <3>3. b[j - (i - 1)] = s[j + 1]
      BY <1>3, <3>1
    <3> QED
      BY <2>2, <3>2, <3>3
  <2> QED
    BY <2>1, <2>2
<1> QED
  BY <1>4, <1>5, <1>6 DEF RemoveAt, a, b, n

LEMMA LoseKeeps ==
    ASSUME TsigInv, Lose
    PROVE  TsigInv'
<1>1. UNCHANGED <<key, sent, serverCtx, forwarded, clock, taken, tsigCtx, outcome>>
  BY DEF Lose
<1>2. PICK i \in DOMAIN stream : stream[i].number > 1 /\ stream' = RemoveAt(stream, i)
  BY DEF Lose
<1> DEFINE c == Len(stream) - 1
           t == Len(taken)
           n == Len(sent)
           more == stream'
           a == NumbersOf(taken, stream)
           b == NumbersOf(taken, more)
           at(j) == IF j < i THEN j ELSE j + 1
<1>3. /\ c \in Nat /\ Len(stream) = c + 1 /\ i \in 1 .. c + 1 /\ t \in Nat /\ n \in Nat
      /\ DOMAIN stream = 1 .. c + 1
  BY <1>2, NumbersNow
<1>4. (\E S : more \in Seq(S)) /\ Len(more) = c /\ \A j \in 1 .. c : more[j] = stream[at(j)]
  <2>1. PICK S : stream \in Seq(S)
    BY DEF TsigInv, TsigTyped
  <2>2. i \in 1 .. Len(stream)
    BY <1>3
  <2> QED
    BY <1>2, <2>1, <2>2, RemoveAtIs
<1>5. a \in Seq(Nat) /\ Len(a) = t + (c + 1)
      /\ (\A j \in 1 .. t : a[j] = taken[j]) /\ \A j \in 1 .. c + 1 : a[t + j] = stream[j].number
  BY <1>3, NumbersNow DEF Continues
<1>6. AreInOrder(a, n)
  BY DEF TsigInv, InOrder
<1> HIDE DEF c, t, n, more, a, b
<1>7. \A j \in 1 .. c : at(j) \in 1 .. c + 1
  BY <1>3
<1> HIDE DEF at
<1>8. \A j \in 1 .. c + 1 :
          /\ stream[j] = [id |-> stream[j].id, body |-> stream[j].body,
                          tsig |-> stream[j].tsig, number |-> stream[j].number]
          /\ stream[j].number \in 1 .. n
          /\ stream[j].body = sent[stream[j].number].body
          /\ stream[j].tsig = sent[stream[j].number].tsig
          /\ stream[j].id = IdNow(stream[j].number)
  BY <1>3 DEF TsigInv, StreamIs, n
<1>9. StreamIs'
  <2>1. ASSUME NEW j \in 1 .. c
        PROVE  /\ more[j] = [id |-> more[j].id, body |-> more[j].body,
                             tsig |-> more[j].tsig, number |-> more[j].number]
               /\ more[j].number \in 1 .. n
               /\ more[j].body = sent[more[j].number].body
               /\ more[j].tsig = sent[more[j].number].tsig
               /\ more[j].id = IdNow(more[j].number)
    <3> DEFINE y == stream[at(j)]
    <3>1. more[j] = y
      BY <1>4
    <3>2. /\ y = [id |-> y.id, body |-> y.body, tsig |-> y.tsig, number |-> y.number]
          /\ y.number \in 1 .. n /\ y.body = sent[y.number].body /\ y.tsig = sent[y.number].tsig
          /\ y.id = IdNow(y.number)
      BY <1>7, <1>8
    <3> HIDE DEF y
    <3> QED
      BY <3>1, <3>2
  <2> QED
    BY <1>1, <1>4, <2>1 DEF StreamIs, IdNow, more, n
<1>10. Continues(b, taken, more)
  <2>1. HaveNumbers(more)
    <3>1. \A j \in 1 .. c : more[j].number \in Nat
      BY <1>3, <1>4, <1>7, <1>8
    <3> QED
      BY <1>4, <3>1 DEF HaveNumbers
  <2> QED
    BY <2>1, NumbersAre, NumbersNow DEF b
<1>11. b \in Seq(Nat) /\ Len(b) = t + c
      /\ (\A j \in 1 .. t : b[j] = taken[j]) /\ \A j \in 1 .. c : b[t + j] = more[j].number
  BY <1>4, <1>10 DEF Continues, t
<1>12. AreInOrder(b, n)
  <2> DEFINE d == t + c
             l == t + i
             from(j) == IF j < l THEN j ELSE j + 1
  <2>1. d \in Nat /\ Len(a) = d + 1 /\ Len(b) = d /\ l \in 1 .. d + 1 /\ \A j \in 1 .. d + 1 : a[j] \in Nat
    <3>1. d \in Nat /\ Len(a) = d + 1 /\ Len(b) = d /\ l \in 1 .. d + 1
      BY <1>3, <1>5, <1>11
    <3> HIDE DEF d, l
    <3>2. \A j \in 1 .. d + 1 : a[j] \in Nat
      BY <1>5, <3>1
    <3> QED
      BY <3>1, <3>2
  <2>2. ASSUME NEW j \in 1 .. d PROVE b[j] = a[IF j < l THEN j ELSE j + 1]
    <3>1. CASE j \in 1 .. t
      <4>1. j < l
        BY <1>3, <3>1
      <4>2. b[j] = taken[j] /\ a[j] = taken[j]
        BY <1>5, <1>11, <3>1
      <4> QED
        BY <4>1, <4>2
    <3>2. CASE j \notin 1 .. t
      <4> DEFINE h == j - t
      <4>1. h \in 1 .. c /\ j = t + h
        BY <1>3, <3>2
      <4>2. (j < l <=> h < i) /\ j + 1 = t + (h + 1)
        BY <1>3, <4>1
      <4> HIDE DEF h, l
      <4>3. b[j] = stream[at(h)].number
        BY <1>4, <1>11, <4>1
      <4>4. a[t + at(h)] = stream[at(h)].number
        BY <1>5, <1>7, <4>1
      <4>5. (IF j < l THEN j ELSE j + 1) = t + at(h)
        BY <1>3, <4>1, <4>2 DEF at
      <4> QED
        BY <4>3, <4>4, <4>5
    <3> QED
      BY <3>1, <3>2
  <2> HIDE DEF d, l
  <2> QED
    BY <1>3, <1>6, <2>1, <2>2, LoseInOrder
<1>13. TsigTyped'
  BY <1>1, <1>4 DEF TsigInv, TsigTyped, more
<1>14. SentIs' /\ InOrder' /\ ServerCtxIs' /\ MacsAre' /\ MacsDiffer'
  <2>1. SentIs'
    BY <1>1 DEF TsigInv, SentIs
  <2>2. InOrder'
    BY <1>1, <1>12 DEF InOrder, more, b, n
  <2>3. ServerCtxIs'
    BY <1>1 DEF TsigInv, ServerCtxIs
  <2>4. MacsAre' /\ MacsDiffer'
    BY <1>1 DEF TsigInv, MacsAre, MacsDiffer
  <2> QED
    BY <2>1, <2>2, <2>3, <2>4
<1>15. ClientCtxIs'
  <2>1. ASSUME outcome = "reading", taken = <<>>, sent # <<>>
        PROVE  stream' # <<>> /\ stream'[1].number = 1
    <3>1. stream[1].number = 1
      BY <2>1 DEF TsigInv, ClientCtxIs
    <3>2. i # 1
      BY <1>2, <3>1
    <3>3. 1 \in 1 .. c /\ c # 0 /\ 1 < i
      BY <1>3, <3>2
    <3>4. more # <<>>
      BY <1>4, <3>3
    <3>5. more[1] = stream[1]
      BY <1>4, <3>3 DEF at
    <3> QED
      BY <3>1, <3>4, <3>5 DEF more
  <2> QED
    BY <1>1, <2>1 DEF TsigInv, ClientCtxIs, Came, IdNow
<1>16. WholeStreamIsTaken'
  <2>1. ~IsWhole'
    <3>1. SUFFICES ASSUME b = FirstNumbers(n) PROVE FALSE
      BY <1>1 DEF IsWhole, NumbersOf, b, more, n
    <3>2. Len(b) = n
      BY <1>3, <3>1, FirstNumbersAre
    <3>3. Len(a) <= n
      BY <1>6 DEF AreInOrder
    <3> QED
      BY <1>3, <1>5, <1>11, <3>2, <3>3
  <2> QED
    BY <2>1 DEF WholeStreamIsTaken
<1>17. SignedPartIsWhole'
  BY <1>1 DEF TsigInv, SignedPartIsWhole, IdsCovered
<1> QED
  BY <1>9, <1>13, <1>14, <1>15, <1>16, <1>17 DEF TsigInv

\* The next message to be read
LEMMA NextIs ==
    ASSUME TsigInv, stream # <<>>
    PROVE  LET m == Head(stream)
           IN /\ m = stream[1] /\ Len(stream) >= 1 /\ sent # <<>>
              /\ m.number \in 1 .. Len(sent) /\ m.number >= Len(taken) + 1
              /\ m.number - 1 <= Len(sent) - Len(stream)
              /\ m.body = sent[m.number].body /\ m.tsig = sent[m.number].tsig
              /\ m.id = IdNow(m.number)
              /\ m.number = Len(taken) + 1 => \A i \in 1 .. Len(taken) : taken[i] = i
<1> DEFINE m == Head(stream)
           a == NumbersOf(taken, stream)
           t == Len(taken)
           c == Len(stream)
           n == Len(sent)
<1>1. t \in Nat /\ c \in Nat /\ n \in Nat /\ a \in Seq(Nat) /\ Len(a) = t + c
      /\ (\A j \in 1 .. t : a[j] = taken[j]) /\ \A j \in 1 .. c : a[t + j] = stream[j].number
  BY NumbersNow DEF Continues
<1>2. m = stream[1] /\ c # 0
  <2>1. PICK S : stream \in Seq(S)
    BY DEF TsigInv, TsigTyped
  <2> QED
    BY <2>1, EmptySeq
<1>3. /\ m.number \in 1 .. n /\ m.body = sent[m.number].body /\ m.tsig = sent[m.number].tsig
      /\ m.id = IdNow(m.number)
  <2>1. 1 \in 1 .. c
    BY <1>1, <1>2
  <2> QED
    BY <1>2, <2>1 DEF TsigInv, StreamIs
<1>4. AreInOrder(a, n)
  BY DEF TsigInv, InOrder
<1> HIDE DEF m, a, t, c, n
<1>5. t + 1 \in 1 .. Len(a) /\ a[t + 1] = m.number
  BY <1>1, <1>2
<1>6. a[t + 1] >= t + 1 /\ a[t + 1] - (t + 1) <= n - Len(a)
  BY <1>4, <1>5 DEF AreInOrder
<1>7. m.number >= t + 1 /\ m.number - 1 <= n - c
  BY <1>1, <1>3, <1>5, <1>6, SMTT(30)
<1>8. ASSUME m.number = t + 1, NEW i \in 1 .. t PROVE taken[i] = i
  <2>1. i \in 1 .. t + 1
    BY <1>1
  <2>2. a[i] = i
    BY <1>1, <1>4, <1>5, <1>8, <2>1, WholeByLength
  <2> QED
    BY <1>1, <2>2
<1>9. sent # <<>>
  BY <1>1, <1>3 DEF n
<1>10. c >= 1
  BY <1>1, <1>2
<1> QED
  BY <1>2, <1>3, <1>7, <1>8, <1>9, <1>10 DEF m, t, c, n

\* The messages that come are those sent but for the ids of some.
LEMMA CameIs ==
    ASSUME TsigInv
    PROVE  \A i \in 1 .. Len(sent) :
               /\ MacOf(Came, i) = MacOf(sent, i)
               /\ SignedWireOf(Came, i) = SignedWireOf(sent, i)
               /\ TimesOf(Came, i) = TimesOf(sent, i)
               /\ WireOf(Came, i) = <<IdNow(i), sent[i].body>>
               /\ WireOf(Came, i) = WireOf(sent, i) <=> i \notin forwarded
<1> SUFFICES ASSUME NEW i \in 1 .. Len(sent)
             PROVE  /\ MacOf(Came, i) = MacOf(sent, i)
                    /\ SignedWireOf(Came, i) = SignedWireOf(sent, i)
                    /\ TimesOf(Came, i) = TimesOf(sent, i)
                    /\ WireOf(Came, i) = <<IdNow(i), sent[i].body>>
                    /\ WireOf(Came, i) = WireOf(sent, i) <=> i \notin forwarded
  OBVIOUS
<1>1. i \in DOMAIN sent
  BY NumbersNow
<1>2. Came[i] = [id |-> IdNow(i), body |-> sent[i].body, tsig |-> sent[i].tsig]
  BY <1>1 DEF Came
<1>3. Came[i].id = IdNow(i) /\ Came[i].body = sent[i].body /\ Came[i].tsig = sent[i].tsig
  BY <1>2
<1>4. sent[i].id = Id
  BY DEF TsigInv, SentIs
<1>5. IdNow(i) = Id <=> i \notin forwarded
  BY DEF IdNow, Id, ForwardedId
<1>6. WireOf(Came, i) = <<IdNow(i), sent[i].body>> /\ WireOf(sent, i) = <<Id, sent[i].body>>
  BY <1>3, <1>4 DEF WireOf
<1> QED
  BY <1>3, <1>5, <1>6 DEF MacOf, SignedWireOf, TimesOf

\* What a signed message is taken for
LEMMA ReadSigned ==
    ASSUME NEW m, NEW now, NEW ctx, m.tsig # <<>>
    PROVE  LET r == ReadMessage(m, now, RequestMac, ctx)
               rdata == m.tsig[1]
           IN /\ r.error = "none" <=>
                    /\ rdata.owner = ClientKey.name /\ rdata.error = "NOERROR"
                    /\ ~(Differ(rdata.time_signed, now) > rdata.fudge)
                    /\ ClientKey.algorithm = rdata.algorithm
                    /\ Mac(DigestOf(m, ClientKey, rdata, RequestMac, ctx, TRUE)) = rdata.mac
              /\ r.error = "none" => r.ctx = MaybeStartDigest(ClientKey, rdata.mac, TRUE)
              /\ r.error # "reading"
<1> DEFINE rdata == m.tsig[1]
           v == Validate(m, ClientKey, rdata.owner, rdata, now, RequestMac, ctx, TRUE)
<1>1. Keyring(rdata.owner) = {} <=> ClientKey.name # rdata.owner
  BY DEF Keyring
<1>2. \A e, x : Validated(e, x).error = e /\ Validated(e, x).ctx = x
  BY DEF Validated
<1>3. /\ v.error = "none" <=>
             /\ rdata.error = "NOERROR" /\ ~(Differ(rdata.time_signed, now) > rdata.fudge)
             /\ ClientKey.name = rdata.owner /\ ClientKey.algorithm = rdata.algorithm
             /\ Mac(DigestOf(m, ClientKey, rdata, RequestMac, ctx, TRUE)) = rdata.mac
      /\ v.error = "none" => v.ctx = MaybeStartDigest(ClientKey, rdata.mac, TRUE)
      /\ v.error # "reading"
  <2> DEFINE late == Differ(rdata.time_signed, now) > rdata.fudge
             e == IF rdata.error \in PeerErrors THEN rdata.error ELSE "PeerError"
             digest == DigestOf(m, ClientKey, rdata, RequestMac, ctx, TRUE)
  <2>1. v = IF rdata.error # "NOERROR" THEN Validated(e, NoContext)
            ELSE IF late THEN Validated("BadTime", NoContext)
            ELSE IF ClientKey.name # rdata.owner THEN Validated("BadKey", NoContext)
            ELSE IF ClientKey.algorithm # rdata.algorithm THEN Validated("BadAlgorithm", NoContext)
            ELSE IF Mac(digest) # rdata.mac THEN Validated("BadSignature", NoContext)
            ELSE Validated("none", MaybeStartDigest(ClientKey, rdata.mac, TRUE))
    BY Zenon DEF Validate
  <2>2. e # "none" /\ e # "reading"
    BY DEF PeerErrors
  <2> HIDE DEF late, e, digest, v, rdata
  <2>3. CASE rdata.error # "NOERROR"
    BY <1>2, <2>1, <2>2, <2>3
  <2>4. CASE rdata.error = "NOERROR" /\ late
    BY <1>2, <2>1, <2>4 DEF late
  <2>5. CASE rdata.error = "NOERROR" /\ ~late /\ ClientKey.name # rdata.owner
    BY <1>2, <2>1, <2>5 DEF late
  <2>6. CASE /\ rdata.error = "NOERROR" /\ ~late /\ ClientKey.name = rdata.owner
             /\ ClientKey.algorithm # rdata.algorithm
    BY <1>2, <2>1, <2>6 DEF late
  <2>7. CASE /\ rdata.error = "NOERROR" /\ ~late /\ ClientKey.name = rdata.owner
             /\ ClientKey.algorithm = rdata.algorithm
    <3> DEFINE next == MaybeStartDigest(ClientKey, rdata.mac, TRUE)
    <3>1. /\ Mac(digest) # rdata.mac => v = Validated("BadSignature", NoContext)
          /\ Mac(digest) = rdata.mac => v = Validated("none", next)
      BY <2>1, <2>7
    <3> HIDE DEF next
    <3>2. /\ v.error = "none" <=> Mac(digest) = rdata.mac
          /\ v.error = "none" => v.ctx = next
          /\ v.error # "reading"
      BY <1>2, <3>1
    <3> QED
      BY <2>7, <3>2 DEF next, late, digest
  <2> QED
    BY <2>3, <2>4, <2>5, <2>6, <2>7
<1>4. CASE ClientKey.name # rdata.owner
  <2> DEFINE r == ReadMessage(m, now, RequestMac, ctx)
  <2>1. r = Validated("UnknownTSIGKey", NoContext)
    BY <1>1, <1>4 DEF ReadMessage
  <2> HIDE DEF r
  <2>2. r.error = "UnknownTSIGKey"
    BY <1>2, <2>1
  <2>3. r.error # "none" /\ r.error # "reading"
    BY <2>2
  <2> QED
    BY <1>4, <2>3 DEF r
<1>5. CASE ClientKey.name = rdata.owner
  <2>1. ReadMessage(m, now, RequestMac, ctx) = v
    BY <1>1, <1>5 DEF ReadMessage
  <2> HIDE DEF v
  <2> QED
    BY <1>3, <1>5, <2>1
<1> QED
  BY <1>4, <1>5

\* and the digest that it is compared with.
ClientDigest(m) == Mac(DigestOf(m, ClientKey, m.tsig[1], RequestMac, tsigCtx, TRUE))

LEMMA ClientDigestIs ==
    ASSUME TsigInv, outcome = "reading", stream # <<>>, Head(stream).tsig # <<>>
    PROVE  LET m == Head(stream)
           IN /\ Signed(sent, m.number) /\ m.tsig[1] = sent[m.number].tsig[1]
              /\ m.tsig[1].mac = MacOf(sent, m.number) /\ RecordIs(m.tsig[1], key, clock)
              /\ IF taken = <<>>
                 THEN ClientDigest(m) = FirstMac(ClientKey, sent, m.number)
                 ELSE \E s \in 1 .. Len(taken) :
                        /\ taken[s] = s /\ Signed(sent, s)
                        /\ \A j \in s + 1 .. Len(taken) : ~Signed(sent, taken[j])
                        /\ ClientDigest(m) = LaterMac(ClientKey, Came, s, taken, m.number)
<1> DEFINE m == Head(stream)
           q == m.number
           r == m.tsig[1]
<1>1. q \in 1 .. Len(sent) /\ m.tsig = sent[q].tsig /\ m.body = sent[q].body
  BY NextIs
<1> HIDE DEF m, q
<1>2. Signed(sent, q) /\ r = sent[q].tsig[1] /\ r.mac = MacOf(sent, q)
  BY <1>1 DEF Signed, MacOf, m
<1>3. RecordIs(r, key, clock)
  BY <1>1, <1>2 DEF TsigInv, SentIs
<1> HIDE DEF r
<1>4. SignedWireOf(sent, q) = <<r.original_id, m.body>> /\ TimesOf(sent, q) = <<"times", r.time_signed, r.fudge>>
  BY <1>1, <1>2, <1>3 DEF SignedWireOf, TimesOf, RecordIs
<1>7. SignedWireOf(Came, q) = <<r.original_id, m.body>> /\ TimesOf(Came, q) = <<"times", r.time_signed, r.fudge>>
  BY <1>1, <1>4, CameIs
<1>5. CASE taken = <<>>
  <2>1. tsigCtx = NoContext
    BY <1>5 DEF TsigInv, ClientCtxIs
  <2>2. ClientDigest(m) = Hash(ClientKey, <<RequestMac>> \o
            <<<<r.original_id, m.body>>, ClientKey.name, ClientKey.algorithm,
              <<"times", r.time_signed, r.fudge>>, <<r.error, r.other>>>>)
    BY <2>1, DigestOfFirst DEF ClientDigest, r
  <2>3. ClientDigest(m) = FirstMac(ClientKey, sent, q)
    BY <1>2, <1>4, <2>2, Zenon DEF FirstMac
  <2> QED
    BY <1>2, <1>3, <1>5, <2>3 DEF m, q, r
<1>6. CASE taken # <<>>
  <2>1. PICK s \in 1 .. Len(taken) :
            /\ taken[s] = s /\ Signed(sent, s)
            /\ \A j \in s + 1 .. Len(taken) : ~Signed(sent, taken[j])
            /\ tsigCtx = Ctx(ClientKey, Came, s, taken)
    BY <1>6 DEF TsigInv, ClientCtxIs
  <2>2. IsDigest(tsigCtx, ClientKey, Since(Came, s, taken))
    BY <2>1 DEF Ctx, IsDigest
  <2>3. ClientDigest(m) = LaterHash(ClientKey, Since(Came, s, taken), m, r)
    BY <2>2, DigestOfLater, ZenonT(60) DEF ClientDigest, r
  <2>4. ClientDigest(m) = LaterMac(ClientKey, Came, s, taken, q)
    BY <1>7, <2>3, Zenon DEF LaterHash, LaterMac
  <2> QED
    BY <1>2, <1>3, <1>6, <2>1, <2>4 DEF m, q, r
<1> QED
  BY <1>5, <1>6

\* A signature is right for the message after those that were taken, if the
\* server has the client's key and the ids of the unsigned ones are as they
\* were, and for no other.
LEMMA SignatureIsOfNext ==
    ASSUME TsigInv, outcome = "reading", stream # <<>>, Head(stream).tsig # <<>>
    PROVE  LET m == Head(stream)
           IN ClientDigest(m) = m.tsig[1].mac <=>
                /\ key = ClientKey /\ m.number = Len(taken) + 1 /\ IdsCovered(m.number)
<1> DEFINE m == Head(stream)
           q == m.number
           t == Len(taken)
           n == Len(sent)
<1>1. q \in 1 .. n /\ q >= t + 1 /\ (q = t + 1 => \A i \in 1 .. t : taken[i] = i) /\ sent # <<>>
  BY NextIs
<1>2. Signed(sent, q) /\ m.tsig[1].mac = MacOf(sent, q)
  BY ClientDigestIs
<1>3. t \in Nat /\ n \in Nat /\ taken \in Seq(Nat)
  BY NumbersNow
<1>4. /\ q = 1 => MacOf(sent, q) = FirstMac(key, sent, q)
      /\ q # 1 => \E l \in 1 .. q - 1 :
                     /\ IsLastSigned(sent, l, q - 1)
                     /\ MacOf(sent, q) = LaterMac(key, sent, l, FirstNumbers(q - 1), q)
  BY <1>1, <1>2 DEF TsigInv, MacsAre
<1>5. CASE taken = <<>>
  <2>1. ClientDigest(m) = FirstMac(ClientKey, sent, q)
    BY <1>5, ClientDigestIs
  <2>2. q = 1 /\ t = 0
    <3>1. stream[1].number = 1
      BY <1>1, <1>5 DEF TsigInv, ClientCtxIs
    <3>2. m = stream[1]
      BY NextIs
    <3> QED
      BY <1>5, <3>1, <3>2
  <2>3. KeyType(key) /\ KeyType(ClientKey)
    BY TsigAssumption DEF KeyType, TsigInv, TsigTyped
  <2> HIDE DEF m, q, t, n
  <2>4. MacOf(sent, q) = FirstMac(key, sent, q)
    BY <1>4, <2>2
  <2>5. FirstMac(ClientKey, sent, q) = FirstMac(key, sent, q) => key = ClientKey
    BY <2>3, FirstMacsEqual
  <2>6. IdsCovered(q)
    <3>1. Signed(sent, 1) /\ forwarded \subseteq 1 .. Len(sent)
      BY <1>1, <2>2 DEF TsigInv, SentIs, TsigTyped, n
    <3>2. \A i \in forwarded : i <= 1 => i = 1
      BY <3>1
    <3> QED
      BY <2>2, <3>1, <3>2 DEF IdsCovered, Signed
  <2> QED
    BY <1>2, <2>1, <2>2, <2>4, <2>5, <2>6 DEF m, q, t
<1>6. CASE taken # <<>>
  <2>1. key = ClientKey
    BY <1>6 DEF TsigInv, ClientCtxIs
  <2>2. PICK s \in 1 .. t :
            /\ taken[s] = s /\ Signed(sent, s)
            /\ \A j \in s + 1 .. t : ~Signed(sent, taken[j])
            /\ ClientDigest(m) = LaterMac(ClientKey, Came, s, taken, q)
    BY <1>6, ClientDigestIs
  <2> HIDE DEF m, q, n
  <2>3. q # 1
    BY <1>1, <1>3, <2>2
  <2>4. PICK l \in 1 .. q - 1 :
            /\ IsLastSigned(sent, l, q - 1)
            /\ MacOf(sent, q) = LaterMac(key, sent, l, FirstNumbers(q - 1), q)
    BY <1>4, <2>3
  <2> DEFINE to == FirstNumbers(q - 1)
  <2>5. to \in Seq(Nat) /\ Len(to) = q - 1 /\ \A i \in 1 .. q - 1 : to[i] = i
    <3>1. q - 1 \in Nat
      BY <1>1, <1>3, <2>3
    <3> QED
      BY <3>1, FirstNumbersAre
  <2>6. MacOf(sent, q) = LaterMac(key, sent, l, to, q)
    BY <2>4
  <2> HIDE DEF to
  <2>7. ASSUME ClientDigest(m) = MacOf(sent, q) PROVE q = t + 1 /\ s = l
    <3>1. LaterMac(ClientKey, Came, s, taken, q) = LaterMac(key, sent, l, to, q)
      BY <2>2, <2>6, <2>7
    <3>2. /\ LaterMac(ClientKey, Came, s, taken, q).data[1] = MacOf(Came, s)
          /\ Len(LaterMac(ClientKey, Came, s, taken, q).data) = t - s + 3
      BY <1>3, LaterMacIs
    <3>3. l \in 1 .. Len(to)
      BY <2>5
    <3>4. /\ LaterMac(key, sent, l, to, q).data[1] = MacOf(sent, l)
          /\ Len(LaterMac(key, sent, l, to, q).data) = Len(to) - l + 3
      <4>1. to \in Seq(Nat)
        BY <2>5
      <4> QED
        BY <3>3, <4>1, LaterMacIs
    <3>6. s \in 1 .. n /\ l \in 1 .. n
      BY <1>1, <1>3
    <3>5. MacOf(sent, s) = MacOf(sent, l)
      BY <3>1, <3>2, <3>4, <3>6, CameIs DEF n
    <3>7. Signed(sent, l)
      BY <2>4 DEF IsLastSigned
    <3>8. s = l
      BY <2>2, <3>5, <3>6, <3>7 DEF TsigInv, MacsDiffer, n
    <3>9. t - s + 3 = q - 1 - l + 3
      BY <2>5, <3>1, <3>2, <3>4
    <3> HIDE DEF t
    <3>10. q \in Nat /\ s \in Nat /\ t \in Nat
      BY <1>1, <1>3, <2>2
    <3>11. t - s + 3 = q - 1 - s + 3
      BY <3>8, <3>9
    <3> QED
      BY <3>8, <3>10, <3>11
  <2>9. ASSUME q = t + 1 PROVE taken = to /\ q - 1 = t /\ \A i \in 1 .. t : taken[i] = i
    <3>1. \A i \in 1 .. t : taken[i] = i
      BY <1>1, <2>9
    <3>2. q - 1 = t
      BY <1>3, <2>9
    <3>3. taken = to
      BY <1>3, <2>5, <3>1, <3>2, SeqEqual
    <3> QED
      BY <3>1, <3>2, <3>3
  <2>10. ASSUME ClientDigest(m) = MacOf(sent, q) PROVE IdsCovered(q)
    <3>1. q = t + 1 /\ s = l /\ taken = to /\ \A i \in 1 .. t : taken[i] = i
      BY <2>7, <2>9, <2>10
    <3>2. LaterMac(ClientKey, Came, s, taken, q) = LaterMac(key, sent, s, taken, q)
      BY <2>2, <2>6, <2>10, <3>1
    <3>3. \A j \in s + 1 .. t : WireOf(Came, taken[j]) = WireOf(sent, taken[j])
      BY <1>3, <2>2, <3>2, LaterMacsEqual
    <3>4. \A j \in s + 1 .. t : j \notin forwarded
      <4>1. \A j \in s + 1 .. t : j \in 1 .. n /\ taken[j] = j
        BY <1>1, <1>3, <2>2, <3>1
      <4> QED
        BY <3>3, <4>1, CameIs DEF n
    <3>5. IdsCovered(s)
      <4>1. s \in DOMAIN taken /\ sent[taken[s]].tsig # <<>>
        BY <2>2, NumbersNow DEF Signed, t
      <4> QED
        BY <4>1 DEF TsigInv, SignedPartIsWhole
    <3>6. ASSUME NEW i \in forwarded, i <= q PROVE sent[i].tsig # <<>>
      <4>1. i \in 1 .. n
        BY DEF TsigInv, TsigTyped, n
      <4>2. i <= s \/ i \in s + 1 .. t \/ i = q
        BY <1>1, <1>3, <2>2, <3>1, <3>6, <4>1
      <4>3. CASE i <= s
        BY <3>5, <4>3 DEF IdsCovered
      <4>4. CASE i = q
        BY <1>2, <4>4 DEF Signed
      <4> QED
        BY <3>4, <3>6, <4>2, <4>3, <4>4
    <3> QED
      BY <3>6 DEF IdsCovered
  <2>8. ASSUME q = t + 1, IdsCovered(q) PROVE ClientDigest(m) = MacOf(sent, q)
    <3>1. \A i \in 1 .. t : taken[i] = i
      BY <2>8, <2>9
    <3>2. q - 1 = t
      BY <2>8, <2>9
    <3>3. taken = to
      BY <2>8, <2>9
    <3>4. IsLastSigned(sent, s, q - 1)
      <4>1. \A j \in s + 1 .. t : j \in 1 .. t
        BY <1>3
      <4> QED
        BY <2>2, <3>1, <3>2, <4>1 DEF IsLastSigned
    <3>5. s = l
      <4>1. q - 1 \in Nat
        BY <1>3, <3>2
      <4> QED
        BY <2>4, <3>4, <4>1, LastSignedIsOne
    <3>6. Since(Came, s, taken) = Since(sent, s, taken)
      <4>1. \A j \in s + 1 .. t : WireOf(Came, taken[j]) = WireOf(sent, taken[j])
        <5> SUFFICES ASSUME NEW j \in s + 1 .. t PROVE WireOf(Came, taken[j]) = WireOf(sent, taken[j])
          OBVIOUS
        <5>1. j \in 1 .. n /\ taken[j] = j /\ j <= q
          BY <1>1, <1>3, <2>2, <2>8, <3>1
        <5>2. j \notin forwarded
          BY <2>2, <2>8, <5>1 DEF IdsCovered, Signed
        <5> QED
          BY <5>1, <5>2, CameIs DEF n
      <4>2. MacOf(Came, s) = MacOf(sent, s)
        <5>1. s \in 1 .. n
          BY <1>1, <1>3, <2>2
        <5> QED
          BY <5>1, CameIs DEF n
      <4> QED
        BY <1>3, <2>2, <4>1, <4>2, SinceSame
    <3>7. SignedWireOf(Came, q) = SignedWireOf(sent, q) /\ TimesOf(Came, q) = TimesOf(sent, q)
      BY <1>1, CameIs DEF n
    <3>8. LaterMac(ClientKey, Came, s, taken, q) = LaterMac(ClientKey, sent, s, taken, q)
      BY <3>6, <3>7 DEF LaterMac
    <3> QED
      BY <2>1, <2>2, <2>6, <3>3, <3>5, <3>8
  <2> QED
    BY <1>2, <2>1, <2>7, <2>8, <2>10 DEF m, q
<1> QED
  BY <1>5, <1>6

LEMMA PrefixStays ==
    ASSUME NEW s \in Seq(Nat), NEW x \in Nat
    PROVE  /\ \A i \in 1 .. Len(s) : SubSeq(Append(s, x), 1, i) = SubSeq(s, 1, i)
           /\ SubSeq(Append(s, x), 1, Len(s) + 1) = Append(s, x)
<1> DEFINE more == Append(s, x)
           n == Len(s)
<1>1. /\ n \in Nat /\ more \in Seq(Nat) /\ Len(more) = n + 1 /\ more[n + 1] = x
      /\ \A i \in 1 .. n : more[i] = s[i] /\ s[i] \in Nat
  OBVIOUS
<1>2. \A i \in 1 .. n + 1 : more[i] \in Nat
  BY <1>1
<1> HIDE DEF more
<1>3. ASSUME NEW i \in 1 .. n + 1
      PROVE  /\ SubSeq(more, 1, i) \in Seq(Nat) /\ Len(SubSeq(more, 1, i)) = i
             /\ \A j \in 1 .. i : SubSeq(more, 1, i)[j] = more[j]
  <2>1. \A j \in 1 .. i : more[j] \in Nat
    BY <1>1, <1>2
  <2> QED
    BY <1>1, <2>1, SubSeqProperties
<1>4. ASSUME NEW i \in 1 .. n
      PROVE  /\ SubSeq(s, 1, i) \in Seq(Nat) /\ Len(SubSeq(s, 1, i)) = i
             /\ \A j \in 1 .. i : SubSeq(s, 1, i)[j] = s[j]
  <2>1. \A j \in 1 .. i : s[j] \in Nat
    BY <1>1
  <2> QED
    BY <1>1, <2>1, SubSeqProperties
<1> HIDE DEF n
<1>5. ASSUME NEW i \in 1 .. n PROVE SubSeq(more, 1, i) = SubSeq(s, 1, i)
  <2> DEFINE a == SubSeq(more, 1, i)
             b == SubSeq(s, 1, i)
  <2>1. i \in 1 .. n + 1
    BY <1>1
  <2>2. a \in Seq(Nat) /\ Len(a) = i /\ \A j \in 1 .. i : a[j] = more[j]
    BY <1>3, <2>1
  <2>3. b \in Seq(Nat) /\ Len(b) = i /\ \A j \in 1 .. i : b[j] = s[j]
    BY <1>4
  <2>4. \A j \in 1 .. i : more[j] = s[j]
    BY <1>1
  <2> HIDE DEF a, b
  <2>5. a = b
    BY <2>2, <2>3, <2>4, SeqEqual
  <2> QED
    BY <2>5 DEF a, b
<1>6. SubSeq(more, 1, n + 1) = more
  <2> DEFINE a == SubSeq(more, 1, n + 1)
  <2>1. n + 1 \in 1 .. n + 1
    BY <1>1
  <2>2. a \in Seq(Nat) /\ Len(a) = n + 1 /\ \A j \in 1 .. n + 1 : a[j] = more[j]
    BY <1>3, <2>1
  <2> HIDE DEF a
  <2>3. a = more
    BY <1>1, <2>2, SeqEqual
  <2> QED
    BY <2>3 DEF a
<1> QED
  BY <1>5, <1>6 DEF more, n

\* A message that is taken moves from the stream to those taken.
Takes ==
    /\ outcome = "reading" /\ stream # <<>>
    /\ taken' = Append(taken, Head(stream).number) /\ stream' = Tail(stream)
    /\ UNCHANGED <<key, sent, serverCtx, forwarded, clock, outcome>>

LEMMA TakenIs ==
    ASSUME TsigInv, Takes
    PROVE  LET q == Head(stream).number
           IN /\ q \in 1 .. Len(sent) /\ taken' \in Seq(Nat) /\ Len(taken') = Len(taken) + 1
              /\ taken' # <<>>
              /\ taken'[Len(taken) + 1] = q /\ \A i \in 1 .. Len(taken) : taken'[i] = taken[i]
              /\ \A i \in 1 .. Len(taken) : SubSeq(taken', 1, i) = SubSeq(taken, 1, i)
              /\ SubSeq(taken', 1, Len(taken) + 1) = taken'
<1> DEFINE q == Head(stream).number
<1>1. q \in 1 .. Len(sent)
  BY NextIs DEF Takes
<1>2. taken \in Seq(Nat) /\ q \in Nat
  BY <1>1, NumbersNow
<1>3. taken' = Append(taken, q)
  BY DEF Takes
<1> HIDE DEF q
<1>4. Append(taken, q) \in Seq(Nat) /\ Len(Append(taken, q)) = Len(taken) + 1
      /\ Append(taken, q) # <<>>
      /\ Append(taken, q)[Len(taken) + 1] = q /\ \A i \in 1 .. Len(taken) : Append(taken, q)[i] = taken[i]
  BY <1>2
<1>5. /\ \A i \in 1 .. Len(taken) : SubSeq(Append(taken, q), 1, i) = SubSeq(taken, 1, i)
      /\ SubSeq(Append(taken, q), 1, Len(taken) + 1) = Append(taken, q)
  BY <1>2, PrefixStays
<1> QED
  BY <1>1, <1>3, <1>4, <1>5, Zenon DEF q

LEMMA TakeKeeps ==
    ASSUME TsigInv, Takes, ClientCtxIs', SignedPartIsWhole'
    PROVE  TsigInv'
<1> DEFINE t == Len(taken)
           c == Len(stream) - 1
           n == Len(sent)
           q == Head(stream).number
           more == taken'
           rest == stream'
           a == NumbersOf(taken, stream)
           b == NumbersOf(more, rest)
<1>1. outcome = "reading" /\ stream # <<>> /\ rest = Tail(stream)
      /\ UNCHANGED <<key, sent, serverCtx, forwarded, clock, outcome>>
  BY DEF Takes
<1>2. /\ q \in 1 .. n /\ more \in Seq(Nat) /\ Len(more) = t + 1
      /\ more[t + 1] = q /\ \A i \in 1 .. t : more[i] = taken[i]
  BY TakenIs
<1>3. Len(stream) >= 1 /\ q = stream[1].number
  BY <1>1, NextIs
<1>4. c \in Nat /\ Len(stream) = c + 1 /\ t \in Nat /\ n \in Nat
  BY <1>3, NumbersNow
<1>5. (\E S : rest \in Seq(S)) /\ Len(rest) = c /\ \A j \in 1 .. c : rest[j] = stream[j + 1]
  <2>1. PICK S : stream \in Seq(S)
    BY DEF TsigInv, TsigTyped
  <2> QED
    BY <1>1, <1>4, <2>1, HeadTailProperties
<1>6. /\ a \in Seq(Nat) /\ Len(a) = t + (c + 1)
      /\ (\A j \in 1 .. t : a[j] = taken[j]) /\ \A j \in 1 .. c + 1 : a[t + j] = stream[j].number
  BY <1>4, NumbersNow DEF Continues
<1>7. AreInOrder(a, n)
  BY DEF TsigInv, InOrder
<1> HIDE DEF t, c, n, q, more, rest, a, b
<1>8. StreamIs'
  <2>1. ASSUME NEW j \in 1 .. c
        PROVE  /\ rest[j] = [id |-> rest[j].id, body |-> rest[j].body,
                             tsig |-> rest[j].tsig, number |-> rest[j].number]
               /\ rest[j].number \in 1 .. n
               /\ rest[j].body = sent[rest[j].number].body
               /\ rest[j].tsig = sent[rest[j].number].tsig
               /\ rest[j].id = IdNow(rest[j].number)
    <3> DEFINE y == stream[j + 1]
    <3>1. rest[j] = y
      BY <1>5
    <3>2. j + 1 \in 1 .. Len(stream)
      BY <1>4
    <3>3. /\ y = [id |-> y.id, body |-> y.body, tsig |-> y.tsig, number |-> y.number]
          /\ y.number \in 1 .. n /\ y.body = sent[y.number].body /\ y.tsig = sent[y.number].tsig
          /\ y.id = IdNow(y.number)
      BY <3>2 DEF TsigInv, StreamIs, n
    <3> HIDE DEF y
    <3> QED
      BY <3>1, <3>3
  <2> QED
    BY <1>1, <1>5, <2>1 DEF StreamIs, IdNow, rest, n
<1>9. b \in Seq(Nat) /\ Len(b) = (t + 1) + c
      /\ (\A j \in 1 .. t + 1 : b[j] = more[j]) /\ \A j \in 1 .. c : b[(t + 1) + j] = rest[j].number
  <2>1. HaveNumbers(rest)
    <3>1. \A j \in 1 .. c : rest[j].number \in 1 .. n
      BY <1>1, <1>5, <1>8 DEF StreamIs, rest, n
    <3>2. \A j \in 1 .. c : rest[j].number \in Nat
      BY <1>4, <3>1
    <3> QED
      BY <1>5, <3>2 DEF HaveNumbers
  <2>2. Continues(b, more, rest)
    BY <1>2, <2>1, NumbersAre DEF b
  <2> QED
    BY <1>2, <1>5, <2>2 DEF Continues
<1>10. b = a
  <2> DEFINE d == t + (c + 1)
  <2>1. d \in Nat /\ Len(a) = d /\ Len(b) = d
    BY <1>4, <1>6, <1>9
  <2>2. ASSUME NEW i \in 1 .. d PROVE b[i] = a[i]
    <3>1. CASE i \in 1 .. t
      <4>1. i \in 1 .. t + 1
        BY <1>4, <3>1
      <4> QED
        BY <1>2, <1>6, <1>9, <3>1, <4>1
    <3>2. CASE i = t + 1
      <4>1. b[t + 1] = q
        BY <1>2, <1>4, <1>9, SMTT(30)
      <4>2. a[t + 1] = stream[1].number
        BY <1>4, <1>6
      <4> QED
        BY <1>3, <3>2, <4>1, <4>2
    <3>3. CASE i \in t + 2 .. d
      <4> DEFINE h == i - (t + 1)
      <4>1. h \in 1 .. c /\ h + 1 \in 1 .. c + 1 /\ i = (t + 1) + h /\ i = t + (h + 1)
        BY <1>4, <3>3
      <4> HIDE DEF h
      <4>2. b[i] = rest[h].number
        BY <1>9, <4>1
      <4>3. a[i] = stream[h + 1].number
        BY <1>6, <4>1
      <4> QED
        BY <1>5, <4>1, <4>2, <4>3
    <3> QED
      BY <1>4, <3>1, <3>2, <3>3
  <2> HIDE DEF d
  <2> QED
    BY <1>6, <1>9, <2>1, <2>2, SeqEqual
<1>11. TsigTyped'
  BY <1>1, <1>2, <1>5 DEF TsigInv, TsigTyped, more, rest
<1>12. SentIs' /\ InOrder' /\ ServerCtxIs' /\ MacsAre' /\ MacsDiffer'
  <2>1. SentIs'
    BY <1>1 DEF TsigInv, SentIs
  <2>2. InOrder'
    BY <1>1, <1>7, <1>10 DEF InOrder, more, rest, b, n
  <2>3. ServerCtxIs'
    BY <1>1 DEF TsigInv, ServerCtxIs
  <2>4. MacsAre' /\ MacsDiffer'
    BY <1>1 DEF TsigInv, MacsAre, MacsDiffer
  <2> QED
    BY <2>1, <2>2, <2>3, <2>4
<1>13. WholeStreamIsTaken'
  BY <1>1 DEF WholeStreamIsTaken
<1> QED
  BY <1>8, <1>11, <1>12, <1>13 DEF TsigInv

LEMMA ReadNextKeeps ==
    ASSUME TsigInv, ReadNext
    PROVE  TsigInv'
<1> DEFINE m == Head(stream)
           q == m.number
           r == ReadMessage(m, clock, RequestMac, tsigCtx)
           t == Len(taken)
           more == taken'
<1>1. /\ outcome = "reading" /\ stream # <<>>
      /\ outcome' = IF r.error = "none" THEN outcome ELSE r.error
      /\ taken' = IF r.error = "none" THEN Append(taken, q) ELSE taken
      /\ stream' = IF r.error = "none" THEN Tail(stream) ELSE stream
      /\ tsigCtx' = r.ctx
      /\ UNCHANGED <<key, sent, serverCtx, forwarded, clock>>
  BY DEF ReadNext
<1>2. r.error = "none" => Takes
  BY <1>1 DEF Takes
<1>3. /\ q \in 1 .. Len(sent) /\ m.body = sent[q].body /\ m.tsig = sent[q].tsig
      /\ m.id = IdNow(q)
      /\ q = t + 1 => \A i \in 1 .. t : taken[i] = i
  BY <1>1, NextIs
<1>4. t \in Nat /\ taken \in Seq(Nat) /\ (taken = <<>> <=> t = 0)
  BY NumbersNow, EmptySeq
<1> HIDE DEF m, q, r, t
<1>5. Signed(sent, q) <=> m.tsig # <<>>
  BY <1>3 DEF Signed
<1>6. r.error = "none" =>
          /\ more \in Seq(Nat) /\ Len(more) = t + 1 /\ more # <<>>
          /\ more[t + 1] = q /\ \A i \in 1 .. t : more[i] = taken[i]
          /\ \A i \in 1 .. t : SubSeq(more, 1, i) = SubSeq(taken, 1, i)
          /\ SubSeq(more, 1, t + 1) = more
          /\ DOMAIN more = 1 .. t + 1
  <2> SUFFICES ASSUME r.error = "none"
               PROVE  /\ more \in Seq(Nat) /\ Len(more) = t + 1 /\ more # <<>>
                      /\ more[t + 1] = q /\ \A i \in 1 .. t : more[i] = taken[i]
                      /\ \A i \in 1 .. t : SubSeq(more, 1, i) = SubSeq(taken, 1, i)
                      /\ SubSeq(more, 1, t + 1) = more
                      /\ DOMAIN more = 1 .. t + 1
    OBVIOUS
  <2>1. Takes
    BY <1>2
  <2>2. /\ more \in Seq(Nat) /\ Len(more) = t + 1 /\ more # <<>>
        /\ more[t + 1] = q /\ \A i \in 1 .. t : more[i] = taken[i]
        /\ \A i \in 1 .. t : SubSeq(more, 1, i) = SubSeq(taken, 1, i)
        /\ SubSeq(more, 1, t + 1) = more
    BY <2>1, TakenIs DEF t, q, m
  <2> HIDE DEF more
  <2> QED
    BY <2>2
<1> HIDE DEF more
<1>7. ASSUME r.error = "none", Signed(sent, q) => q = t + 1 /\ key = ClientKey /\ IdsCovered(q)
      PROVE  SignedPartIsWhole'
  <2>1. ASSUME NEW i \in 1 .. t + 1, Signed(sent, more[i])
        PROVE  SubSeq(more, 1, i) = FirstNumbers(i) /\ key = ClientKey /\ IdsCovered(i)
    <3>1. CASE i \in 1 .. t
      <4>1. DOMAIN taken = 1 .. t
        BY NumbersNow DEF t
      <4>2. more[i] = taken[i] /\ SubSeq(more, 1, i) = SubSeq(taken, 1, i)
        BY <1>6, <1>7, <3>1
      <4> QED
        BY <2>1, <3>1, <4>1, <4>2 DEF TsigInv, SignedPartIsWhole, Signed
    <3>2. CASE i = t + 1
      <4>1. q = t + 1 /\ key = ClientKey /\ IdsCovered(q)
        BY <1>6, <1>7, <2>1, <3>2
      <4>2. ASSUME NEW j \in 1 .. t + 1 PROVE more[j] = j
        <5>1. CASE j \in 1 .. t
          <6>1. more[j] = taken[j]
            BY <1>6, <1>7, <5>1
          <6>2. taken[j] = j
            BY <1>3, <4>1, <5>1
          <6> QED
            BY <6>1, <6>2
        <5>2. CASE j = t + 1
          <6>1. more[t + 1] = q
            BY <1>6, <1>7
          <6> QED
            BY <4>1, <5>2, <6>1
        <5> QED
          BY <1>4, <5>1, <5>2
      <4>3. FirstNumbers(i) \in Seq(Nat) /\ Len(FirstNumbers(i)) = t + 1
            /\ \A j \in 1 .. t + 1 : FirstNumbers(i)[j] = j
        <5>1. i \in Nat
          BY <1>4, <3>2
        <5>2. FirstNumbers(i) \in Seq(Nat) /\ Len(FirstNumbers(i)) = i
              /\ \A j \in 1 .. i : FirstNumbers(i)[j] = j
          BY <5>1, FirstNumbersAre
        <5> QED
          BY <3>2, <5>2
      <4>4. more = FirstNumbers(i)
        BY <1>6, <1>7, <4>2, <4>3, SeqEqual
      <4> QED
        BY <1>6, <1>7, <3>2, <4>1, <4>4
    <3> QED
      BY <1>4, <3>1, <3>2
  <2> QED
    BY <1>1, <1>6, <1>7, <2>1 DEF SignedPartIsWhole, IdsCovered, Signed, more
<1>8. CASE m.tsig = <<>>
  <2>1. taken # <<>>
    <3> SUFFICES ASSUME taken = <<>> PROVE FALSE
      OBVIOUS
    <3>1. sent # <<>>
      BY <1>1, NextIs
    <3>2. q = 1
      <4>1. stream[1].number = 1
        BY <1>1, <3>1 DEF TsigInv, ClientCtxIs
      <4> QED
        BY <1>1, <4>1, NextIs DEF q, m
    <3>3. Signed(sent, 1)
      BY <1>3, <3>2 DEF TsigInv, SentIs
    <3> QED
      BY <1>5, <1>8, <3>2, <3>3
  <2>2. key = ClientKey
    BY <1>1, <2>1 DEF TsigInv, ClientCtxIs
  <2>3. PICK s \in 1 .. t : /\ taken[s] = s /\ Signed(sent, s)
                            /\ \A j \in s + 1 .. t : ~Signed(sent, taken[j])
                            /\ tsigCtx = Ctx(ClientKey, Came, s, taken)
    BY <1>1, <2>1 DEF TsigInv, ClientCtxIs, t
  <2>4. tsigCtx = <<Hash(ClientKey, Since(Came, s, taken))>>
    BY <2>3 DEF Ctx
  <2>5. tsigCtx # NoContext
    BY <2>4 DEF NoContext
  <2>6. r = Validated("none", Update(tsigCtx, <<m.id, m.body>>))
    BY <1>8, <2>5 DEF ReadMessage, r
  <2>7. r.error = "none" /\ r.ctx = Update(tsigCtx, <<m.id, m.body>>)
    BY <2>6 DEF Validated
  <2>8. <<m.id, m.body>> = WireOf(Came, q)
    BY <1>3, CameIs
  <2>9. tsigCtx' = <<Hash(ClientKey, Append(Since(Came, s, taken), WireOf(Came, q)))>>
    <3>1. Update(<<Hash(ClientKey, Since(Came, s, taken))>>, WireOf(Came, q))
          = <<Hash(ClientKey, Append(Since(Came, s, taken), WireOf(Came, q)))>>
      BY DigestsAre
    <3> QED
      BY <1>1, <2>4, <2>7, <2>8, <3>1, Zenon
  <2>10. Append(Since(Came, s, taken), WireOf(Came, q)) = Since(Came, s, more)
    <3>1. s \in Nat /\ 1 <= s /\ s <= Len(taken) /\ q \in Nat
      BY <1>3, NumbersNow DEF t
    <3>2. Append(Since(Came, s, taken), WireOf(Came, q)) = Since(Came, s, Append(taken, q))
      BY <1>4, <3>1, SinceGrows
    <3>3. more = Append(taken, q)
      BY <1>1, <2>7 DEF more
    <3> QED
      BY <3>2, <3>3
  <2>11. ClientCtxIs'
    <3>1. tsigCtx' = Ctx(ClientKey, Came, s, more)
      BY <2>9, <2>10 DEF Ctx
    <3>2. s \in 1 .. t + 1 /\ more[s] = s
      BY <1>4, <1>6, <2>3, <2>7
    <3>3. ASSUME NEW j \in s + 1 .. t + 1 PROVE ~Signed(sent, more[j])
      <4>1. CASE j \in s + 1 .. t
        <5>1. more[j] = taken[j]
          BY <1>6, <2>7, <4>1
        <5> QED
          BY <2>3, <4>1, <5>1
      <4>2. CASE j = t + 1
        BY <1>5, <1>6, <1>8, <2>7, <4>2
      <4> QED
        BY <1>4, <4>1, <4>2
    <3>4. more # <<>> /\ Len(more) = t + 1
      BY <1>6, <2>7
    <3> QED
      BY <1>1, <2>2, <2>3, <3>1, <3>2, <3>3, <3>4 DEF ClientCtxIs, Came, IdNow, more
  <2>12. SignedPartIsWhole'
    BY <1>5, <1>7, <1>8, <2>7
  <2> QED
    BY <1>2, <2>7, <2>11, <2>12, TakeKeeps
<1>9. CASE m.tsig # <<>>
  <2> DEFINE rdata == m.tsig[1]
  <2>1. /\ r.error = "none" <=>
               /\ rdata.owner = ClientKey.name /\ rdata.error = "NOERROR"
               /\ ~(Differ(rdata.time_signed, clock) > rdata.fudge)
               /\ ClientKey.algorithm = rdata.algorithm /\ ClientDigest(m) = rdata.mac
        /\ r.error = "none" => r.ctx = MaybeStartDigest(ClientKey, rdata.mac, TRUE)
        /\ r.error # "reading"
    BY <1>9, ReadSigned DEF r, ClientDigest
  <2>2. /\ Signed(sent, q) /\ rdata = sent[q].tsig[1] /\ rdata.mac = MacOf(sent, q)
        /\ RecordIs(rdata, key, clock)
    BY <1>1, <1>9, ClientDigestIs DEF m, q
  <2>3. ClientDigest(m) = rdata.mac <=> key = ClientKey /\ q = t + 1 /\ IdsCovered(q)
    BY <1>1, <1>9, SignatureIsOfNext DEF m, q, t
  <2> HIDE DEF rdata
  <2>4. CASE r.error = "none"
    <3>1. key = ClientKey /\ q = t + 1 /\ IdsCovered(q)
      BY <2>1, <2>3, <2>4
    <3>2. tsigCtx' = <<Hash(ClientKey, <<MacOf(sent, q)>>)>>
      BY <1>1, <2>1, <2>2, <2>4, DigestStarts
    <3>3. Since(Came, t + 1, more) = <<MacOf(Came, t + 1)>>
      <4>1. more \in Seq(Nat) /\ Len(more) = t + 1 /\ Len(more) >= 1
        BY <1>4, <1>6, <2>4
      <4>2. Since(Came, Len(more), more) = <<MacOf(Came, Len(more))>>
        BY <4>1, SinceStarts
      <4> QED
        BY <4>1, <4>2
    <3>4. ClientCtxIs'
      <4>1. tsigCtx' = Ctx(ClientKey, Came, t + 1, more)
        BY <1>3, <3>1, <3>2, <3>3, CameIs DEF Ctx
      <4>2. t + 1 \in 1 .. t + 1 /\ more[t + 1] = t + 1 /\ Signed(sent, t + 1)
            /\ more # <<>> /\ Len(more) = t + 1
        BY <1>4, <1>6, <2>2, <2>4, <3>1
      <4>3. \A j \in (t + 1) + 1 .. t + 1 : ~Signed(sent, more[j])
        BY <1>4
      <4> QED
        BY <1>1, <3>1, <4>1, <4>2, <4>3 DEF ClientCtxIs, Came, IdNow, more
    <3>5. SignedPartIsWhole'
      BY <1>7, <2>4, <3>1
    <3> QED
      BY <1>2, <2>4, <3>4, <3>5, TakeKeeps
  <2>5. CASE r.error # "none"
    <3>1. UNCHANGED <<key, sent, serverCtx, stream, forwarded, clock, taken>> /\ outcome' = r.error
      BY <1>1, <2>5
    <3>2. ClientCtxIs'
      BY <2>1, <3>1 DEF ClientCtxIs
    <3>3. WholeStreamIsTaken'
      <4> SUFFICES ASSUME IsWhole, key = ClientKey, ~Late, ~Refused, IdsCovered(Len(sent))
                   PROVE  r.error = "none"
        BY <2>5, <3>1 DEF WholeStreamIsTaken, IsWhole, Late, Refused, IdsCovered
      <4>1. q = t + 1
        <5> DEFINE a == NumbersOf(taken, stream)
                   n == Len(sent)
        <5>1. a = FirstNumbers(n)
          BY DEF IsWhole, NumbersOf
        <5>2. n \in Nat /\ Len(stream) \in Nat /\ Len(a) = t + Len(stream)
          BY NumbersNow DEF Continues, t
        <5>3. Len(a) = n
          BY <5>1, <5>2, FirstNumbersAre
        <5>4. q >= t + 1 /\ q - 1 <= n - Len(stream)
          BY <1>1, NextIs DEF q, m, t
        <5> HIDE DEF a, n
        <5>5. q \in Nat
          BY <1>3, <5>2 DEF n
        <5> QED
          BY <1>4, <5>2, <5>3, <5>4, <5>5
      <4>2. q \in DOMAIN sent /\ sent[q].tsig # <<>>
        BY <1>3, <2>2, NumbersNow DEF Signed
      <4>3. ~(Differ(rdata.time_signed, clock) > Fudge)
        BY <2>2, <4>2 DEF Late
      <4>4. rdata.error = "NOERROR"
        BY <2>2, <4>2 DEF Refused
      <4>5. rdata.owner = ClientKey.name /\ rdata.algorithm = ClientKey.algorithm /\ rdata.fudge = Fudge
        BY <2>2 DEF RecordIs
      <4>6. IdsCovered(q)
        <5>1. \A i \in forwarded : i <= Len(sent)
          BY NumbersNow DEF TsigInv, TsigTyped
        <5> QED
          BY <5>1 DEF IdsCovered
      <4> QED
        BY <2>1, <2>3, <4>1, <4>3, <4>4, <4>5, <4>6
    <3>4. TsigTyped' /\ SentIs' /\ StreamIs' /\ InOrder' /\ ServerCtxIs' /\ MacsAre' /\ MacsDiffer'
      <4>1. TsigTyped' /\ SentIs' /\ StreamIs'
        BY <3>1 DEF TsigInv, TsigTyped, SentIs, StreamIs, IdNow
      <4>2. InOrder' /\ ServerCtxIs' /\ MacsAre' /\ MacsDiffer'
        BY <3>1 DEF TsigInv, InOrder, ServerCtxIs, MacsAre, MacsDiffer
      <4> QED
        BY <4>1, <4>2
    <3>5. SignedPartIsWhole'
      BY <3>1 DEF TsigInv, SignedPartIsWhole, IdsCovered
    <3> QED
      BY <3>2, <3>3, <3>4, <3>5 DEF TsigInv
  <2> QED
    BY <2>4, <2>5
<1> QED
  BY <1>8, <1>9

-----------------------------------------------------------------------------
(* Theorems                                                                 *)

LEMMA TsigInvStarts == TsigInit => TsigInv
<1> SUFFICES ASSUME TsigInit PROVE TsigInv
  OBVIOUS
<1>1. /\ key \in ServerKeys /\ sent = <<>> /\ stream = <<>> /\ clock = 0 /\ serverCtx = NoContext
      /\ tsigCtx = NoContext /\ taken = <<>> /\ outcome = "reading"
      /\ forwarded = {}
  BY DEF TsigInit
<1>2. TsigTyped
  <2>1. <<>> \in Seq({}) /\ <<>> \in Seq(Nat) /\ 0 \in Nat
    OBVIOUS
  <2> QED
    BY <1>1, <2>1 DEF TsigTyped
<1>3. Len(sent) = 0 /\ Len(stream) = 0 /\ Len(taken) = 0 /\ DOMAIN taken = {}
  BY <1>1
<1>4. SentIs /\ StreamIs /\ MacsAre /\ MacsDiffer
  BY <1>3 DEF SentIs, StreamIs, MacsAre, MacsDiffer
<1>5. InOrder
  <2>1. HaveNumbers(stream)
    BY <1>2, <1>3 DEF TsigTyped, HaveNumbers
  <2>2. Continues(NumbersOf(taken, stream), taken, stream)
    BY <1>2, <2>1, NumbersAre DEF TsigTyped
  <2>3. Len(NumbersOf(taken, stream)) = 0
    BY <1>3, <2>2 DEF Continues
  <2> QED
    BY <1>3, <2>3 DEF InOrder, AreInOrder
<1>6. ServerCtxIs /\ ClientCtxIs /\ WholeStreamIsTaken /\ SignedPartIsWhole
  BY <1>1, <1>3 DEF ServerCtxIs, ClientCtxIs, WholeStreamIsTaken, SignedPartIsWhole
<1> QED
  BY <1>2, <1>4, <1>5, <1>6 DEF TsigInv

LEMMA TsigInvStays == TsigInv /\ [TsigNext]_tsigVars => TsigInv'
<1> SUFFICES ASSUME TsigInv, [TsigNext]_tsigVars PROVE TsigInv'
  OBVIOUS
<1>1. CASE TsigNext
  <2>1. ASSUME NEW body \in Bodies, NEW error \in {"NOERROR", "BADTIME"}, SendSigned(body, error)
        PROVE  TsigInv'
    BY <2>1, SendSignedKeeps
  <2>2. ASSUME NEW body \in Bodies, SendUnsigned(body)
        PROVE  TsigInv'
    BY <2>2, SendUnsignedKeeps
  <2>3. CASE Tick
    BY <2>3, TickKeeps
  <2>4. CASE Forward
    BY <2>4, ForwardKeeps
  <2>5. CASE Lose
    BY <2>5, LoseKeeps
  <2>6. CASE ReadNext
    BY <2>6, ReadNextKeeps
  <2> QED
    BY <1>1, <2>1, <2>2, <2>3, <2>4, <2>5, <2>6 DEF TsigNext
<1>2. CASE UNCHANGED tsigVars
  <2>1. UNCHANGED <<key, sent, serverCtx, stream, forwarded, clock, taken, tsigCtx, outcome>>
    BY <1>2 DEF tsigVars
  <2>2. TsigTyped' /\ SentIs' /\ StreamIs' /\ InOrder'
    BY <2>1 DEF TsigInv, TsigTyped, SentIs, StreamIs, IdNow, InOrder
  <2>3. ServerCtxIs' /\ MacsAre' /\ MacsDiffer' /\ ClientCtxIs'
    BY <2>1 DEF TsigInv, ServerCtxIs, MacsAre, MacsDiffer, ClientCtxIs, Came, IdNow
  <2>4. WholeStreamIsTaken' /\ SignedPartIsWhole'
    BY <2>1 DEF TsigInv, WholeStreamIsTaken, IsWhole, Late, Refused, SignedPartIsWhole, IdsCovered
  <2> QED
    BY <2>2, <2>3, <2>4 DEF TsigInv
<1> QED
  BY <1>1, <1>2

\* A client takes all of a stream that is whole, in time and signed with its
\* key, if its unsigned messages come by the ids they were sent with, whatever
\* ids the signed ones come by; and a signature only from a server with its
\* key, after all messages before it and none of the unsigned ones by another
\* id (sign, validate).
THEOREM StreamIsSignedAsAWholeTheorem == TsigSpec => []StreamIsSignedAsAWhole
<1>1. TsigInv => StreamIsSignedAsAWhole
  BY DEF TsigInv, StreamIsSignedAsAWhole
<1> QED
  BY <1>1, TsigInvStarts, TsigInvStays, PTL DEF TsigSpec

-----------------------------------------------------------------------------
(* Queries                                                                 *)

QueriesSpec == QueriesInit /\ [][QueriesNext]_queriesVars

Messages == [from : {"server", "other"}, to : Int, form : Forms]
Answers == [from : {"server"}, to : Int, form : Forms]
StreamOctets == Answers \X (1 .. 4)

Typed ==
    /\ number \in Int
    /\ stage \in {"idle", "udp", "tcp"}
    /\ datagrams \in Seq(Messages)
    /\ unanswered \subseteq Int
    /\ octets \in Seq(StreamOctets)
    /\ reading \in [what : {"length", "body"}, count : Nat, got : Seq(StreamOctets)]
    /\ inStep \in BOOLEAN

IsPatient == o.ignoreUnexpected /\ o.ignoreErrors

\* A query that may use both goes to TCP for a message that was cut, and a
\* patient one for a response to itself.
FallsBackForCut ==
    /\ stage = "udp" => o.kind # "tcp" /\ cutBy = {}
    /\ stage = "tcp" => (o.kind = "fallback" => cutBy # {})
    /\ IsPatient => \A m \in cutBy : IsAnswer(m)

\* The octets of the frame before those that are being read.
Before == IF reading.what = "length" THEN 0 ELSE 2

\* The connection has the one answer, of which some octets were read.
HasAnswer(m) ==
    /\ m.to = number
    /\ unanswered = {}
    /\ reading.count = 2 /\ Len(reading.got) < 2
    /\ \A i \in 1 .. Len(reading.got) : reading.got[i] = <<m, Before + i>>
    /\ Len(octets) = 4 - Before - Len(reading.got)
    /\ \A i \in 1 .. Len(octets) : octets[i] = <<m, Before + Len(reading.got) + i>>

Waits == unanswered = {number} /\ octets = <<>> /\ reading = ReadLength

InStepIsExact ==
    inStep =>
      /\ stage # "tcp" => unanswered = {} /\ octets = <<>>
      /\ stage = "tcp" => Waits \/ \E m \in Answers : HasAnswer(m)

IInv == Typed /\ FallsBackForCut /\ InStepIsExact /\ AnswersAreOwn /\ FramesStayWhole

-----------------------------------------------------------------------------
(* Messages and frames                                                     *)

LEMMA FrameIs ==
    ASSUME NEW m
    PROVE  /\ Frame(m) = [i \in 1 .. 4 |-> <<m, i>>]
           /\ Len(Frame(m)) = 4
           /\ m \in Answers => Frame(m) \in Seq(StreamOctets)
<1>1. Frame(m) = [i \in 1 .. 4 |-> <<m, i>>]
  BY DEF Frame, BodySize
<1>2. m \in Answers => \A i \in 1 .. 4 : <<m, i>> \in StreamOctets
  BY DEF StreamOctets
<1> QED
  BY <1>1, <1>2

\* What two octets of a frame are.
LEMMA HalfFrame ==
    ASSUME NEW m, NEW os, NEW b \in {0, 2}, os \in Seq(StreamOctets), Len(os) = 2,
           \A i \in 1 .. 2 : os[i] = <<m, b + i>>
    PROVE  /\ os[1][1] = m
           /\ os = SubSeq(Frame(m), b + 1, b + 2)
<1>1. Frame(m) = [i \in 1 .. 4 |-> <<m, i>>]
  BY FrameIs
<1>2. os = [i \in 1 .. 2 |-> <<m, b + i>>]
  BY DEF StreamOctets
<1>3. SubSeq(Frame(m), b + 1, b + 2) = [i \in 1 .. 2 |-> Frame(m)[b + i]]
  <2>1. Frame(m) \in Seq({<<m, i>> : i \in 1 .. 4}) /\ Len(Frame(m)) = 4
    BY <1>1
  <2>2. CASE b = 0
    BY <2>1, <2>2, SubSeqProperties
  <2>3. CASE b = 2
    BY <2>1, <2>3, SubSeqProperties
  <2> QED
    BY <2>2, <2>3
<1>4. \A i \in 1 .. 2 : Frame(m)[b + i] = <<m, b + i>>
  BY <1>1
<1>5. os = SubSeq(Frame(m), b + 1, b + 2)
  BY <1>2, <1>3, <1>4
<1> QED
  BY <1>2, <1>5

\* How messages are read.
LEMMA ReadIs ==
    ASSUME NEW m \in Messages, NEW r \in BOOLEAN
    PROVE  /\ Read(m, r) = "none" => m.form = "good" \/ (m.form = "cut" /\ ~r)
           /\ m.form = "good" \/ (m.form = "cut" /\ ~r) => Read(m, r) = "none"
           /\ Read(m, r) \in {"none", "Truncated", "FormError"}
<1>1. CASE m.form = "good"
  BY <1>1 DEF Read
<1>2. CASE m.form = "cut"
  BY <1>2 DEF Read
<1>3. CASE m.form = "torn"
  BY <1>3 DEF Read
<1>4. CASE m.form = "bad"
  BY <1>4 DEF Read
<1> QED
  BY <1>1, <1>2, <1>3, <1>4 DEF Messages, Forms

-----------------------------------------------------------------------------
(* The steps                                                               *)

LEMMA InitHolds == QueriesInit => IInv
  BY DEF QueriesInit, IInv, Typed, FallsBackForCut, InStepIsExact, AnswersAreOwn, FramesStayWhole,
         ReadLength

LEMMA AskKeeps ==
    ASSUME IInv, NEW options \in Options, Ask(options)
    PROVE  IInv'
<1>1. /\ stage = "idle" /\ number' = number + 1 /\ o' = options /\ cutBy' = {}
      /\ datagrams' = (IF options.keepsUdp THEN datagrams ELSE <<>>)
      /\ stage' \in {"udp", "tcp"}
      /\ UNCHANGED result
      /\ (stage' = "udp") = (options.kind # "tcp")
  BY DEF Ask, Connect
<1>2. CASE options.kind # "tcp"
  <2>1. UNCHANGED <<unanswered, octets, reading, inStep>> /\ stage' = "udp"
    BY <1>2 DEF Ask
  <2> QED
    BY <1>1, <1>2, <2>1 DEF IInv, Typed, FallsBackForCut, InStepIsExact, AnswersAreOwn, FramesStayWhole
<1>3. CASE options.kind = "tcp"
  <2>1. Connect(number + 1, options.keepsTcp)
    BY <1>3 DEF Ask
  <2>2. /\ stage' = "tcp" /\ reading' = ReadLength
        /\ unanswered' = IF options.keepsTcp THEN unanswered \cup {number'} ELSE {number'}
        /\ octets' = IF options.keepsTcp THEN octets ELSE <<>>
        /\ inStep' = (options.keepsTcp => inStep)
    BY <1>1, <2>1 DEF Connect
  <2>3. Typed'
    BY <1>1, <2>2 DEF IInv, Typed, ReadLength
  <2>4. inStep' => Waits'
    BY <1>1, <2>2 DEF IInv, InStepIsExact, Waits, ReadLength
  <2> QED
    BY <1>1, <1>3, <2>2, <2>3, <2>4 DEF IInv, FallsBackForCut, InStepIsExact, AnswersAreOwn, FramesStayWhole
<1> QED
  BY <1>2, <1>3

LEMMA ArriveKeeps ==
    ASSUME IInv, NEW m \in Messages, Arrive(m)
    PROVE  IInv'
<1>1. datagrams' \in Seq(Messages)
  BY DEF Arrive, IInv, Typed
<1>2. UNCHANGED <<number, o, stage, unanswered, octets, reading, inStep, cutBy, result>>
  BY DEF Arrive
<1>3. Typed'
  BY <1>1, <1>2 DEF IInv, Typed
<1>4. FallsBackForCut'
  BY <1>2 DEF IInv, FallsBackForCut, IsPatient, IsAnswer
<1>5. InStepIsExact'
  BY <1>2 DEF IInv, InStepIsExact, Waits, HasAnswer, Before, ReadLength
<1>6. AnswersAreOwn' /\ FramesStayWhole'
  BY <1>2 DEF IInv, AnswersAreOwn, FramesStayWhole, IsAnswer, RaisesOnTruncation
<1> QED
  BY <1>3, <1>4, <1>5, <1>6 DEF IInv

\* The step of a query that ends leaves the connection alone.
LEMMA TakeDatagramKeeps ==
    ASSUME IInv, TakeDatagram
    PROVE  IInv'
<1> DEFINE m == Head(datagrams)
           e == Read(m, RaisesOnTruncation)
<1>1. /\ stage = "udp" /\ datagrams # <<>> /\ datagrams' = Tail(datagrams)
      /\ UNCHANGED <<number, o>>
  BY DEF TakeDatagram
<1>2. m \in Messages /\ datagrams' \in Seq(Messages)
  BY <1>1 DEF IInv, Typed
<1>3. o.kind # "tcp" /\ cutBy = {}
  BY <1>1 DEF IInv, FallsBackForCut
<1> HIDE DEF m
<1>4. IsPatient /\ ~Ignores(m) => Matches(m) /\ e \in {"none", "Truncated"} /\ IsAnswer(m)
  BY DEF IsPatient, Ignores
<1>5. CASE UNCHANGED <<stage, unanswered, octets, reading, inStep, cutBy, result>>
  <2>1. Typed'
    BY <1>1, <1>2, <1>5 DEF IInv, Typed
  <2> QED
    BY <1>1, <1>5, <2>1 DEF IInv, FallsBackForCut, IsPatient, IsAnswer, InStepIsExact,
         AnswersAreOwn, FramesStayWhole
<1>6. CASE /\ ~Ignores(m) /\ Matches(m) /\ e = "Truncated" /\ o.kind = "fallback"
           /\ Connect(number, o.keepsTcp)
           /\ cutBy' = {m}
           /\ UNCHANGED result
  <2>1. /\ stage' = "tcp" /\ reading' = ReadLength
        /\ unanswered' = IF o.keepsTcp THEN unanswered \cup {number} ELSE {number}
        /\ octets' = IF o.keepsTcp THEN octets ELSE <<>>
        /\ inStep' = (o.keepsTcp => inStep)
    BY <1>6 DEF Connect
  <2>2. Typed'
    BY <1>1, <1>2, <2>1 DEF IInv, Typed, ReadLength
  <2>3. inStep' => Waits'
    BY <1>1, <2>1 DEF IInv, InStepIsExact, Waits, ReadLength
  <2>4. FallsBackForCut'
    BY <1>1, <1>4, <1>6, <2>1 DEF FallsBackForCut, IsPatient, IsAnswer
  <2> QED
    BY <2>1, <2>2, <2>3, <2>4 DEF IInv, InStepIsExact, AnswersAreOwn, FramesStayWhole
<1>7. ASSUME NEW error, Idle(error, m, FALSE), ~Ignores(m),
             UNCHANGED <<unanswered, octets, reading, inStep, cutBy>>,
             error = "none" => /\ IsAnswer(m) /\ Matches(m)
                               /\ RaisesOnTruncation => m.form = "good",
             IsPatient => error \in {"none", "Truncated"} /\ IsAnswer(m)
      PROVE  IInv'
  <2>1. stage' = "idle" /\ result' = [error |-> error, m |-> m, tcp |-> FALSE, inStep |-> inStep]
    BY <1>7 DEF Idle
  <2>2. Typed'
    BY <1>1, <1>2, <1>7, <2>1 DEF IInv, Typed
  <2>3. FallsBackForCut'
    BY <1>1, <1>3, <1>7, <2>1 DEF FallsBackForCut
  <2>4. InStepIsExact'
    BY <1>1, <1>7, <2>1 DEF IInv, InStepIsExact
  <2>5. FramesStayWhole'
    BY <2>1 DEF FramesStayWhole
  <2>6. AnswersAreOwn'
    <3>1. o.destination = "server" /\ Matches(m) => m.from = "server"
      BY DEF Matches
    <3>2. /\ result'.error = error /\ result'.m = m /\ result'.tcp = FALSE
          /\ o' = o /\ number' = number /\ cutBy' = {}
      BY <1>1, <1>3, <1>7, <2>1
    <3> QED
      BY <1>7, <3>1, <3>2 DEF AnswersAreOwn, IsAnswer, RaisesOnTruncation, IsPatient
  <2> QED
    BY <2>2, <2>3, <2>4, <2>5, <2>6 DEF IInv
<1>8. CASE /\ ~Ignores(m) /\ ~Matches(m)
           /\ Idle("UnexpectedSource", m, FALSE)
           /\ UNCHANGED <<unanswered, octets, reading, inStep, cutBy>>
  BY <1>4, <1>7, <1>8
<1>9. CASE /\ ~Ignores(m) /\ Matches(m) /\ ~(e = "Truncated" /\ o.kind = "fallback")
           /\ Idle(IF e = "none" /\ ~(o.ignoreErrors \/ IsAnswer(m)) THEN "BadResponse" ELSE e, m, FALSE)
           /\ UNCHANGED <<unanswered, octets, reading, inStep, cutBy>>
  <2> DEFINE error == IF e = "none" /\ ~(o.ignoreErrors \/ IsAnswer(m)) THEN "BadResponse" ELSE e
  <2>1. error = "none" => /\ IsAnswer(m) /\ Matches(m)
                          /\ RaisesOnTruncation => m.form = "good"
    BY <1>2, <1>9, ReadIs DEF Ignores
  <2>2. IsPatient => error \in {"none", "Truncated"} /\ IsAnswer(m)
    BY <1>4, <1>9
  <2> HIDE DEF error
  <2>3. Idle(error, m, FALSE)
    BY <1>9 DEF error
  <2> QED
    BY <1>7, <1>9, <2>1, <2>2, <2>3
<1> QED
  BY <1>5, <1>6, <1>8, <1>9 DEF TakeDatagram, m

LEMMA UdpTimeoutKeeps ==
    ASSUME IInv, UdpTimeout
    PROVE  IInv'
<1>1. /\ stage = "udp" /\ stage' = "idle"
      /\ result' = [error |-> "Timeout", m |-> NoMessage, tcp |-> FALSE, inStep |-> inStep]
      /\ UNCHANGED <<number, o, datagrams, unanswered, octets, reading, inStep, cutBy>>
  BY DEF UdpTimeout, Idle
<1> QED
  BY <1>1 DEF IInv, Typed, FallsBackForCut, IsPatient, IsAnswer, InStepIsExact,
              AnswersAreOwn, FramesStayWhole

LEMMA TcpFailsKeeps ==
    ASSUME IInv, NEW error \in {"Timeout", "EOFError"}, TcpFails(error)
    PROVE  IInv'
<1>1. /\ stage = "tcp" /\ stage' = "idle" /\ ~inStep' /\ inStep' = FALSE
      /\ result' = [error |-> error, m |-> NoMessage, tcp |-> TRUE, inStep |-> inStep]
      /\ UNCHANGED <<number, o, datagrams, unanswered, octets, reading, cutBy>>
  BY DEF TcpFails, Idle
<1> QED
  BY <1>1 DEF IInv, Typed, FallsBackForCut, IsPatient, IsAnswer, InStepIsExact,
              AnswersAreOwn, FramesStayWhole

LEMMA AnswerKeeps ==
    ASSUME IInv, NEW n \in unanswered, NEW form \in Forms, Answer(n, form)
    PROVE  IInv'
<1> DEFINE m == [from |-> "server", to |-> n, form |-> form]
<1>1. /\ unanswered' = unanswered \ {n} /\ octets' = octets \o Frame(m)
      /\ UNCHANGED <<number, o, stage, datagrams, reading, inStep, cutBy, result>>
  BY DEF Answer
<1>2. m \in Answers /\ m.to = n
  BY DEF Answers, IInv, Typed
<1> HIDE DEF m
<1>3. Typed'
  BY <1>1, <1>2, FrameIs DEF IInv, Typed
<1>4. InStepIsExact'
  <2> SUFFICES ASSUME inStep PROVE stage = "tcp" /\ HasAnswer(m)'
    BY <1>1, <1>2 DEF InStepIsExact
  <2>1. stage = "tcp" /\ Waits
    BY DEF IInv, InStepIsExact, HasAnswer
  <2>2. n = number /\ unanswered' = {} /\ octets' = Frame(m)
    BY <1>1, <1>2, <2>1, FrameIs DEF Waits
  <2>3. Before' = 0 /\ reading' = ReadLength
    BY <1>1, <2>1 DEF Waits, Before, ReadLength
  <2> QED
    BY <1>1, <1>2, <2>1, <2>2, <2>3, FrameIs, SMTT(30) DEF HasAnswer, ReadLength
<1>5. FallsBackForCut' /\ AnswersAreOwn' /\ FramesStayWhole'
  BY <1>1 DEF IInv, FallsBackForCut, IsPatient, IsAnswer, AnswersAreOwn, FramesStayWhole,
              RaisesOnTruncation
<1> QED
  BY <1>3, <1>4, <1>5 DEF IInv

LEMMA NetReadKeeps ==
    ASSUME IInv, NEW n \in Nat, NetRead(n)
    PROVE  IInv'
<1> DEFINE got == reading.got \o SubSeq(octets, 1, n)
           m == IF Whole(got) THEN got[1][1] ELSE NoMessage
           e == Read(m, FALSE)
           error == IF e = "none" /\ ~IsAnswer(m) THEN "BadResponse" ELSE e
           full == ReadAll(got, reading.count)
<1>1. /\ stage = "tcp" /\ n \in 1 .. (reading.count - Len(reading.got)) /\ n <= Len(octets)
      /\ octets' = SubSeq(octets, n + 1, Len(octets))
      /\ UNCHANGED <<number, o, datagrams, unanswered, cutBy>>
      /\ \/ /\ ~full
            /\ reading' = [reading EXCEPT !.got = got]
            /\ UNCHANGED <<stage, inStep, result>>
         \/ /\ full /\ reading.what = "length"
            /\ \E l \in Lengths(got) :
                 IF l = 0 THEN /\ Idle("FormError", NoMessage, TRUE)
                               /\ inStep' = FALSE /\ UNCHANGED reading
                 ELSE /\ reading' = [what |-> "body", count |-> l, got |-> <<>>]
                      /\ UNCHANGED <<stage, inStep, result>>
         \/ /\ full /\ reading.what = "body"
            /\ Idle(error, m, TRUE)
            /\ inStep' = (inStep /\ error = "none") /\ UNCHANGED reading
  BY DEF NetRead
<1>2. /\ octets \in Seq(StreamOctets) /\ reading.got \in Seq(StreamOctets)
      /\ reading.count \in Nat /\ reading.what \in {"length", "body"} /\ inStep \in BOOLEAN
      /\ reading \in [what : {"length", "body"}, count : Nat, got : Seq(StreamOctets)]
  BY DEF IInv, Typed
<1>3. /\ got \in Seq(StreamOctets) /\ Len(got) = Len(reading.got) + n
      /\ \A i \in 1 .. Len(got) :
           got[i] = IF i <= Len(reading.got) THEN reading.got[i] ELSE octets[i - Len(reading.got)]
  <2>1. /\ SubSeq(octets, 1, n) \in Seq(StreamOctets) /\ Len(SubSeq(octets, 1, n)) = n
        /\ \A i \in 1 .. n : SubSeq(octets, 1, n)[i] = octets[i]
    BY <1>1, <1>2
  <2> HIDE DEF got
  <2>2. /\ reading.got \o SubSeq(octets, 1, n) \in Seq(StreamOctets)
        /\ Len(reading.got \o SubSeq(octets, 1, n)) = Len(reading.got) + n
        /\ \A i \in 1 .. Len(reading.got) + n :
             (reading.got \o SubSeq(octets, 1, n))[i] =
               IF i <= Len(reading.got) THEN reading.got[i]
               ELSE SubSeq(octets, 1, n)[i - Len(reading.got)]
    BY <1>2, <2>1, ConcatProperties
  <2>3. \A i \in 1 .. Len(reading.got) + n : i > Len(reading.got) =>
          SubSeq(octets, 1, n)[i - Len(reading.got)] = octets[i - Len(reading.got)]
    BY <1>2, <2>1
  <2> QED
    BY <1>2, <2>2, <2>3 DEF got
<1>4. /\ octets' \in Seq(StreamOctets) /\ Len(octets') = Len(octets) - n
      /\ \A i \in 1 .. Len(octets) - n : octets'[i] = octets[n + i]
  <2>1. Len(octets) \in Nat /\ n + 1 \in Int /\ Len(octets) \in Int
        /\ \A i \in (n + 1) .. Len(octets) : octets[i] \in StreamOctets
    BY <1>2
  <2> QED
    BY <1>1, <1>2, <2>1
<1> HIDE DEF got
<1>5. m \in Answers \/ m = NoMessage
  <2>1. 1 \in 1 .. Len(got)
    BY <1>1, <1>2, <1>3
  <2>2. got[1] \in StreamOctets
    BY <1>3, <2>1
  <2> QED
    BY <2>2 DEF StreamOctets
<1>6. /\ error = "none" => m \in Answers /\ IsAnswer(m)
      /\ m \in Answers /\ IsAnswer(m) => error = "none"
  <2>1. Answers \subseteq Messages
    BY DEF Answers, Messages
  <2>2. Read(NoMessage, FALSE) = "FormError" /\ NoMessage \notin Answers
    BY DEF Read, NoMessage, Answers
  <2> HIDE DEF m
  <2>3. CASE m = NoMessage
    BY <2>2, <2>3
  <2>4. CASE m \in Answers
    BY <2>1, <2>4, ReadIs DEF IsAnswer
  <2> QED
    BY <1>5, <2>3, <2>4
<1> HIDE DEF m, e, error, full
<1>7. ASSUME inStep
      PROVE  \E a \in Answers :
               /\ HasAnswer(a) /\ Len(got) <= 2
               /\ \A i \in 1 .. Len(got) : got[i] = <<a, Before + i>>
  <2>1. octets # <<>>
    BY <1>1, <1>2
  <2>2. PICK a \in Answers : HasAnswer(a)
    BY <1>1, <1>7, <2>1 DEF IInv, InStepIsExact, Waits
  <2>3. Len(got) <= 2 /\ Before \in Nat
    BY <1>1, <1>2, <1>3, <2>2 DEF HasAnswer, Before
  <2>4. \A i \in 1 .. Len(octets) : octets[i] = <<a, Before + Len(reading.got) + i>>
    BY <2>2 DEF HasAnswer
  <2>5. ASSUME NEW i \in 1 .. Len(got) PROVE got[i] = <<a, Before + i>>
    <3>1. CASE i <= Len(reading.got)
      BY <1>2, <1>3, <2>2, <3>1 DEF HasAnswer
    <3>2. CASE i > Len(reading.got)
      <4>1. /\ i - Len(reading.got) \in 1 .. Len(octets)
            /\ Before + Len(reading.got) + (i - Len(reading.got)) = Before + i
        BY <1>1, <1>2, <1>3, <2>3, <3>2
      <4>2. got[i] = octets[i - Len(reading.got)]
        BY <1>2, <1>3, <3>2
      <4> QED
        BY <2>4, <4>1, <4>2
    <3> QED
      BY <1>2, <3>1, <3>2
  <2> QED
    BY <2>2, <2>3, <2>5
<1>8. CASE /\ ~full
           /\ reading' = [reading EXCEPT !.got = got]
           /\ UNCHANGED <<stage, inStep, result>>
  <2>1. Typed'
    BY <1>1, <1>2, <1>3, <1>4, <1>8 DEF IInv, Typed
  <2>2. reading'.what = reading.what /\ reading'.count = reading.count /\ reading'.got = got
    BY <1>2, <1>8
  <2>3. Before' = Before /\ Before \in {0, 2}
    BY <2>2 DEF Before
  <2>4. ASSUME inStep PROVE \E a \in Answers : HasAnswer(a)'
    <3>1. PICK a \in Answers : /\ HasAnswer(a) /\ Len(got) <= 2
                               /\ \A i \in 1 .. Len(got) : got[i] = <<a, Before + i>>
      BY <1>7, <2>4
    <3>2. Len(got) # 2
      BY <1>8, <3>1 DEF full, ReadAll, HasAnswer
    <3>3. \A i \in 1 .. Len(octets') : octets'[i] = <<a, Before + Len(got) + i>>
      <4> SUFFICES ASSUME NEW i \in 1 .. Len(octets')
                   PROVE  octets'[i] = <<a, Before + Len(got) + i>>
        OBVIOUS
      <4>1. octets'[i] = octets[n + i] /\ n + i \in 1 .. Len(octets)
        BY <1>1, <1>2, <1>4
      <4>2. octets[n + i] = <<a, Before + Len(reading.got) + (n + i)>>
        BY <3>1, <4>1 DEF HasAnswer
      <4>3. Before + Len(reading.got) + (n + i) = Before + Len(got) + i
        BY <1>2, <1>3, <2>3
      <4> QED
        BY <4>1, <4>2, <4>3
    <3>4. Len(got) < 2 /\ Len(octets') = 4 - Before - Len(got)
      BY <1>1, <1>2, <1>3, <1>4, <2>3, <3>1, <3>2, SMTT(30) DEF HasAnswer
    <3>5. a.to = number /\ unanswered = {} /\ reading.count = 2
      BY <3>1 DEF HasAnswer
    <3>6. HasAnswer(a)'
      BY <1>1, <2>2, <2>3, <3>1, <3>3, <3>4, <3>5 DEF HasAnswer
    <3> QED
      BY <3>6
  <2>5. InStepIsExact'
    BY <1>1, <1>8, <2>4 DEF InStepIsExact
  <2> QED
    BY <1>1, <1>8, <2>1, <2>5 DEF IInv, FallsBackForCut, IsPatient, IsAnswer, AnswersAreOwn, FramesStayWhole
<1>9. CASE full /\ reading.what = "length"
  <2>1. PICK l \in Lengths(got) :
          IF l = 0 THEN /\ Idle("FormError", NoMessage, TRUE)
                        /\ inStep' = FALSE /\ UNCHANGED reading
          ELSE /\ reading' = [what |-> "body", count |-> l, got |-> <<>>]
               /\ UNCHANGED <<stage, inStep, result>>
    BY <1>1, <1>9
  <2>2. l \in Nat
    BY <2>1 DEF Lengths, BodySize
  <2>3. inStep => l = 2
    <3> SUFFICES ASSUME inStep PROVE l = 2
      OBVIOUS
    <3>1. PICK a \in Answers : /\ HasAnswer(a) /\ Len(got) <= 2
                               /\ \A i \in 1 .. Len(got) : got[i] = <<a, Before + i>>
      BY <1>7
    <3>2. Len(got) = 2 /\ Before = 0
      BY <1>9, <3>1 DEF full, ReadAll, HasAnswer, Before
    <3>3. got[1][1] = a /\ got = SubSeq(Frame(a), 1, 2)
      <4>1. \A i \in 1 .. 2 : got[i] = <<a, 0 + i>>
        BY <3>1, <3>2
      <4>2. got[1][1] = a /\ got = SubSeq(Frame(a), 0 + 1, 0 + 2)
        BY <1>3, <3>2, <4>1, HalfFrame
      <4> QED
        BY <4>2
    <3> QED
      BY <2>1, <3>3 DEF Lengths, BodySize
  <2>4. CASE l = 0
    <3>1. /\ stage' = "idle" /\ inStep' = FALSE /\ ~inStep
          /\ result' = [error |-> "FormError", m |-> NoMessage, tcp |-> TRUE, inStep |-> inStep]
          /\ UNCHANGED reading
      BY <2>1, <2>3, <2>4 DEF Idle
    <3>2. Typed'
      BY <1>1, <1>2, <1>4, <3>1 DEF IInv, Typed
    <3> QED
      BY <1>1, <3>1, <3>2 DEF IInv, FallsBackForCut, IsPatient, IsAnswer, InStepIsExact,
                              AnswersAreOwn, FramesStayWhole
  <2>5. CASE l # 0
    <3>1. /\ reading' = [what |-> "body", count |-> l, got |-> <<>>]
          /\ UNCHANGED <<stage, inStep, result>>
      BY <2>1, <2>5
    <3>2. Typed'
      BY <1>1, <1>2, <1>4, <2>2, <3>1 DEF IInv, Typed
    <3>3. ASSUME inStep PROVE \E a \in Answers : HasAnswer(a)'
      <4>1. PICK a \in Answers : /\ HasAnswer(a) /\ Len(got) <= 2
                                 /\ \A i \in 1 .. Len(got) : got[i] = <<a, Before + i>>
        BY <1>7, <3>3
      <4>2. Len(got) = 2 /\ Before = 0 /\ Before' = 2 /\ Len(reading'.got) = 0 /\ reading'.count = 2
        BY <1>9, <2>3, <3>1, <3>3, <4>1 DEF full, ReadAll, HasAnswer, Before
      <4>3. Len(octets') = 2 /\ Len(octets) = 2 + n /\ Len(reading.got) + n = 2 /\ Len(reading.got) \in Nat
        BY <1>2, <1>3, <1>4, <4>1, <4>2 DEF HasAnswer
      <4>4. \A i \in 1 .. 2 : octets'[i] = <<a, 2 + 0 + i>>
        <5> SUFFICES ASSUME NEW i \in 1 .. 2 PROVE octets'[i] = <<a, 2 + 0 + i>>
          OBVIOUS
        <5>1. i \in 1 .. Len(octets) - n /\ n + i \in 1 .. Len(octets)
          BY <4>3
        <5>2. octets'[i] = octets[n + i]
          BY <1>4, <5>1
        <5>3. octets[n + i] = <<a, Before + Len(reading.got) + (n + i)>>
          BY <4>1, <5>1 DEF HasAnswer
        <5>4. Before + Len(reading.got) + (n + i) = 2 + 0 + i
          <6>1. PICK k \in Nat : k = Len(reading.got)
            BY <4>3
          <6>2. k + n = 2
            BY <4>3, <6>1
          <6>3. 0 + k + (n + i) = 2 + 0 + i
            BY <6>2
          <6> QED
            BY <4>2, <6>1, <6>3
        <5> QED
          BY <5>2, <5>3, <5>4
      <4>5. a.to = number /\ unanswered = {}
        BY <4>1 DEF HasAnswer
      <4>6. /\ reading'.count = 2 /\ Len(reading'.got) < 2
            /\ \A i \in 1 .. Len(reading'.got) : reading'.got[i] = <<a, Before' + i>>
            /\ Len(octets') = 4 - Before' - Len(reading'.got)
            /\ \A i \in 1 .. Len(octets') : octets'[i] = <<a, Before' + Len(reading'.got) + i>>
        BY <4>2, <4>3, <4>4
      <4>7. a.to = number' /\ unanswered' = {}
        BY <1>1, <4>5
      <4>8. HasAnswer(a)'
        BY <4>6, <4>7 DEF HasAnswer
      <4> QED
        BY <4>8
    <3>4. InStepIsExact'
      BY <1>1, <3>1, <3>3 DEF InStepIsExact
    <3> QED
      BY <1>1, <3>1, <3>2, <3>4 DEF IInv, FallsBackForCut, IsPatient, IsAnswer, AnswersAreOwn, FramesStayWhole
  <2> QED
    BY <2>4, <2>5
<1>10. CASE /\ full /\ reading.what = "body"
            /\ Idle(error, m, TRUE)
            /\ inStep' = (inStep /\ error = "none") /\ UNCHANGED reading
  <2>1. /\ stage' = "idle" /\ inStep' = (inStep /\ error = "none") /\ UNCHANGED reading
        /\ result' = [error |-> error, m |-> m, tcp |-> TRUE, inStep |-> inStep]
    BY <1>10 DEF Idle
  <2>2. Typed'
    BY <1>1, <1>2, <1>4, <2>1 DEF IInv, Typed
  <2>3. ASSUME inStep
        PROVE  /\ unanswered = {} /\ octets' = <<>>
               /\ error = "none" \/ (m # NoMessage /\ m.form \in {"torn", "bad"})
    <3>1. PICK a \in Answers : /\ HasAnswer(a) /\ Len(got) <= 2
                               /\ \A i \in 1 .. Len(got) : got[i] = <<a, Before + i>>
      BY <1>7, <2>3
    <3>2. Len(got) = 2 /\ Before = 2
      BY <1>10, <3>1 DEF full, ReadAll, HasAnswer, Before
    <3>3. got[1][1] = a /\ got = SubSeq(Frame(a), 3, 4)
      <4>1. \A i \in 1 .. 2 : got[i] = <<a, 2 + i>>
        BY <3>1, <3>2
      <4>2. got[1][1] = a /\ got = SubSeq(Frame(a), 2 + 1, 2 + 2)
        BY <1>3, <3>2, <4>1, HalfFrame
      <4> QED
        BY <4>2
    <3>4. Whole(got)
      <4>1. 2 + BodySize = 4
        BY DEF BodySize
      <4>2. Len(got) # 0
        BY <3>2
      <4>3. got # <<>>
        BY <1>3, <4>2
      <4> QED
        BY <3>3, <4>1, <4>3 DEF Whole
    <3>5. m = a
      BY <3>3, <3>4 DEF m
    <3>6. a.form \in {"good", "cut", "torn", "bad"} /\ a.to = number /\ a # NoMessage
      BY <3>1 DEF Answers, HasAnswer, NoMessage, Forms
    <3>7. Len(octets') = 0
      BY <1>2, <1>3, <1>4, <3>1, <3>2 DEF HasAnswer
    <3>8. octets' = <<>> /\ unanswered = {}
      BY <1>4, <3>1, <3>7 DEF HasAnswer
    <3> QED
      BY <1>6, <3>5, <3>6, <3>8 DEF IsAnswer
  <2>4. InStepIsExact'
    BY <1>1, <2>1, <2>3 DEF InStepIsExact
  <2>5. FramesStayWhole'
    BY <2>1, <2>3 DEF FramesStayWhole
  <2>6. FallsBackForCut'
    BY <1>1, <2>1 DEF IInv, FallsBackForCut, IsPatient, IsAnswer
  <2>7. AnswersAreOwn'
    <3>1. m \in Answers => m.from = "server"
      BY DEF Answers
    <3>2. /\ result'.error = error /\ result'.m = m /\ result'.tcp = TRUE
          /\ o' = o /\ number' = number /\ cutBy' = cutBy
      BY <1>1, <2>1
    <3>3. o.kind = "fallback" => cutBy # {}
      BY <1>1 DEF IInv, FallsBackForCut
    <3>4. o.ignoreUnexpected /\ o.ignoreErrors => \A c \in cutBy : IsAnswer(c)
      BY DEF IInv, FallsBackForCut, IsPatient
    <3> QED
      BY <1>6, <3>1, <3>2, <3>3, <3>4 DEF AnswersAreOwn, IsAnswer
  <2> QED
    BY <2>2, <2>4, <2>5, <2>6, <2>7 DEF IInv
<1> QED
  BY <1>1, <1>8, <1>9, <1>10

LEMMA StepKeeps == IInv /\ [QueriesNext]_queriesVars => IInv'
<1> SUFFICES ASSUME IInv, [QueriesNext]_queriesVars PROVE IInv'
  OBVIOUS
<1>1. CASE UNCHANGED queriesVars
  <2>1. UNCHANGED <<number, o, stage, datagrams, unanswered, octets, reading, inStep, cutBy, result>>
    BY <1>1 DEF queriesVars
  <2>2. Typed'
    BY <2>1 DEF IInv, Typed
  <2>3. FallsBackForCut'
    BY <2>1 DEF IInv, FallsBackForCut, IsPatient, IsAnswer
  <2>4. InStepIsExact'
    BY <2>1 DEF IInv, InStepIsExact, Waits, HasAnswer, Before, ReadLength
  <2>5. AnswersAreOwn' /\ FramesStayWhole'
    BY <2>1 DEF IInv, AnswersAreOwn, FramesStayWhole, IsAnswer, RaisesOnTruncation
  <2> QED
    BY <2>2, <2>3, <2>4, <2>5 DEF IInv
<1>2. ASSUME NEW options \in Options, Ask(options) PROVE IInv'
  BY <1>2, AskKeeps
<1>3. ASSUME NEW from \in {"server", "other"}, NEW n \in 0 .. MaxQueries, NEW form \in Forms,
             Arrive([from |-> from, to |-> n, form |-> form])
      PROVE  IInv'
  <2>1. [from |-> from, to |-> n, form |-> form] \in Messages
    BY DEF Messages
  <2> QED
    BY <1>3, <2>1, ArriveKeeps
<1>4. ASSUME NEW n \in 1 .. (BodySize + 1), NetRead(n) PROVE IInv'
  BY <1>4, NetReadKeeps DEF BodySize
<1> QED
  BY <1>1, <1>2, <1>3, <1>4, TakeDatagramKeeps, UdpTimeoutKeeps, AnswerKeeps, TcpFailsKeeps
     DEF QueriesNext

LEMMA Invariance == QueriesSpec => []IInv
  BY InitHolds, StepKeeps, PTL DEF QueriesSpec

\* A query returns nothing but a response to itself that can be read, from
\* where it was sent, and over UDP uncut if it raises for a cut one or may
\* use TCP, whatever is late, double, torn or from strangers; and as long as
\* no query on a kept connection raised, the next one takes the one answer of
\* the server, in whatever pieces, and raises for it only if it cannot be read
\* (receive_udp, udp_with_fallback, _net_read, tcp).
THEOREM AnswersAreWholeAndOwnTheorem == QueriesSpec => []AnswersAreWholeAndOwn
<1>1. IInv => AnswersAreWholeAndOwn
  BY DEF IInv, AnswersAreWholeAndOwn
<1> QED
  BY <1>1, Invariance, PTL
=============================================================================
