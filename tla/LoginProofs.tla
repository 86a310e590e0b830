----------------------------- MODULE LoginProofs ------------------------------
(***************************************************************************)
(* Who is in and what each end can read, for any number of clients, any    *)
(* capacity and any mixture of versions.                                   *)
(*                                                                         *)
(* The handshake is a conversation in which one message at a time is a     *)
(* *turn*: the next one is sent only by the handler of the one before.     *)
(* Whatever else is under way, there is never a second turn, and what the  *)
(* turn is says how far both ends are.  Everything about one client is     *)
(* said by ClientInv of its five parts, so that most lemmas are about      *)
(* values and not about steps.                                             *)
(***************************************************************************)
EXTENDS Login, SequenceTheorems, TLAPS

ServerTurn == {"ServerReceiveClientInfo", "ServerReceivePublicKey", "ServerStartEncryptedSession"}
ClientTurn == {"ClientRequestedClientInfo", "ClientRequestedPublicKey",
               "ClientReceiveCommonKey", "ClientStartEncryptedSession"}

Typed(s, k, m, u, d) ==
    /\ s \in ServerSession /\ k \in ClientSession /\ m \in Screen
    /\ u \in Seq(Wire(ToServer)) /\ d \in Seq(Wire(ToClient))

(* Before a client has connected nothing has happened to it.               *)
Fresh(s, k, m, u, d) ==
    ~s.accepted =>
        /\ ~s.open /\ ~k.up /\ ~s.refused
        /\ s.id = 0 /\ k.id = 0 /\ ~s.encryption /\ ~k.encryption
        /\ u = <<>> /\ d = <<>> /\ m.pending = <<>>

(* At most one turn is under way, in one of the two directions.            *)
OneTurn(u, d) ==
    /\ \A i, j \in 1..Len(u) : u[i].kind \in ServerTurn /\ u[j].kind \in ServerTurn => i = j
    /\ \A i, j \in 1..Len(d) : d[i].kind \in ClientTurn /\ d[j].kind \in ClientTurn => i = j
    /\ \A i \in 1..Len(u), j \in 1..Len(d) : ~(u[i].kind \in ServerTurn /\ d[j].kind \in ClientTurn)

NoTurn(u, d) ==
    /\ \A i \in 1..Len(u) : u[i].kind \notin ServerTurn
    /\ \A j \in 1..Len(d) : d[j].kind \notin ClientTurn

Plain(s, k) == ~s.encryption /\ ~k.encryption
Unknown(s, k) == s.id = 0 /\ k.id = 0 /\ Plain(s, k)

(* What a turn says of both ends.                                          *)
ServerTurnSays(s, k, msg) ==
    /\ msg.kind \in {"ServerReceiveClientInfo", "ServerReceivePublicKey"} => Unknown(s, k)
    /\ msg.kind = "ServerStartEncryptedSession" => k.keyed /\ Plain(s, k)
ClientTurnSays(s, k, msg) ==
    /\ msg.kind \in {"ClientRequestedClientInfo", "ClientRequestedPublicKey"} => Unknown(s, k)
    /\ msg.kind = "ClientReceiveCommonKey" => msg.id = s.id /\ s.id > 0 /\ Plain(s, k)
    /\ msg.kind = "ClientStartEncryptedSession" => k.keyed /\ ~k.encryption

Turns(s, k, u, d) ==
    /\ OneTurn(u, d)
    /\ \A i \in 1..Len(u) : ServerTurnSays(s, k, u[i])
    /\ \A j \in 1..Len(d) : ClientTurnSays(s, k, d[j])

(* A refused session is closed before the client was asked for its key.    *)
Standing(s, k, u) ==
    /\ s.refused => /\ ~s.open /\ s.id = 0
                    /\ \A i \in 1..Len(u) : u[i].kind # "ServerReceivePublicKey"
    /\ k.id > 0 => k.id = s.id
    /\ s.encryption \/ k.encryption => k.keyed

(* The main thread takes no part in the handshake.                         *)
NoTurnOf(m) ==
    /\ \A i \in 1..Len(m.todo) : m.todo[i] \notin ServerTurn
    /\ \A i \in 1..Len(m.pending) : m.pending[i].kind \notin ServerTurn

(* Encrypted messages follow each other by number, the first of them being *)
(* the next one to decrypt, and no plain message is behind them.           *)
AllPlain(x) == \A i \in 1..Len(x) : x[i].cipher = 0
Numbered(x, from) ==
    /\ \A i, j \in 1..Len(x) : i < j /\ x[i].cipher > 0 => x[j].cipher = x[i].cipher + (j - i)
    /\ \A j \in 1..Len(x) :
          x[j].cipher > 0 /\ (\A i \in 1..Len(x) : i < j => x[i].cipher = 0) => x[j].cipher = from + 1
EndOf(x, from) == IF Len(x) = 0 THEN from
                  ELSE IF x[Len(x)].cipher = 0 THEN from ELSE x[Len(x)].cipher

UpLine(s, k, m, u) ==
    /\ Numbered(u, s.unsealed)
    /\ ~k.encryption => AllPlain(u) /\ AllPlain(m.pending) /\ s.unsealed = 0 /\ k.sealed = 0
    /\ Len(m.pending) <= 1
    /\ s.open /\ k.up =>
          /\ Len(m.pending) = 0 => k.sealed = EndOf(u, s.unsealed)
          /\ Len(m.pending) = 1 /\ m.pending[1].cipher = 0 => AllPlain(u) /\ k.sealed = s.unsealed
          /\ Len(m.pending) = 1 /\ m.pending[1].cipher > 0 =>
                m.pending[1].cipher = k.sealed /\ k.sealed = EndOf(u, s.unsealed) + 1

DownLine(s, k, d) ==
    /\ Numbered(d, k.unsealed)
    /\ ~s.encryption => AllPlain(d) /\ k.unsealed = 0 /\ s.sealed = 0
    /\ s.open /\ k.up => s.sealed = EndOf(d, k.unsealed)

ClientInv(s, k, m, u, d) ==
    /\ Typed(s, k, m, u, d) /\ Fresh(s, k, m, u, d) /\ Turns(s, k, u, d)
    /\ Standing(s, k, u) /\ NoTurnOf(m) /\ UpLine(s, k, m, u) /\ DownLine(s, k, d)

LoginInv ==
    /\ TypeOK
    /\ \A c \in Clients : ClientInv(sess[c], cl[c], screen[c], c2s[c], s2c[c])
    /\ \A c \in Clients : sess[c].id <= max_user_id
    /\ \A c, e \in Clients : c # e /\ sess[c].id > 0 => sess[c].id # sess[e].id

-----------------------------------------------------------------------------
(* Sequences of messages.                                                  *)

LEMMA FieldFacts ==
    ASSUME NEW kinds, NEW x \in Seq(Wire(kinds))
    PROVE  /\ Len(x) \in Nat
           /\ \A i \in 1..Len(x) :
                 x[i] \in Wire(kinds) /\ x[i].cipher \in Nat /\ x[i].kind \in kinds /\ x[i].id \in Nat
<1>1. Len(x) \in Nat /\ \A i \in 1..Len(x) : x[i] \in Wire(kinds)
  OBVIOUS
<1> QED BY <1>1 DEF Wire

LEMMA TailFacts ==
    ASSUME NEW S, NEW x \in Seq(S), Len(x) > 0
    PROVE  /\ Tail(x) \in Seq(S) /\ Len(Tail(x)) = Len(x) - 1
           /\ Head(x) = x[1] /\ x[1] \in S
           /\ \A i \in 1..Len(Tail(x)) : Tail(x)[i] = x[i + 1] /\ i + 1 \in 1..Len(x)
  OBVIOUS

LEMMA FunctionIsSeq ==
    ASSUME NEW S, NEW n \in Nat, NEW f \in [1..n -> S]
    PROVE  f \in Seq(S) /\ Len(f) = n
  BY SeqDef, LenProperties

LEMMA ConcatFacts ==
    ASSUME NEW S, NEW x \in Seq(S), NEW y \in Seq(S)
    PROVE  /\ x \o y \in Seq(S) /\ Len(x \o y) = Len(x) + Len(y)
           /\ \A i \in 1..Len(x \o y) :
                 (x \o y)[i] = IF i <= Len(x) THEN x[i] ELSE y[i - Len(x)]
  OBVIOUS

LEMMA PrefixFacts ==
    ASSUME NEW S, NEW x \in Seq(S), NEW n \in 0..Len(x)
    PROVE  /\ SubSeq(x, 1, n) \in Seq(S) /\ Len(SubSeq(x, 1, n)) = n
           /\ \A i \in 1..n : SubSeq(x, 1, n)[i] = x[i] /\ i \in 1..Len(x)
  OBVIOUS

Commands(kinds) == Seq([kind : kinds, id : Nat])

LEMMA SealedFacts ==
    ASSUME NEW kinds, NEW e, e.encryption \in BOOLEAN, e.sealed \in Nat, NEW out \in Commands(kinds)
    PROVE  /\ Sealed(e, out) \in Seq(Wire(kinds)) /\ Len(Sealed(e, out)) = Len(out)
           /\ \A i \in 1..Len(out) :
                 /\ Sealed(e, out)[i].kind = out[i].kind /\ Sealed(e, out)[i].id = out[i].id
                 /\ Sealed(e, out)[i].cipher = IF e.encryption THEN e.sealed + i ELSE 0
<1>1. Len(out) \in Nat /\ \A i \in 1..Len(out) : out[i].kind \in kinds /\ out[i].id \in Nat
  <2> DEFINE R == [kind : kinds, id : Nat]
  <2>1. out \in Seq(R)
    BY DEF Commands
  <2> HIDE DEF R
  <2>2. Len(out) \in Nat /\ \A i \in 1..Len(out) : out[i] \in R
    BY <2>1
  <2> QED BY <2>2 DEF R
<1>2. \A i \in 1..Len(out) : (IF e.encryption THEN e.sealed + i ELSE 0) \in Nat
  BY <1>1
<1>3. \A i \in 1..Len(out) :
          [kind |-> out[i].kind, id |-> out[i].id,
           cipher |-> IF e.encryption THEN e.sealed + i ELSE 0] \in Wire(kinds)
  BY <1>1, <1>2 DEF Wire
<1> DEFINE f == [i \in 1..Len(out) |->
                   [kind |-> out[i].kind, id |-> out[i].id,
                    cipher |-> IF e.encryption THEN e.sealed + i ELSE 0]]
<1>4. f \in [1..Len(out) -> Wire(kinds)]
  BY <1>3
<1>5. f \in Seq(Wire(kinds)) /\ Len(f) = Len(out)
  BY <1>1, <1>4, FunctionIsSeq
<1>6. Sealed(e, out) = f
  BY DEF Sealed
<1> QED BY <1>5, <1>6

-----------------------------------------------------------------------------
(* Numbers.                                                                *)

LEMMA NumberedTail ==
    ASSUME NEW kinds, NEW x \in Seq(Wire(kinds)), NEW from \in Nat, Len(x) > 0, Numbered(x, from)
    PROVE  LET next == IF Head(x).cipher > 0 THEN from + 1 ELSE from
           IN  /\ Numbered(Tail(x), next)
               /\ EndOf(Tail(x), next) = EndOf(x, from)
               /\ Head(x).cipher > 0 => Head(x).cipher = from + 1
               /\ AllPlain(x) => AllPlain(Tail(x)) /\ Head(x).cipher = 0
<1> DEFINE n == Len(x)
           y == Tail(x)
<1>1. /\ n \in Nat /\ n > 0 /\ Len(y) = n - 1 /\ Head(x) = x[1]
      /\ \A i \in 1..n : x[i].cipher \in Nat
      /\ \A i \in 1..Len(y) : y[i] = x[i + 1] /\ i + 1 \in 1..n
  BY TailFacts, FieldFacts
<1>2. /\ \A i, j \in 1..n : i < j /\ x[i].cipher > 0 => x[j].cipher = x[i].cipher + (j - i)
      /\ \A j \in 1..n : x[j].cipher > 0 /\ (\A i \in 1..n : i < j => x[i].cipher = 0)
                           => x[j].cipher = from + 1
  BY DEF Numbered
<1> HIDE DEF n, y
<1>3. x[1].cipher > 0 => x[1].cipher = from + 1
  BY <1>1, <1>2
<1>4. \A i, j \in 1..Len(y) : i < j /\ y[i].cipher > 0 => y[j].cipher = y[i].cipher + (j - i)
  <2> TAKE i, j \in 1..Len(y)
  <2> HAVE i < j /\ y[i].cipher > 0
  <2>1. /\ i + 1 \in 1..n /\ j + 1 \in 1..n /\ y[i] = x[i + 1] /\ y[j] = x[j + 1]
        /\ x[i + 1].cipher \in Nat /\ i \in Nat /\ j \in Nat
    <3>1. i + 1 \in 1..n /\ y[i] = x[i + 1]
      BY <1>1
    <3>2. j + 1 \in 1..n /\ y[j] = x[j + 1]
      BY <1>1
    <3>3. x[i + 1].cipher \in Nat
      BY <1>1, <3>1
    <3>4. i \in Nat /\ j \in Nat
      BY <1>1
    <3> QED BY <3>1, <3>2, <3>3, <3>4
  <2>2. x[j + 1].cipher = x[i + 1].cipher + ((j + 1) - (i + 1))
    BY <1>2, <2>1
  <2>3. (j + 1) - (i + 1) = j - i
    BY <2>1
  <2> QED BY <2>1, <2>2, <2>3
<1>5. CASE x[1].cipher > 0
  <2>1. \A j \in 1..Len(y) : y[j].cipher = from + 1 + j
    <3> TAKE j \in 1..Len(y)
    <3>1. x[j + 1].cipher = x[1].cipher + (j + 1 - 1)
      BY <1>1, <1>2, <1>5
    <3> QED BY <1>1, <1>3, <1>5, <3>1
  <2>2. \A j \in 1..Len(y) : (\A i \in 1..Len(y) : i < j => y[i].cipher = 0) => j = 1
    <3> SUFFICES ASSUME NEW j \in 1..Len(y), \A i \in 1..Len(y) : i < j => y[i].cipher = 0, j # 1
                 PROVE  FALSE
      OBVIOUS
    <3>1. 1 \in 1..Len(y) /\ 1 < j
      BY <1>1
    <3>2. y[1].cipher = 0 /\ y[1].cipher = from + 1 + 1
      BY <2>1, <3>1
    <3> QED BY <3>2
  <2>3. Numbered(y, from + 1)
    BY <1>4, <2>1, <2>2 DEF Numbered
  <2>4. EndOf(y, from + 1) = EndOf(x, from)
    <3>1. CASE n = 1
      BY <1>1, <1>3, <1>5, <3>1 DEF EndOf, n
    <3>2. CASE n > 1
      <4>1. y[n - 1] = x[n] /\ n - 1 \in 1..Len(y) /\ y[n - 1].cipher > 0
        BY <1>1, <2>1, <3>2
      <4> QED BY <1>1, <3>2, <4>1 DEF EndOf, n
    <3> QED BY <1>1, <3>1, <3>2
  <2> QED BY <1>1, <1>3, <1>5, <2>3, <2>4 DEF y, AllPlain
<1>6. CASE x[1].cipher = 0
  <2>1. \A j \in 1..Len(y) : y[j].cipher > 0 /\ (\A i \in 1..Len(y) : i < j => y[i].cipher = 0)
                               => y[j].cipher = from + 1
    <3> TAKE j \in 1..Len(y)
    <3> HAVE y[j].cipher > 0 /\ (\A i \in 1..Len(y) : i < j => y[i].cipher = 0)
    <3>1. \A i \in 1..n : i < j + 1 => x[i].cipher = 0
      <4> TAKE i \in 1..n
      <4> HAVE i < j + 1
      <4>1. CASE i = 1
        BY <1>6, <4>1
      <4>2. CASE i > 1
        <5>0. i - 1 \in 1..Len(y) /\ i - 1 < j
          BY <1>1, <4>2
        <5>1. y[i - 1] = x[(i - 1) + 1] /\ (i - 1) + 1 = i
          BY <1>1, <5>0
        <5> QED BY <5>0, <5>1
      <4> QED BY <4>1, <4>2
    <3> QED BY <1>1, <1>2, <3>1
  <2>2. Numbered(y, from)
    BY <1>4, <2>1 DEF Numbered
  <2>3. EndOf(y, from) = EndOf(x, from)
    <3>1. CASE n = 1
      BY <1>1, <1>6, <3>1 DEF EndOf, n
    <3>2. CASE n > 1
      <4>1. y[n - 1] = x[n] /\ n - 1 \in 1..Len(y)
        BY <1>1, <3>2
      <4> QED BY <1>1, <3>2, <4>1 DEF EndOf, n
    <3> QED BY <1>1, <3>1, <3>2
  <2>4. AllPlain(x) => AllPlain(y)
    BY <1>1 DEF AllPlain, n
  <2> QED BY <1>1, <1>6, <2>2, <2>3, <2>4 DEF y
<1>7. x[1].cipher \in Nat
  BY <1>1
<1> QED BY <1>5, <1>6, <1>7

LEMMA NumberedPrefix ==
    ASSUME NEW kinds, NEW x \in Seq(Wire(kinds)), NEW from \in Nat, NEW n \in 0..Len(x)
    PROVE  /\ Numbered(x, from) => Numbered(SubSeq(x, 1, n), from)
           /\ AllPlain(x) => AllPlain(SubSeq(x, 1, n))
<1> DEFINE y == SubSeq(x, 1, n)
<1>1. Len(y) = n /\ n <= Len(x) /\ Len(x) \in Nat /\ \A i \in 1..n : y[i] = x[i] /\ i \in 1..Len(x)
  BY PrefixFacts
<1> HIDE DEF y
<1>2. Numbered(x, from) => Numbered(y, from)
  <2> SUFFICES ASSUME Numbered(x, from) PROVE Numbered(y, from)
    OBVIOUS
  <2>1. \A i, j \in 1..n : i < j /\ y[i].cipher > 0 => y[j].cipher = y[i].cipher + (j - i)
    BY <1>1 DEF Numbered
  <2>2. ASSUME NEW j \in 1..n, y[j].cipher > 0, \A i \in 1..n : i < j => y[i].cipher = 0
        PROVE  y[j].cipher = from + 1
    <3>1. \A i \in 1..Len(x) : i < j => x[i].cipher = 0
      BY <1>1, <2>2
    <3> QED BY <1>1, <2>2, <3>1 DEF Numbered
  <2> QED BY <1>1, <2>1, <2>2 DEF Numbered
<1>3. AllPlain(x) => AllPlain(y)
  BY <1>1 DEF AllPlain
<1> QED BY <1>2, <1>3 DEF y

LEMMA NumberedConcat ==
    ASSUME NEW kinds, NEW x \in Seq(Wire(kinds)), NEW from \in Nat, Numbered(x, from),
           NEW y \in Seq(Wire(kinds)),
           \A i \in 1..Len(y) : y[i].cipher = EndOf(x, from) + i
    PROVE  Numbered(x \o y, from) /\ EndOf(x \o y, from) = EndOf(x, from) + Len(y)
<1> DEFINE z == x \o y
           n == Len(x)
           last == EndOf(x, from)
<1>1. /\ n \in Nat /\ Len(y) \in Nat /\ Len(z) = n + Len(y)
      /\ \A i \in 1..n : x[i].cipher \in Nat
      /\ \A i \in 1..Len(z) : z[i] = IF i <= n THEN x[i] ELSE y[i - n]
  BY ConcatFacts, FieldFacts
<1>2. last \in Nat
  BY <1>1 DEF EndOf
<1>3. \A i \in 1..n : x[i].cipher > 0 => last = x[i].cipher + (n - i)
  <2> TAKE i \in 1..n
  <2> HAVE x[i].cipher > 0
  <2>1. CASE i = n
    BY <1>1, <2>1 DEF EndOf
  <2>2. CASE i < n
    <3>1. x[n].cipher = x[i].cipher + (n - i)
      BY <1>1, <2>2 DEF Numbered
    <3> QED BY <1>1, <2>2, <3>1 DEF EndOf
  <2> QED BY <1>1, <2>1, <2>2
<1>4. (\A i \in 1..n : x[i].cipher = 0) => last = from
  BY <1>1 DEF EndOf
<1>5. /\ \A i, j \in 1..n : i < j /\ x[i].cipher > 0 => x[j].cipher = x[i].cipher + (j - i)
      /\ \A j \in 1..n : x[j].cipher > 0 /\ (\A i \in 1..n : i < j => x[i].cipher = 0)
                           => x[j].cipher = from + 1
  BY DEF Numbered
<1>6. \A i \in 1..Len(y) : y[i].cipher = last + i
  OBVIOUS
<1> HIDE DEF z, n, last
<1>7. ASSUME NEW i \in 1..Len(z), NEW j \in 1..Len(z), i < j, z[i].cipher > 0
      PROVE  z[j].cipher = z[i].cipher + (j - i)
  <2>1. CASE j <= n
    BY <1>1, <1>5, <1>7, <2>1
  <2>2. CASE i <= n /\ j > n
    <3>0. j - n \in 1..Len(y) /\ z[j] = y[j - n] /\ z[i] = x[i] /\ i \in 1..n
      BY <1>1, <2>2
    <3>1. z[j].cipher = last + (j - n)
      BY <1>6, <3>0
    <3>2. last = x[i].cipher + (n - i) /\ x[i].cipher \in Nat
      BY <1>1, <1>3, <1>7, <3>0
    <3>3. i \in Int /\ j \in Int /\ n \in Int
      BY <1>1
    <3>4. (x[i].cipher + (n - i)) + (j - n) = x[i].cipher + (j - i)
      BY <3>2, <3>3
    <3> QED BY <3>0, <3>1, <3>2, <3>4, Zenon
  <2>3. CASE i > n
    <3>0. /\ j - n \in 1..Len(y) /\ z[j] = y[j - n]
          /\ i - n \in 1..Len(y) /\ z[i] = y[i - n]
      BY <1>1, <1>7, <2>3
    <3>1. z[j].cipher = last + (j - n) /\ z[i].cipher = last + (i - n)
      BY <1>6, <3>0
    <3>2. i \in Int /\ j \in Int /\ n \in Int /\ last \in Int
      BY <1>1, <1>2
    <3>3. last + (j - n) = (last + (i - n)) + (j - i)
      BY <3>2
    <3> QED BY <3>1, <3>3, Zenon
  <2> QED BY <1>1, <1>7, <2>1, <2>2, <2>3
<1>8. ASSUME NEW j \in 1..Len(z), z[j].cipher > 0, \A i \in 1..Len(z) : i < j => z[i].cipher = 0
      PROVE  z[j].cipher = from + 1
  <2>1. CASE j <= n
    <3>1. \A i \in 1..n : i < j => x[i].cipher = 0
      BY <1>1, <1>8, <2>1
    <3> QED BY <1>1, <1>5, <1>8, <2>1, <3>1
  <2>2. CASE j > n
    <3>1. \A i \in 1..n : x[i].cipher = 0
      BY <1>1, <1>8, <2>2
    <3>2. j = n + 1
      <4> SUFFICES ASSUME j > n + 1 PROVE FALSE
        BY <1>1, <2>2
      <4>1. z[n + 1].cipher = last + 1 /\ n + 1 \in 1..Len(z)
        BY <1>1, <1>6
      <4> QED BY <1>1, <1>2, <1>8, <4>1
    <3> QED BY <1>1, <1>4, <1>6, <3>1, <3>2
  <2> QED BY <1>1, <2>1, <2>2
<1>9. Numbered(z, from)
  BY <1>7, <1>8 DEF Numbered
<1>10. EndOf(z, from) = last + Len(y)
  <2>1. CASE Len(y) = 0
    <3>1. z = x
      BY <2>1 DEF z
    <3> QED BY <1>2, <2>1, <3>1 DEF last
  <2>2. CASE Len(y) > 0
    <3>1. z[Len(z)].cipher = last + Len(y) /\ Len(z) > 0
      BY <1>1, <1>6, <2>2
    <3> QED BY <1>1, <1>2, <2>2, <3>1 DEF EndOf
  <2> QED BY <1>1, <2>1, <2>2
<1> QED BY <1>9, <1>10 DEF z, last

LEMMA PlainIsNumbered ==
    ASSUME NEW x, NEW from, AllPlain(x), Len(x) \in Nat
    PROVE  Numbered(x, from) /\ EndOf(x, from) = from
  BY DEF AllPlain, Numbered, EndOf

LEMMA PlainConcat ==
    ASSUME NEW kinds, NEW x \in Seq(Wire(kinds)), NEW y \in Seq(Wire(kinds)), AllPlain(x), AllPlain(y)
    PROVE  AllPlain(x \o y)
  BY ConcatFacts DEF AllPlain

-----------------------------------------------------------------------------
(* Turns.                                                                  *)

LEMMA NoTurnSays ==
    ASSUME NEW s, NEW k, NEW u, NEW d, NoTurn(u, d)
    PROVE  Turns(s, k, u, d)
  BY DEF NoTurn, Turns, OneTurn, ServerTurnSays, ClientTurnSays, ServerTurn, ClientTurn

LEMMA TurnTakenByServer ==
    ASSUME NEW s, NEW k, NEW u \in Seq(Wire(ToServer)), NEW d, Turns(s, k, u, d), Len(u) > 0
    PROVE  /\ Turns(s, k, Tail(u), d) /\ ServerTurnSays(s, k, Head(u))
           /\ Head(u).kind \in ServerTurn => NoTurn(Tail(u), d)
<1>1. /\ Len(u) \in Nat /\ Len(Tail(u)) = Len(u) - 1 /\ Head(u) = u[1] /\ 1 \in 1..Len(u)
      /\ \A i \in 1..Len(Tail(u)) : Tail(u)[i] = u[i + 1] /\ i + 1 \in 1..Len(u) /\ i + 1 # 1 /\ i \in Nat
  BY TailFacts
<1>2. ServerTurnSays(s, k, Head(u))
  BY <1>1 DEF Turns
<1>3. ASSUME u[1].kind \in ServerTurn PROVE NoTurn(Tail(u), d)
  BY <1>1, <1>3 DEF NoTurn, Turns, OneTurn
<1>4. Turns(s, k, Tail(u), d)
  <2>1. ASSUME NEW i \in 1..Len(Tail(u)), NEW j \in 1..Len(Tail(u)),
               Tail(u)[i].kind \in ServerTurn, Tail(u)[j].kind \in ServerTurn
        PROVE  i = j
    <3>1. i + 1 = j + 1 /\ i \in Nat /\ j \in Nat
      BY <1>1, <2>1 DEF Turns, OneTurn
    <3> QED BY <3>1
  <2>2. \A i \in 1..Len(Tail(u)), j \in 1..Len(d) :
            ~(Tail(u)[i].kind \in ServerTurn /\ d[j].kind \in ClientTurn)
    BY <1>1 DEF Turns, OneTurn
  <2>3. OneTurn(Tail(u), d)
    BY <2>1, <2>2 DEF Turns, OneTurn
  <2>4. \A i \in 1..Len(Tail(u)) : ServerTurnSays(s, k, Tail(u)[i])
    BY <1>1 DEF Turns
  <2> QED BY <2>3, <2>4 DEF Turns
<1> QED BY <1>1, <1>2, <1>3, <1>4

LEMMA TurnTakenByClient ==
    ASSUME NEW s, NEW k, NEW u, NEW d \in Seq(Wire(ToClient)), Turns(s, k, u, d), Len(d) > 0
    PROVE  /\ Turns(s, k, u, Tail(d)) /\ ClientTurnSays(s, k, Head(d))
           /\ Head(d).kind \in ClientTurn => NoTurn(u, Tail(d))
<1>1. /\ Len(d) \in Nat /\ Len(Tail(d)) = Len(d) - 1 /\ Head(d) = d[1] /\ 1 \in 1..Len(d)
      /\ \A i \in 1..Len(Tail(d)) : Tail(d)[i] = d[i + 1] /\ i + 1 \in 1..Len(d) /\ i + 1 # 1 /\ i \in Nat
  BY TailFacts
<1>2. ClientTurnSays(s, k, Head(d))
  BY <1>1 DEF Turns
<1>3. ASSUME d[1].kind \in ClientTurn PROVE NoTurn(u, Tail(d))
  BY <1>1, <1>3 DEF NoTurn, Turns, OneTurn
<1>4. Turns(s, k, u, Tail(d))
  <2>1. ASSUME NEW i \in 1..Len(Tail(d)), NEW j \in 1..Len(Tail(d)),
               Tail(d)[i].kind \in ClientTurn, Tail(d)[j].kind \in ClientTurn
        PROVE  i = j
    <3>1. i + 1 = j + 1 /\ i \in Nat /\ j \in Nat
      BY <1>1, <2>1 DEF Turns, OneTurn
    <3> QED BY <3>1
  <2>2. \A i \in 1..Len(u), j \in 1..Len(Tail(d)) :
            ~(u[i].kind \in ServerTurn /\ Tail(d)[j].kind \in ClientTurn)
    BY <1>1 DEF Turns, OneTurn
  <2>3. OneTurn(u, Tail(d))
    BY <2>1, <2>2 DEF Turns, OneTurn
  <2>4. \A j \in 1..Len(Tail(d)) : ClientTurnSays(s, k, Tail(d)[j])
    BY <1>1 DEF Turns
  <2> QED BY <2>3, <2>4 DEF Turns
<1> QED BY <1>1, <1>2, <1>3, <1>4

(* What is lost with a connection is the end of it.                        *)
LEMMA TurnsOfPrefixes ==
    ASSUME NEW s, NEW k, NEW u \in Seq(Wire(ToServer)), NEW d \in Seq(Wire(ToClient)),
           NEW i \in 0..Len(u), NEW j \in 0..Len(d), Turns(s, k, u, d)
    PROVE  Turns(s, k, SubSeq(u, 1, i), SubSeq(d, 1, j))
<1> DEFINE v == SubSeq(u, 1, i)
           e == SubSeq(d, 1, j)
<1>1. Len(v) = i /\ \A n \in 1..i : v[n] = u[n] /\ n \in 1..Len(u)
  BY PrefixFacts
<1>2. Len(e) = j /\ \A n \in 1..j : e[n] = d[n] /\ n \in 1..Len(d)
  BY PrefixFacts
<1> HIDE DEF v, e
<1>3. OneTurn(v, e)
  BY <1>1, <1>2 DEF Turns, OneTurn
<1>4. /\ \A n \in 1..Len(v) : ServerTurnSays(s, k, v[n])
      /\ \A n \in 1..Len(e) : ClientTurnSays(s, k, e[n])
  BY <1>1, <1>2 DEF Turns
<1> QED BY <1>3, <1>4 DEF Turns, v, e

(* The next turn, or no turn at all, is sent.                              *)
PassesToClient(s, k, u, d, out) ==
    \/ \A i \in 1..Len(out) : out[i].kind \notin ClientTurn
    \/ NoTurn(u, d) /\ Len(out) = 1 /\ ClientTurnSays(s, k, out[1])
PassesToServer(s, k, u, d, out) ==
    \/ \A i \in 1..Len(out) : out[i].kind \notin ServerTurn
    \/ /\ NoTurn(u, d) /\ ServerTurnSays(s, k, out[1])
       /\ \A i \in 1..Len(out) : i > 1 => out[i].kind \notin ServerTurn

LEMMA TurnPassedToClient ==
    ASSUME NEW s, NEW k, NEW u \in Seq(Wire(ToServer)), NEW d \in Seq(Wire(ToClient)), Turns(s, k, u, d),
           NEW out \in Commands(ToClient), PassesToClient(s, k, u, d, out),
           NEW y \in Seq(Wire(ToClient)), Len(y) = Len(out),
           \A i \in 1..Len(out) : y[i].kind = out[i].kind /\ y[i].id = out[i].id
    PROVE  Turns(s, k, u, d \o y)
<1> DEFINE e == d \o y
<1>1. /\ Len(d) \in Nat /\ Len(y) \in Nat /\ Len(e) = Len(d) + Len(y)
      /\ \A i \in 1..Len(e) : e[i] = IF i <= Len(d) THEN d[i] ELSE y[i - Len(d)]
  BY ConcatFacts
<1> HIDE DEF e
<1>2. \A i \in 1..Len(e) : i <= Len(d) => i \in 1..Len(d) /\ e[i] = d[i]
  BY <1>1
<1>3. \A i \in 1..Len(e) : i > Len(d) => i - Len(d) \in 1..Len(out) /\ e[i] = y[i - Len(d)]
  BY <1>1
<1>4. ASSUME \A i \in 1..Len(out) : out[i].kind \notin ClientTurn
      PROVE  Turns(s, k, u, e)
  <2>1. \A i \in 1..Len(e) : i > Len(d) => e[i].kind \notin ClientTurn
    BY <1>3, <1>4
  <2>2. \A i \in 1..Len(e) : e[i].kind \in ClientTurn => i \in 1..Len(d) /\ e[i] = d[i]
    BY <1>1, <1>2, <2>1
  <2>3. OneTurn(u, e)
    BY <2>2 DEF Turns, OneTurn
  <2>4. \A i \in 1..Len(e) : ClientTurnSays(s, k, e[i])
    <3> TAKE i \in 1..Len(e)
    <3>1. CASE e[i].kind \in ClientTurn
      BY <2>2, <3>1 DEF Turns
    <3>2. CASE e[i].kind \notin ClientTurn
      BY <3>2 DEF ClientTurnSays, ClientTurn
    <3> QED BY <3>1, <3>2
  <2> QED BY <2>3, <2>4 DEF Turns
<1>5. ASSUME NoTurn(u, d), Len(out) = 1, ClientTurnSays(s, k, out[1])
      PROVE  Turns(s, k, u, e)
  <2>1. Len(e) = Len(d) + 1 /\ e[Len(d) + 1] = y[1] /\ 1 \in 1..Len(out)
    BY <1>1, <1>3, <1>5
  <2>2. \A i \in 1..Len(e) : e[i].kind \in ClientTurn => i = Len(d) + 1
    BY <1>1, <1>2, <1>5, <2>1 DEF NoTurn
  <2>3. OneTurn(u, e)
    BY <1>5, <2>2 DEF NoTurn, OneTurn
  <2>4. ClientTurnSays(s, k, y[1])
    BY <1>5, <2>1 DEF ClientTurnSays
  <2>5. \A i \in 1..Len(e) : ClientTurnSays(s, k, e[i])
    <3> TAKE i \in 1..Len(e)
    <3>1. CASE e[i].kind \in ClientTurn
      BY <2>1, <2>2, <2>4, <3>1
    <3>2. CASE e[i].kind \notin ClientTurn
      BY <3>2 DEF ClientTurnSays, ClientTurn
    <3> QED BY <3>1, <3>2
  <2>6. \A i \in 1..Len(u) : ServerTurnSays(s, k, u[i])
    BY DEF Turns
  <2> QED BY <2>3, <2>5, <2>6 DEF Turns
<1> QED BY <1>4, <1>5 DEF PassesToClient, e

LEMMA TurnPassedToServer ==
    ASSUME NEW s, NEW k, NEW u \in Seq(Wire(ToServer)), NEW d \in Seq(Wire(ToClient)), Turns(s, k, u, d),
           NEW out \in Commands(ToServer), Len(out) > 0, PassesToServer(s, k, u, d, out),
           NEW y \in Seq(Wire(ToServer)), Len(y) = Len(out),
           \A i \in 1..Len(out) : y[i].kind = out[i].kind /\ y[i].id = out[i].id
    PROVE  Turns(s, k, u \o y, d)
<1> DEFINE v == u \o y
<1>1. /\ Len(u) \in Nat /\ Len(y) \in Nat /\ Len(v) = Len(u) + Len(y)
      /\ \A i \in 1..Len(v) : v[i] = IF i <= Len(u) THEN u[i] ELSE y[i - Len(u)]
  <2> HIDE DEF v
  <2>1. Len(u) \in Nat /\ Len(y) \in Nat
    BY FieldFacts
  <2>2. /\ Len(v) = Len(u) + Len(y)
        /\ \A i \in 1..Len(v) : v[i] = IF i <= Len(u) THEN u[i] ELSE y[i - Len(u)]
    BY ConcatFacts DEF v
  <2> QED BY <2>1, <2>2
<1> HIDE DEF v
<1>2. \A i \in 1..Len(v) : i <= Len(u) => i \in 1..Len(u) /\ v[i] = u[i]
  BY <1>1
<1>3. \A i \in 1..Len(v) : i > Len(u) => i - Len(u) \in 1..Len(out) /\ v[i] = y[i - Len(u)]
  BY <1>1
<1>4. ASSUME \A i \in 1..Len(out) : out[i].kind \notin ServerTurn
      PROVE  Turns(s, k, v, d)
  <2>1. \A i \in 1..Len(v) : i > Len(u) => v[i].kind \notin ServerTurn
    BY <1>3, <1>4
  <2>2. \A i \in 1..Len(v) : v[i].kind \in ServerTurn => i \in 1..Len(u) /\ v[i] = u[i]
    BY <1>1, <1>2, <2>1
  <2>3. OneTurn(v, d)
    BY <2>2 DEF Turns, OneTurn
  <2>4. \A i \in 1..Len(v) : ServerTurnSays(s, k, v[i])
    <3> TAKE i \in 1..Len(v)
    <3>1. CASE v[i].kind \in ServerTurn
      BY <2>2, <3>1 DEF Turns
    <3>2. CASE v[i].kind \notin ServerTurn
      BY <3>2 DEF ServerTurnSays, ServerTurn
    <3> QED BY <3>1, <3>2
  <2> QED BY <2>3, <2>4 DEF Turns
<1>5. ASSUME NoTurn(u, d), ServerTurnSays(s, k, out[1]),
             \A i \in 1..Len(out) : i > 1 => out[i].kind \notin ServerTurn
      PROVE  Turns(s, k, v, d)
  <2>1. Len(u) + 1 \in 1..Len(v) /\ v[Len(u) + 1] = y[1] /\ 1 \in 1..Len(out)
    BY <1>1, <1>3
  <2>2. \A i \in 1..Len(v) : v[i].kind \in ServerTurn => i = Len(u) + 1
    <3> TAKE i \in 1..Len(v)
    <3>1. CASE i <= Len(u)
      BY <1>2, <1>5, <3>1 DEF NoTurn
    <3>2. CASE i > Len(u) + 1
      <4>1. i - Len(u) \in 1..Len(out) /\ i - Len(u) > 1 /\ v[i] = y[i - Len(u)]
        BY <1>1, <1>3, <3>2
      <4> QED BY <1>5, <4>1
    <3> QED BY <1>1, <3>1, <3>2
  <2>3. OneTurn(v, d)
    BY <1>5, <2>2 DEF NoTurn, OneTurn
  <2>4. ServerTurnSays(s, k, y[1])
    BY <1>5, <2>1 DEF ServerTurnSays
  <2>5. \A i \in 1..Len(v) : ServerTurnSays(s, k, v[i])
    <3> TAKE i \in 1..Len(v)
    <3>1. CASE v[i].kind \in ServerTurn
      BY <2>1, <2>2, <2>4, <3>1
    <3>2. CASE v[i].kind \notin ServerTurn
      BY <3>2 DEF ServerTurnSays, ServerTurn
    <3> QED BY <3>1, <3>2
  <2>6. \A i \in 1..Len(d) : ClientTurnSays(s, k, d[i])
    BY DEF Turns
  <2> QED BY <2>3, <2>5, <2>6 DEF Turns
<1> QED BY <1>4, <1>5 DEF PassesToServer, v

-----------------------------------------------------------------------------
(* What ClientInv looks at, in each of the parts.                          *)

SameServer(s, t) ==
    /\ t \in ServerSession
    /\ t.accepted <=> s.accepted
    /\ t.open <=> s.open
    /\ t.refused <=> s.refused
    /\ t.encryption <=> s.encryption
    /\ t.id = s.id /\ t.sealed = s.sealed /\ t.unsealed = s.unsealed

SameClient(k, l) ==
    /\ l \in ClientSession
    /\ l.up <=> k.up
    /\ l.keyed <=> k.keyed
    /\ l.encryption <=> k.encryption
    /\ l.id = k.id /\ l.sealed = k.sealed /\ l.unsealed = k.unsealed

LEMMA TurnsKept ==
    ASSUME NEW s, NEW t, NEW k, NEW l, NEW u, NEW d, Turns(s, k, u, d),
           t.id = s.id, t.encryption <=> s.encryption,
           l.id = k.id, l.encryption <=> k.encryption, l.keyed <=> k.keyed
    PROVE  Turns(t, l, u, d)
<1>1. \A i \in 1..Len(u) : ServerTurnSays(t, l, u[i])
  BY DEF Turns, ServerTurnSays, Unknown, Plain
<1>2. \A i \in 1..Len(d) : ClientTurnSays(t, l, d[i])
  BY DEF Turns, ClientTurnSays, Unknown, Plain
<1> QED BY <1>1, <1>2 DEF Turns

LEMMA StandingKept ==
    ASSUME NEW s, NEW t, NEW k, NEW l, NEW u, Standing(s, k, u),
           t.refused <=> s.refused, t.open => s.open, t.id = s.id, t.encryption <=> s.encryption,
           l.id = k.id, l.encryption <=> k.encryption, l.keyed <=> k.keyed
    PROVE  Standing(t, l, u)
<1>1. t.refused => ~t.open /\ t.id = 0 /\ \A i \in 1..Len(u) : u[i].kind # "ServerReceivePublicKey"
  BY DEF Standing
<1>2. l.id > 0 => l.id = t.id
  BY DEF Standing
<1>3. t.encryption \/ l.encryption => l.keyed
  BY DEF Standing
<1> QED BY <1>1, <1>2, <1>3 DEF Standing

LEMMA UpLineKept ==
    ASSUME NEW s, NEW t, NEW k, NEW l, NEW m, NEW n, NEW u, UpLine(s, k, m, u),
           t.open => s.open, l.up => k.up, l.encryption <=> k.encryption,
           t.unsealed = s.unsealed, l.sealed = k.sealed, n.pending = m.pending
    PROVE  UpLine(t, l, n, u)
  BY Zenon DEF UpLine

LEMMA DownLineKept ==
    ASSUME NEW s, NEW t, NEW k, NEW l, NEW d, DownLine(s, k, d),
           t.open => s.open, l.up => k.up, t.encryption <=> s.encryption,
           t.sealed = s.sealed, l.unsealed = k.unsealed
    PROVE  DownLine(t, l, d)
  BY Zenon DEF DownLine

LEMMA Irrelevant ==
    ASSUME NEW s, NEW t, NEW k, NEW l, NEW m, NEW n, NEW u, NEW d, ClientInv(s, k, m, u, d),
           SameServer(s, t), SameClient(k, l), n \in Screen, n.pending = m.pending, NoTurnOf(n)
    PROVE  ClientInv(t, l, n, u, d)
<1>1. Typed(t, l, n, u, d)
  BY DEF ClientInv, Typed, SameServer, SameClient
<1>2. Fresh(t, l, n, u, d)
  BY DEF ClientInv, Fresh, SameServer, SameClient
<1>3. Turns(t, l, u, d)
  BY TurnsKept DEF ClientInv, SameServer, SameClient
<1>4. Standing(t, l, u)
  BY StandingKept DEF ClientInv, SameServer, SameClient
<1>5. UpLine(t, l, n, u)
  BY UpLineKept DEF ClientInv, SameServer, SameClient
<1>6. DownLine(t, l, d)
  BY DownLineKept DEF ClientInv, SameServer, SameClient
<1> QED BY <1>1, <1>2, <1>3, <1>4, <1>5, <1>6 DEF ClientInv

-----------------------------------------------------------------------------
(* What the server does to a client.                                       *)

LEMMA ServerUnseals ==
    ASSUME NEW s \in ServerSession, NEW msg, msg.cipher \in Nat
    PROVE  LET t == AfterUnsealing(s, msg)
           IN  /\ t \in ServerSession
               /\ t.accepted <=> s.accepted
               /\ t.open <=> s.open
               /\ t.refused <=> s.refused
               /\ t.encryption <=> s.encryption
               /\ t.id = s.id /\ t.sealed = s.sealed
               /\ t.unsealed = IF msg.cipher > 0 THEN s.unsealed + 1 ELSE s.unsealed
<1> DEFINE n == IF msg.cipher > 0 THEN s.unsealed + 1 ELSE s.unsealed
<1>1. s.unsealed \in Nat
  BY DEF ServerSession
<1>2. n \in Nat
  BY <1>1
<1>3. AfterUnsealing(s, msg) = [s EXCEPT !.unsealed = n]
  BY DEF AfterUnsealing, ServerSession
<1> HIDE DEF n
<1>4. [s EXCEPT !.unsealed = n] \in ServerSession
  BY <1>2 DEF ServerSession
<1> QED BY <1>3, <1>4 DEF ServerSession, n

Said(s, out, b) == [AfterSealing(s, out) EXCEPT !.unsent = b]

LEMMA ServerSeals ==
    ASSUME NEW s \in ServerSession, NEW b \in BOOLEAN, NEW out, Len(out) \in Nat
    PROVE  LET t == Said(s, out, b)
           IN  /\ t \in ServerSession
               /\ t.accepted <=> s.accepted
               /\ t.open <=> s.open
               /\ t.refused <=> s.refused
               /\ t.encryption <=> s.encryption
               /\ t.id = s.id /\ t.unsealed = s.unsealed
               /\ s.encryption => t.sealed = s.sealed + Len(out)
               /\ ~s.encryption => t.sealed = s.sealed
<1> DEFINE n == IF s.encryption THEN s.sealed + Len(out) ELSE s.sealed
<1>1. s.sealed \in Nat
  BY DEF ServerSession
<1>2. n \in Nat
  BY <1>1
<1>3. AfterSealing(s, out) = [s EXCEPT !.sealed = n]
  BY DEF AfterSealing, ServerSession
<1> HIDE DEF n
<1>4. [[s EXCEPT !.sealed = n] EXCEPT !.unsent = b] \in ServerSession
  BY <1>2 DEF ServerSession
<1> QED BY <1>3, <1>4 DEF Said, ServerSession, n

(* It takes a message: the next number, if it is encrypted.                *)
LEMMA ServerTakes ==
    ASSUME NEW s, NEW k, NEW m, NEW u, NEW d, ClientInv(s, k, m, u, d), Len(u) > 0
    PROVE  LET t == AfterUnsealing(s, Head(u))
           IN  /\ ClientInv(t, k, m, Tail(u), d) /\ t.accepted
               /\ t.id = s.id /\ (t.encryption <=> s.encryption) /\ (t.open <=> s.open)
               /\ ServerTurnSays(t, k, Head(u))
               /\ Head(u).kind \in ServerTurn => NoTurn(Tail(u), d)
               /\ Head(u).kind = "ServerReceivePublicKey" => ~t.refused
               /\ Head(u).cipher > 0 => Head(u).cipher = s.unsealed + 1 /\ k.keyed
<1> DEFINE t == AfterUnsealing(s, Head(u))
<1>1. /\ s \in ServerSession /\ k \in ClientSession /\ m \in Screen
      /\ u \in Seq(Wire(ToServer)) /\ d \in Seq(Wire(ToClient))
  BY DEF ClientInv, Typed
<1>2. /\ Tail(u) \in Seq(Wire(ToServer)) /\ Len(Tail(u)) = Len(u) - 1 /\ Head(u) = u[1]
      /\ \A i \in 1..Len(Tail(u)) : Tail(u)[i] = u[i + 1] /\ i + 1 \in 1..Len(u)
  BY <1>1, TailFacts
<1>3. 1 \in 1..Len(u) /\ Head(u).cipher \in Nat /\ s.unsealed \in Nat
  <2>1. Len(u) \in Nat /\ \A i \in 1..Len(u) : u[i].cipher \in Nat
    BY <1>1, FieldFacts
  <2>2. s.unsealed \in Nat
    BY <1>1 DEF ServerSession
  <2> QED BY <1>2, <2>1, <2>2
<1>4. /\ t \in ServerSession
      /\ t.accepted <=> s.accepted
      /\ t.open <=> s.open
      /\ t.refused <=> s.refused
      /\ t.encryption <=> s.encryption
      /\ t.id = s.id /\ t.sealed = s.sealed
  BY <1>1, <1>3, ServerUnseals
<1>5. t.unsealed = IF Head(u).cipher > 0 THEN s.unsealed + 1 ELSE s.unsealed
  BY <1>1, <1>3, ServerUnseals
<1> HIDE DEF t
<1>6. s.accepted
  <2> SUFFICES ASSUME ~s.accepted PROVE FALSE
    OBVIOUS
  <2>1. u = <<>>
    BY DEF ClientInv, Fresh
  <2> QED BY <1>3, <2>1
<1>7. Typed(t, k, m, Tail(u), d)
  BY <1>1, <1>2, <1>4 DEF Typed
<1>8. Fresh(t, k, m, Tail(u), d)
  BY <1>4, <1>6 DEF Fresh
<1>9. /\ Turns(s, k, Tail(u), d) /\ ServerTurnSays(s, k, Head(u))
      /\ Head(u).kind \in ServerTurn => NoTurn(Tail(u), d)
  BY <1>1, TurnTakenByServer DEF ClientInv
<1>10. Turns(t, k, Tail(u), d)
  BY <1>4, <1>9, TurnsKept
<1>11. ServerTurnSays(t, k, Head(u))
  BY <1>4, <1>9 DEF ServerTurnSays, Unknown, Plain
<1>12. Standing(t, k, Tail(u))
  <2>1. Standing(s, k, Tail(u))
    BY <1>2 DEF ClientInv, Standing
  <2> QED BY <1>4, <2>1, StandingKept
<1>13. Head(u).kind = "ServerReceivePublicKey" => ~t.refused
  BY <1>2, <1>3, <1>4 DEF ClientInv, Standing
<1>14. /\ Numbered(Tail(u), t.unsealed) /\ EndOf(Tail(u), t.unsealed) = EndOf(u, s.unsealed)
       /\ Head(u).cipher > 0 => Head(u).cipher = s.unsealed + 1
       /\ AllPlain(u) => AllPlain(Tail(u)) /\ Head(u).cipher = 0
  BY <1>1, <1>3, <1>5, NumberedTail DEF ClientInv, UpLine
<1>15. AllPlain(u) => t.unsealed = s.unsealed
  BY <1>5, <1>14
<1>16. UpLine(t, k, m, Tail(u))
  <2>1. ~k.encryption =>
            AllPlain(Tail(u)) /\ AllPlain(m.pending) /\ t.unsealed = 0 /\ k.sealed = 0
    BY <1>14, <1>15 DEF ClientInv, UpLine
  <2>2. Len(m.pending) <= 1
    BY DEF ClientInv, UpLine
  <2>3. ASSUME t.open, k.up
        PROVE  /\ Len(m.pending) = 0 => k.sealed = EndOf(Tail(u), t.unsealed)
               /\ Len(m.pending) = 1 /\ m.pending[1].cipher = 0 => AllPlain(Tail(u)) /\ k.sealed = t.unsealed
               /\ Len(m.pending) = 1 /\ m.pending[1].cipher > 0 =>
                     m.pending[1].cipher = k.sealed /\ k.sealed = EndOf(Tail(u), t.unsealed) + 1
    BY <1>4, <1>14, <1>15, <2>3 DEF ClientInv, UpLine
  <2> QED BY <1>14, <2>1, <2>2, <2>3 DEF UpLine
<1>17. DownLine(t, k, d)
  BY <1>4, DownLineKept DEF ClientInv
<1>18. Head(u).cipher > 0 => k.keyed
  <2>1. k.encryption => k.keyed
    BY DEF ClientInv, Standing
  <2>2. ~k.encryption => Head(u).cipher = 0
    BY <1>14 DEF ClientInv, UpLine
  <2> QED BY <1>3, <2>1, <2>2
<1>19. NoTurnOf(m)
  BY DEF ClientInv
<1>20. ClientInv(t, k, m, Tail(u), d)
  BY <1>7, <1>8, <1>10, <1>12, <1>16, <1>17, <1>19 DEF ClientInv
<1> QED BY <1>4, <1>6, <1>9, <1>11, <1>13, <1>14, <1>18, <1>20 DEF t

(* It sends commands, the next turn at most among them.                    *)
LEMMA ServerSays ==
    ASSUME NEW s, NEW k, NEW m, NEW u, NEW d, ClientInv(s, k, m, u, d),
           NEW out \in Commands(ToClient), PassesToClient(s, k, u, d, out), NEW b \in BOOLEAN
    PROVE  ClientInv(Said(s, out, b), k, m, u,
                     IF s.open /\ k.up THEN d \o Sealed(s, out) ELSE d)
<1> DEFINE t == Said(s, out, b)
           y == Sealed(s, out)
           e == IF s.open /\ k.up THEN d \o y ELSE d
<1>1. /\ s \in ServerSession /\ k \in ClientSession /\ m \in Screen
      /\ u \in Seq(Wire(ToServer)) /\ d \in Seq(Wire(ToClient))
  BY DEF ClientInv, Typed
<1>2. Len(out) \in Nat /\ s.encryption \in BOOLEAN /\ s.sealed \in Nat /\ k.unsealed \in Nat
  <2>1. Len(out) \in Nat
    BY DEF Commands
  <2>2. s.encryption \in BOOLEAN /\ s.sealed \in Nat
    BY <1>1 DEF ServerSession
  <2>3. k.unsealed \in Nat
    BY <1>1 DEF ClientSession
  <2> QED BY <2>1, <2>2, <2>3
<1>3. /\ y \in Seq(Wire(ToClient)) /\ Len(y) = Len(out)
      /\ \A i \in 1..Len(out) : y[i].kind = out[i].kind /\ y[i].id = out[i].id
      /\ \A i \in 1..Len(out) : y[i].cipher = IF s.encryption THEN s.sealed + i ELSE 0
  BY <1>2, SealedFacts
<1>4. /\ t \in ServerSession
      /\ t.accepted <=> s.accepted
      /\ t.open <=> s.open
      /\ t.refused <=> s.refused
      /\ t.encryption <=> s.encryption
      /\ t.id = s.id /\ t.unsealed = s.unsealed
  BY <1>1, <1>2, ServerSeals
<1>5. /\ s.encryption => t.sealed = s.sealed + Len(out)
      /\ ~s.encryption => t.sealed = s.sealed
  BY <1>1, <1>2, ServerSeals
<1> HIDE DEF t, y
<1>6. d \o y \in Seq(Wire(ToClient)) /\ Turns(s, k, u, d \o y)
  <2>1. d \o y \in Seq(Wire(ToClient))
    BY <1>1, <1>3, ConcatFacts
  <2>2. Turns(s, k, u, d \o y)
    BY <1>1, <1>3, TurnPassedToClient DEF ClientInv
  <2> QED BY <2>1, <2>2
<1>7. Typed(t, k, m, u, e)
  BY <1>1, <1>4, <1>6 DEF Typed
<1>8. Fresh(t, k, m, u, e)
  BY <1>4 DEF ClientInv, Fresh
<1>9. Turns(t, k, u, e)
  <2>1. Turns(s, k, u, e)
    BY <1>6 DEF ClientInv
  <2> HIDE DEF e
  <2> QED BY <1>4, <2>1, TurnsKept
<1>10. Standing(t, k, u)
  BY <1>4, StandingKept DEF ClientInv
<1>11. UpLine(t, k, m, u)
  BY <1>4, UpLineKept DEF ClientInv
<1>12. DownLine(t, k, e)
  <2>1. Numbered(d, k.unsealed) /\ (~s.encryption => AllPlain(d) /\ k.unsealed = 0 /\ s.sealed = 0)
    BY DEF ClientInv, DownLine
  <2>2. CASE ~(s.open /\ k.up)
    <3>1. e = d /\ ~(t.open /\ k.up)
      BY <1>4, <2>2
    <3>2. ~t.encryption => AllPlain(e) /\ k.unsealed = 0 /\ t.sealed = 0
      BY <1>4, <1>5, <2>1, <3>1
    <3> QED BY <2>1, <3>1, <3>2 DEF DownLine
  <2>3. CASE s.open /\ k.up /\ ~s.encryption
    <3>1. AllPlain(y)
      BY <1>3, <2>3 DEF AllPlain
    <3>2. e = d \o y /\ AllPlain(e) /\ Len(e) \in Nat
      <4>1. AllPlain(d \o y)
        BY <1>1, <1>3, <2>1, <2>3, <3>1, PlainConcat
      <4>2. Len(d \o y) \in Nat
        BY <1>6
      <4> QED BY <2>3, <4>1, <4>2
    <3> HIDE DEF e
    <3>3. Numbered(e, k.unsealed) /\ EndOf(e, k.unsealed) = k.unsealed
      BY <3>2, PlainIsNumbered
    <3>4. k.unsealed = 0 /\ t.sealed = 0 /\ ~t.encryption
      BY <1>4, <1>5, <2>1, <2>3
    <3> QED BY <3>2, <3>3, <3>4 DEF DownLine
  <2>4. CASE s.open /\ k.up /\ s.encryption
    <3>1. s.sealed = EndOf(d, k.unsealed)
      BY <2>4 DEF ClientInv, DownLine
    <3>2. \A i \in 1..Len(y) : y[i].cipher = EndOf(d, k.unsealed) + i
      BY <1>3, <2>4, <3>1
    <3>3. /\ Numbered(d \o y, k.unsealed)
          /\ EndOf(d \o y, k.unsealed) = EndOf(d, k.unsealed) + Len(y)
      BY <1>1, <1>2, <1>3, <2>1, <3>2, NumberedConcat
    <3>4. e = d \o y /\ t.encryption /\ t.sealed = s.sealed + Len(y)
      BY <1>3, <1>4, <1>5, <2>4
    <3> QED BY <3>1, <3>3, <3>4 DEF DownLine
  <2> QED BY <2>2, <2>3, <2>4
<1>13. NoTurnOf(m)
  BY DEF ClientInv
<1>14. ClientInv(t, k, m, u, e)
  BY <1>7, <1>8, <1>9, <1>10, <1>11, <1>12, <1>13 DEF ClientInv
<1> QED BY <1>14 DEF t, y

LEMMA CommandFacts ==
    ASSUME NEW kinds, NEW kind \in kinds, NEW id \in Nat
    PROVE  LET out == <<Command(kind, id)>>
           IN  /\ out \in Commands(kinds) /\ Len(out) = 1
               /\ out[1].kind = kind /\ out[1].id = id
  BY DEF Command, Commands

(* It gives an id to a client that has asked for one.                      *)
LEMMA IdGiven ==
    ASSUME NEW s, NEW k, NEW m, NEW u, NEW d, ClientInv(s, k, m, u, d),
           NoTurn(u, d), Unknown(s, k), ~s.refused, s.accepted,
           NEW t \in ServerSession, t.accepted, ~t.refused, ~t.encryption, t.id > 0,
           t.open <=> s.open, t.sealed = s.sealed, t.unsealed = s.unsealed
    PROVE  ClientInv(t, k, m, u, d)
<1>1. ~s.encryption /\ ~k.encryption /\ k.id = 0
  BY DEF Unknown, Plain
<1>2. Typed(t, k, m, u, d) /\ Fresh(t, k, m, u, d) /\ Turns(t, k, u, d) /\ NoTurnOf(m)
  BY NoTurnSays DEF ClientInv, Typed, Fresh
<1>3. Standing(t, k, u)
  BY <1>1 DEF Standing
<1>4. UpLine(t, k, m, u)
  BY UpLineKept DEF ClientInv
<1>5. DownLine(t, k, d)
  BY <1>1, DownLineKept DEF ClientInv
<1> QED BY <1>2, <1>3, <1>4, <1>5 DEF ClientInv

(* It starts to encrypt, and says so in plain text.                        *)
LEMMA ServerEncrypts ==
    ASSUME NEW s, NEW k, NEW m, NEW u, NEW d, ClientInv(s, k, m, u, d),
           NoTurn(u, d), k.keyed, Plain(s, k), s.accepted,
           NEW t \in ServerSession, t.accepted, t.encryption,
           t.open <=> s.open, t.refused <=> s.refused,
           t.id = s.id, t.sealed = s.sealed, t.unsealed = s.unsealed
    PROVE  ClientInv(t, k, m, u, IF s.open /\ k.up
                                 THEN d \o Sealed(s, <<Command("ClientStartEncryptedSession", 0)>>)
                                 ELSE d)
<1> DEFINE out == <<Command("ClientStartEncryptedSession", 0)>>
           y == Sealed(s, out)
           e == IF s.open /\ k.up THEN d \o y ELSE d
<1>1. /\ s \in ServerSession /\ k \in ClientSession /\ m \in Screen
      /\ u \in Seq(Wire(ToServer)) /\ d \in Seq(Wire(ToClient))
  BY DEF ClientInv, Typed
<1>2. s.encryption \in BOOLEAN /\ s.sealed \in Nat /\ ~s.encryption /\ ~k.encryption
  BY <1>1 DEF ServerSession, Plain
<1>3. /\ out \in Commands(ToClient) /\ Len(out) = 1
      /\ out[1].kind = "ClientStartEncryptedSession"
  BY CommandFacts DEF ToClient
<1> HIDE DEF out
<1>4. /\ y \in Seq(Wire(ToClient)) /\ Len(y) = Len(out)
      /\ \A i \in 1..Len(out) : y[i].kind = out[i].kind /\ y[i].id = out[i].id
      /\ \A i \in 1..Len(out) : y[i].cipher = 0
  BY <1>2, <1>3, SealedFacts
<1> HIDE DEF y
<1>5. d \o y \in Seq(Wire(ToClient)) /\ Len(d \o y) \in Nat /\ AllPlain(d \o y)
  <2>1. AllPlain(d) /\ AllPlain(y)
    BY <1>2, <1>4 DEF ClientInv, DownLine, AllPlain
  <2>2. d \o y \in Seq(Wire(ToClient))
    BY <1>1, <1>4, ConcatFacts
  <2> QED BY <1>1, <1>4, <2>1, <2>2, PlainConcat
<1>6. Turns(t, k, u, d) /\ Turns(t, k, u, d \o y)
  <2>1. Turns(t, k, u, d)
    BY NoTurnSays
  <2>2. PassesToClient(t, k, u, d, out)
    BY <1>2, <1>3 DEF PassesToClient, ClientTurnSays
  <2> QED BY <1>1, <1>3, <1>4, <2>1, <2>2, TurnPassedToClient
<1>7. /\ e \in Seq(Wire(ToClient)) /\ Len(e) \in Nat /\ AllPlain(e) /\ Turns(t, k, u, e)
  <2>1. d \in Seq(Wire(ToClient)) /\ Len(d) \in Nat /\ AllPlain(d)
    BY <1>1, <1>2 DEF ClientInv, DownLine
  <2> QED BY <1>5, <1>6, <2>1
<1> HIDE DEF e
<1>8. Typed(t, k, m, u, e) /\ Fresh(t, k, m, u, e) /\ NoTurnOf(m)
  BY <1>1, <1>7 DEF ClientInv, Typed, Fresh
<1>9. Standing(t, k, u)
  BY DEF ClientInv, Standing
<1>10. UpLine(t, k, m, u)
  BY UpLineKept DEF ClientInv
<1>11. DownLine(t, k, e)
  <2>1. k.unsealed = 0 /\ s.sealed = 0
    BY <1>2 DEF ClientInv, DownLine
  <2>2. Numbered(e, k.unsealed) /\ EndOf(e, k.unsealed) = k.unsealed
    BY <1>7, PlainIsNumbered
  <2> QED BY <2>1, <2>2 DEF DownLine
<1>12. ClientInv(t, k, m, u, e)
  BY <1>7, <1>8, <1>9, <1>10, <1>11 DEF ClientInv
<1> QED BY <1>12 DEF e, y, out

(* It accepts a connection, and asks for the version.                      *)
LEMMA ServerAccepts ==
    ASSUME NEW s, NEW k, NEW m, NEW u, NEW d, ClientInv(s, k, m, u, d), ~s.accepted,
           NEW t \in ServerSession, t.accepted, ~t.refused, ~t.encryption,
           t.id = s.id, t.sealed = s.sealed, t.unsealed = s.unsealed,
           NEW l \in ClientSession, ~l.encryption,
           l.id = k.id, l.sealed = k.sealed, l.unsealed = k.unsealed
    PROVE  ClientInv(t, l, m, u, Sealed(s, <<Command("ClientRequestedClientInfo", 0)>>))
<1> DEFINE out == <<Command("ClientRequestedClientInfo", 0)>>
           y == Sealed(s, out)
<1>1. s \in ServerSession /\ k \in ClientSession /\ m \in Screen
  BY DEF ClientInv, Typed
<1>2. /\ s.encryption \in BOOLEAN /\ s.sealed \in Nat /\ ~s.encryption /\ ~k.encryption
      /\ s.id = 0 /\ k.id = 0
  BY <1>1 DEF ClientInv, Fresh, ServerSession
<1>3. u = <<>> /\ m.pending = <<>>
  BY DEF ClientInv, Fresh
<1>4. s.unsealed = 0 /\ k.sealed = 0 /\ k.unsealed = 0 /\ s.sealed = 0
  BY <1>2 DEF ClientInv, UpLine, DownLine
<1>5. /\ out \in Commands(ToClient) /\ Len(out) = 1
      /\ out[1].kind = "ClientRequestedClientInfo"
  <2>1. "ClientRequestedClientInfo" \in ToClient /\ 0 \in Nat
    BY DEF ToClient
  <2> QED BY <2>1, CommandFacts
<1> HIDE DEF out
<1>6. /\ y \in Seq(Wire(ToClient)) /\ Len(y) = 1
      /\ y[1].kind = "ClientRequestedClientInfo" /\ y[1].cipher = 0
  <2>1. /\ y \in Seq(Wire(ToClient)) /\ Len(y) = Len(out)
        /\ \A i \in 1..Len(out) : y[i].kind = out[i].kind /\ y[i].cipher = 0
    BY <1>2, <1>5, SealedFacts
  <2> HIDE DEF y
  <2> QED BY <1>5, <2>1
<1> HIDE DEF y
<1>7. Len(u) = 0 /\ u \in Seq(Wire(ToServer)) /\ Len(m.pending) = 0
  BY <1>3
<1>8. Typed(t, l, m, u, y) /\ Fresh(t, l, m, u, y) /\ NoTurnOf(m)
  BY <1>1, <1>6, <1>7 DEF ClientInv, Typed, Fresh
<1>9. Turns(t, l, u, y)
  <2>1. Unknown(t, l)
    BY <1>2 DEF Unknown, Plain
  <2>2. \A i \in 1..Len(u) : FALSE
    BY <1>7
  <2>3. \A i \in 1..Len(y) : i = 1
    BY <1>6
  <2>4. ClientTurnSays(t, l, y[1])
    BY <1>6, <2>1 DEF ClientTurnSays
  <2> QED BY <2>2, <2>3, <2>4 DEF Turns, OneTurn
<1>10. Standing(t, l, u)
  BY <1>2 DEF Standing
<1>11. UpLine(t, l, m, u)
  <2>1. AllPlain(u) /\ AllPlain(m.pending)
    BY <1>7 DEF AllPlain
  <2>2. Numbered(u, t.unsealed) /\ EndOf(u, t.unsealed) = t.unsealed
    BY <1>7, <2>1, PlainIsNumbered
  <2> QED BY <1>4, <1>7, <2>1, <2>2 DEF UpLine
<1>12. DownLine(t, l, y)
  <2>1. AllPlain(y)
    BY <1>6 DEF AllPlain
  <2>2. Numbered(y, l.unsealed) /\ EndOf(y, l.unsealed) = l.unsealed
    BY <1>6, <2>1, PlainIsNumbered
  <2> QED BY <1>4, <2>1, <2>2 DEF DownLine
<1>13. ClientInv(t, l, m, u, y)
  BY <1>8, <1>9, <1>10, <1>11, <1>12 DEF ClientInv
<1> QED BY <1>13 DEF y, out

(* It refuses a client and closes the connection, of which both directions *)
(* lose what they lose.                                                    *)
LEMMA ServerRefuses ==
    ASSUME NEW s, NEW k, NEW m, NEW u, NEW d, ClientInv(s, k, m, u, d),
           NoTurn(u, d), Unknown(s, k), s.accepted,
           NEW t \in ServerSession, t.accepted, ~t.open, ~t.encryption,
           t.id = s.id, t.sealed = s.sealed, t.unsealed = s.unsealed,
           NEW msg \in Wire(ToClient), msg.kind \notin ClientTurn, msg.cipher = 0,
           NEW i \in 0..Len(u), NEW j \in 0..Len(Append(d, msg))
    PROVE  ClientInv(t, k, m, SubSeq(u, 1, i), SubSeq(Append(d, msg), 1, j))
<1> DEFINE told == Append(d, msg)
           v == SubSeq(u, 1, i)
           e == SubSeq(told, 1, j)
<1>1. /\ s \in ServerSession /\ k \in ClientSession /\ m \in Screen
      /\ u \in Seq(Wire(ToServer)) /\ d \in Seq(Wire(ToClient))
  BY DEF ClientInv, Typed
<1>2. ~s.encryption /\ ~k.encryption /\ s.id = 0 /\ k.id = 0
  BY DEF Unknown, Plain
<1>3. /\ told \in Seq(Wire(ToClient)) /\ Len(told) = Len(d) + 1 /\ Len(d) \in Nat
      /\ \A n \in 1..Len(told) : told[n] = IF n <= Len(d) THEN d[n] ELSE msg
  BY <1>1
<1> HIDE DEF told
<1>4. NoTurn(u, told) /\ AllPlain(told)
  <2>1. AllPlain(d)
    BY <1>2 DEF ClientInv, DownLine
  <2>2. \A n \in 1..Len(told) : n \in 1..Len(d) \/ told[n] = msg
    BY <1>3
  <2>3. \A n \in 1..Len(told) : n \in 1..Len(d) => told[n] = d[n]
    BY <1>3
  <2>4. AllPlain(told)
    BY <2>1, <2>2, <2>3 DEF AllPlain
  <2>5. NoTurn(u, told)
    BY <2>2, <2>3 DEF NoTurn
  <2> QED BY <2>4, <2>5
<1>5. /\ v \in Seq(Wire(ToServer)) /\ Len(v) = i
      /\ \A n \in 1..i : v[n] = u[n] /\ n \in 1..Len(u)
  BY <1>1, PrefixFacts
<1>6. /\ e \in Seq(Wire(ToClient)) /\ Len(e) = j
      /\ \A n \in 1..j : e[n] = told[n] /\ n \in 1..Len(told)
  BY <1>3, PrefixFacts
<1> HIDE DEF v, e
<1>7. Typed(t, k, m, v, e) /\ Fresh(t, k, m, v, e) /\ NoTurnOf(m)
  BY <1>1, <1>5, <1>6 DEF ClientInv, Typed, Fresh
<1>8. NoTurn(v, e)
  BY <1>4, <1>5, <1>6 DEF NoTurn
<1>9. Turns(t, k, v, e)
  BY <1>8, NoTurnSays
<1>10. Standing(t, k, v)
  BY <1>2, <1>8 DEF Standing, NoTurn, ServerTurn
<1>11. UpLine(t, k, m, v)
  <2>1. AllPlain(u) /\ AllPlain(m.pending) /\ s.unsealed = 0 /\ k.sealed = 0 /\ Len(m.pending) <= 1
    BY <1>2 DEF ClientInv, UpLine
  <2>2. AllPlain(v) /\ Len(v) \in Nat
    BY <1>5, <2>1 DEF AllPlain
  <2> QED BY <2>1, <2>2, PlainIsNumbered DEF UpLine
<1>12. DownLine(t, k, e)
  <2>1. k.unsealed = 0 /\ s.sealed = 0
    BY <1>2 DEF ClientInv, DownLine
  <2>2. AllPlain(e) /\ Len(e) \in Nat
    BY <1>4, <1>6 DEF AllPlain
  <2> QED BY <2>1, <2>2, PlainIsNumbered DEF DownLine
<1>13. ClientInv(t, k, m, v, e)
  BY <1>7, <1>9, <1>10, <1>11, <1>12 DEF ClientInv
<1> QED BY <1>13 DEF v, e, told

-----------------------------------------------------------------------------
(* What the threads of a client do.                                        *)

LEMMA ClientUnseals ==
    ASSUME NEW k \in ClientSession, NEW msg, msg.cipher \in Nat
    PROVE  LET l == AfterUnsealing(k, msg)
           IN  /\ l \in ClientSession
               /\ l.up <=> k.up
               /\ l.keyed <=> k.keyed
               /\ l.encryption <=> k.encryption
               /\ l.id = k.id /\ l.sealed = k.sealed
               /\ l.unsealed = IF msg.cipher > 0 THEN k.unsealed + 1 ELSE k.unsealed
<1> DEFINE n == IF msg.cipher > 0 THEN k.unsealed + 1 ELSE k.unsealed
<1>1. k.unsealed \in Nat
  BY DEF ClientSession
<1>2. n \in Nat
  BY <1>1
<1>3. AfterUnsealing(k, msg) = [k EXCEPT !.unsealed = n]
  BY DEF AfterUnsealing, ClientSession
<1> HIDE DEF n
<1>4. [k EXCEPT !.unsealed = n] \in ClientSession
  BY <1>2 DEF ClientSession
<1> QED BY <1>3, <1>4 DEF ClientSession, n

LEMMA ClientSeals ==
    ASSUME NEW k \in ClientSession, NEW out, Len(out) \in Nat
    PROVE  LET l == AfterSealing(k, out)
           IN  /\ l \in ClientSession
               /\ l.up <=> k.up
               /\ l.keyed <=> k.keyed
               /\ l.encryption <=> k.encryption
               /\ l.id = k.id /\ l.unsealed = k.unsealed
               /\ k.encryption => l.sealed = k.sealed + Len(out)
               /\ ~k.encryption => l.sealed = k.sealed
<1> DEFINE n == IF k.encryption THEN k.sealed + Len(out) ELSE k.sealed
<1>1. k.sealed \in Nat
  BY DEF ClientSession
<1>2. n \in Nat
  BY <1>1
<1>3. AfterSealing(k, out) = [k EXCEPT !.sealed = n]
  BY DEF AfterSealing, ClientSession
<1> HIDE DEF n
<1>4. [k EXCEPT !.sealed = n] \in ClientSession
  BY <1>2 DEF ClientSession
<1> QED BY <1>3, <1>4 DEF ClientSession, n

(* The network thread takes a message and queues what it says.             *)
LEMMA ClientTakes ==
    ASSUME NEW s, NEW k, NEW m, NEW u, NEW d, ClientInv(s, k, m, u, d), Len(d) > 0,
           NEW n \in Screen, n.pending = m.pending, NoTurnOf(n)
    PROVE  LET l == AfterUnsealing(k, Head(d))
           IN  /\ ClientInv(s, l, n, u, Tail(d)) /\ s.accepted
               /\ l.id = k.id /\ (l.encryption <=> k.encryption) /\ (l.keyed <=> k.keyed)
               /\ ClientTurnSays(s, l, Head(d))
               /\ Head(d).kind \in ClientTurn => NoTurn(u, Tail(d))
               /\ Head(d).cipher > 0 => Head(d).cipher = k.unsealed + 1
<1> DEFINE l == AfterUnsealing(k, Head(d))
<1>1. /\ s \in ServerSession /\ k \in ClientSession
      /\ u \in Seq(Wire(ToServer)) /\ d \in Seq(Wire(ToClient))
  BY DEF ClientInv, Typed
<1>2. /\ Tail(d) \in Seq(Wire(ToClient)) /\ Len(Tail(d)) = Len(d) - 1 /\ Head(d) = d[1]
  BY <1>1, TailFacts
<1>3. 1 \in 1..Len(d) /\ Head(d).cipher \in Nat /\ k.unsealed \in Nat
  <2>1. Len(d) \in Nat /\ \A i \in 1..Len(d) : d[i].cipher \in Nat
    BY <1>1, FieldFacts
  <2>2. k.unsealed \in Nat
    BY <1>1 DEF ClientSession
  <2> QED BY <1>2, <2>1, <2>2
<1>4. /\ l \in ClientSession
      /\ l.up <=> k.up
      /\ l.keyed <=> k.keyed
      /\ l.encryption <=> k.encryption
      /\ l.id = k.id /\ l.sealed = k.sealed
  BY <1>1, <1>3, ClientUnseals
<1>5. l.unsealed = IF Head(d).cipher > 0 THEN k.unsealed + 1 ELSE k.unsealed
  BY <1>1, <1>3, ClientUnseals
<1> HIDE DEF l
<1>6. s.accepted
  <2> SUFFICES ASSUME ~s.accepted PROVE FALSE
    OBVIOUS
  <2>1. d = <<>>
    BY DEF ClientInv, Fresh
  <2> QED BY <1>3, <2>1
<1>7. Typed(s, l, n, u, Tail(d)) /\ Fresh(s, l, n, u, Tail(d))
  BY <1>1, <1>2, <1>4, <1>6 DEF Typed, Fresh
<1>8. /\ Turns(s, k, u, Tail(d)) /\ ClientTurnSays(s, k, Head(d))
      /\ Head(d).kind \in ClientTurn => NoTurn(u, Tail(d))
  BY <1>1, TurnTakenByClient DEF ClientInv
<1>9. Turns(s, l, u, Tail(d))
  BY <1>4, <1>8, TurnsKept
<1>10. ClientTurnSays(s, l, Head(d))
  BY <1>4, <1>8 DEF ClientTurnSays, Unknown, Plain
<1>11. Standing(s, l, u)
  BY <1>4, StandingKept DEF ClientInv
<1>12. UpLine(s, l, n, u)
  BY <1>4, UpLineKept DEF ClientInv
<1>13. /\ Numbered(Tail(d), l.unsealed) /\ EndOf(Tail(d), l.unsealed) = EndOf(d, k.unsealed)
       /\ Head(d).cipher > 0 => Head(d).cipher = k.unsealed + 1
       /\ AllPlain(d) => AllPlain(Tail(d)) /\ Head(d).cipher = 0
  BY <1>1, <1>3, <1>5, NumberedTail DEF ClientInv, DownLine
<1>14. AllPlain(d) => l.unsealed = k.unsealed
  BY <1>5, <1>13
<1>15. DownLine(s, l, Tail(d))
  <2>1. ~s.encryption => AllPlain(Tail(d)) /\ l.unsealed = 0 /\ s.sealed = 0
    BY <1>13, <1>14 DEF ClientInv, DownLine
  <2>2. s.open /\ l.up => s.sealed = EndOf(Tail(d), l.unsealed)
    BY <1>4, <1>13 DEF ClientInv, DownLine
  <2> QED BY <1>13, <2>1, <2>2 DEF DownLine
<1>16. ClientInv(s, l, n, u, Tail(d))
  BY <1>7, <1>9, <1>11, <1>12, <1>15 DEF ClientInv
<1> QED BY <1>4, <1>6, <1>8, <1>10, <1>13, <1>16 DEF l

(* It sends commands, the next turn at most among them, before it has been *)
(* told to encrypt.                                                        *)
LEMMA ClientSays ==
    ASSUME NEW s, NEW k, NEW m, NEW u, NEW d, ClientInv(s, k, m, u, d), ~k.encryption,
           NEW out \in Commands(ToServer), Len(out) > 0, PassesToServer(s, k, u, d, out)
    PROVE  ClientInv(s, AfterSealing(k, out), m, IF s.open THEN u \o Sealed(k, out) ELSE u, d)
<1> DEFINE l == AfterSealing(k, out)
           y == Sealed(k, out)
           v == IF s.open THEN u \o y ELSE u
<1>1. /\ s \in ServerSession /\ k \in ClientSession /\ m \in Screen
      /\ u \in Seq(Wire(ToServer)) /\ d \in Seq(Wire(ToClient))
  BY DEF ClientInv, Typed
<1>2. k.encryption \in BOOLEAN /\ k.sealed \in Nat /\ Len(out) \in Nat
  <2>1. Len(out) \in Nat
    BY DEF Commands
  <2> QED BY <1>1, <2>1 DEF ClientSession
<1>3. /\ y \in Seq(Wire(ToServer)) /\ Len(y) = Len(out)
      /\ \A i \in 1..Len(out) : y[i].kind = out[i].kind /\ y[i].id = out[i].id
      /\ \A i \in 1..Len(out) : y[i].cipher = 0
  BY <1>2, SealedFacts
<1>4. /\ l \in ClientSession
      /\ l.up <=> k.up
      /\ l.keyed <=> k.keyed
      /\ l.encryption <=> k.encryption
      /\ l.id = k.id /\ l.unsealed = k.unsealed /\ l.sealed = k.sealed
  BY <1>1, <1>2, ClientSeals
<1> HIDE DEF l, y
<1>5. AllPlain(u) /\ AllPlain(m.pending) /\ s.unsealed = 0 /\ k.sealed = 0 /\ Len(m.pending) <= 1
  BY DEF ClientInv, UpLine
<1>6. u \o y \in Seq(Wire(ToServer)) /\ AllPlain(u \o y) /\ Turns(s, k, u \o y, d)
  <2>1. u \o y \in Seq(Wire(ToServer))
    BY <1>1, <1>3, ConcatFacts
  <2>2. AllPlain(y)
    BY <1>3 DEF AllPlain
  <2>3. AllPlain(u \o y)
    BY <1>1, <1>3, <1>5, <2>2, PlainConcat
  <2>4. Turns(s, k, u \o y, d)
    BY <1>1, <1>3, TurnPassedToServer DEF ClientInv
  <2> QED BY <2>1, <2>3, <2>4
<1>7. /\ v \in Seq(Wire(ToServer)) /\ AllPlain(v) /\ Turns(s, k, v, d)
      /\ ~s.open => v = u
  BY <1>1, <1>5, <1>6 DEF ClientInv
<1> HIDE DEF v
<1>8. Len(v) \in Nat
  BY <1>7
<1>9. Typed(s, l, m, v, d) /\ Fresh(s, l, m, v, d) /\ NoTurnOf(m)
  BY <1>1, <1>4, <1>7 DEF ClientInv, Typed, Fresh
<1>10. Turns(s, l, v, d)
  BY <1>4, <1>7, TurnsKept
<1>11. Standing(s, l, v)
  <2>1. Standing(s, k, v)
    BY <1>7 DEF ClientInv, Standing
  <2> QED BY <1>4, <2>1, StandingKept
<1>12. UpLine(s, l, m, v)
  <2>1. Numbered(v, s.unsealed) /\ EndOf(v, s.unsealed) = s.unsealed
    BY <1>7, <1>8, PlainIsNumbered
  <2>2. Len(m.pending) = 1 => m.pending[1].cipher = 0
    BY <1>5 DEF AllPlain
  <2> QED BY <1>4, <1>5, <1>7, <2>1, <2>2 DEF UpLine
<1>13. DownLine(s, l, d)
  BY <1>4, DownLineKept DEF ClientInv
<1>14. ClientInv(s, l, m, v, d)
  BY <1>9, <1>10, <1>11, <1>12, <1>13 DEF ClientInv
<1> QED BY <1>14 DEF l, v, y

(* It learns the id and the key of its session.                            *)
LEMMA ClientKeyed ==
    ASSUME NEW s, NEW k, NEW m, NEW u, NEW d, ClientInv(s, k, m, u, d),
           NoTurn(u, d), s.accepted,
           NEW l \in ClientSession, l.keyed, l.id = s.id,
           l.up <=> k.up, l.encryption <=> k.encryption,
           l.sealed = k.sealed, l.unsealed = k.unsealed
    PROVE  ClientInv(s, l, m, u, d)
<1>1. Typed(s, l, m, u, d) /\ Fresh(s, l, m, u, d) /\ Turns(s, l, u, d) /\ NoTurnOf(m)
  BY NoTurnSays DEF ClientInv, Typed, Fresh
<1>2. Standing(s, l, u)
  BY DEF ClientInv, Standing
<1>3. UpLine(s, l, m, u)
  BY UpLineKept DEF ClientInv
<1>4. DownLine(s, l, d)
  BY DownLineKept DEF ClientInv
<1> QED BY <1>1, <1>2, <1>3, <1>4 DEF ClientInv

(* It starts to encrypt.                                                   *)
LEMMA ClientEncrypts ==
    ASSUME NEW s, NEW k, NEW m, NEW u, NEW d, ClientInv(s, k, m, u, d),
           NoTurn(u, d), s.accepted, k.keyed,
           NEW l \in ClientSession, l.keyed, l.encryption, l.id = k.id,
           l.up <=> k.up, l.sealed = k.sealed, l.unsealed = k.unsealed
    PROVE  ClientInv(s, l, m, u, d)
<1>1. Typed(s, l, m, u, d) /\ Fresh(s, l, m, u, d) /\ Turns(s, l, u, d) /\ NoTurnOf(m)
  BY NoTurnSays DEF ClientInv, Typed, Fresh
<1>2. Standing(s, l, u)
  BY DEF ClientInv, Standing
<1>3. UpLine(s, l, m, u)
  BY Zenon DEF ClientInv, UpLine
<1>4. DownLine(s, l, d)
  BY DownLineKept DEF ClientInv
<1> QED BY <1>1, <1>2, <1>3, <1>4 DEF ClientInv

(* The main thread serializes a message of its own.                        *)
LEMMA MainSerializes ==
    ASSUME NEW s, NEW k, NEW m, NEW u, NEW d, ClientInv(s, k, m, u, d), k.up, m.pending = <<>>,
           NEW out \in Commands(ToServer), Len(out) = 1, out[1].kind \notin ServerTurn,
           NEW n \in Screen, n.pending = Sealed(k, out),
           \A i \in 1..Len(n.todo) : n.todo[i] \notin ServerTurn
    PROVE  ClientInv(s, AfterSealing(k, out), n, u, d)
<1> DEFINE l == AfterSealing(k, out)
<1>1. /\ s \in ServerSession /\ k \in ClientSession
      /\ u \in Seq(Wire(ToServer)) /\ d \in Seq(Wire(ToClient))
  BY DEF ClientInv, Typed
<1>2. k.encryption \in BOOLEAN /\ k.sealed \in Nat
  BY <1>1 DEF ClientSession
<1>3. /\ Len(n.pending) = 1 /\ n.pending[1].kind = out[1].kind
      /\ n.pending[1].cipher = IF k.encryption THEN k.sealed + 1 ELSE 0
  <2>1. 1 \in 1..Len(out)
    OBVIOUS
  <2> QED BY <1>2, <2>1, SealedFacts
<1>4. /\ l \in ClientSession
      /\ l.up <=> k.up
      /\ l.keyed <=> k.keyed
      /\ l.encryption <=> k.encryption
      /\ l.id = k.id /\ l.unsealed = k.unsealed
      /\ k.encryption => l.sealed = k.sealed + Len(out)
      /\ ~k.encryption => l.sealed = k.sealed
  <2>1. Len(out) \in Nat
    OBVIOUS
  <2> QED BY <1>1, <2>1, ClientSeals
<1> HIDE DEF l
<1>5. s.accepted
  BY DEF ClientInv, Fresh
<1>6. Typed(s, l, n, u, d) /\ Fresh(s, l, n, u, d) /\ NoTurnOf(n)
  BY <1>1, <1>3, <1>4, <1>5 DEF Typed, Fresh, NoTurnOf
<1>7. Turns(s, l, u, d)
  BY <1>4, TurnsKept DEF ClientInv
<1>8. Standing(s, l, u)
  BY <1>4, StandingKept DEF ClientInv
<1>9. DownLine(s, l, d)
  BY <1>4, DownLineKept DEF ClientInv
<1>10. Len(m.pending) = 0
  OBVIOUS
<1>11. ASSUME k.encryption PROVE ClientInv(s, l, n, u, d)
  <2>1. n.pending[1].cipher = l.sealed /\ l.sealed = k.sealed + 1 /\ l.sealed > 0
    BY <1>2, <1>3, <1>4, <1>11
  <2>2. s.open /\ l.up => l.sealed = EndOf(u, s.unsealed) + 1
    BY <1>4, <1>10, <2>1 DEF ClientInv, UpLine
  <2>3. UpLine(s, l, n, u)
    BY <1>3, <1>4, <1>11, <2>1, <2>2 DEF ClientInv, UpLine
  <2> QED BY <1>6, <1>7, <1>8, <1>9, <2>3 DEF ClientInv
<1>12. ASSUME ~k.encryption PROVE ClientInv(s, l, n, u, d)
  <2>1. n.pending[1].cipher = 0 /\ AllPlain(n.pending)
    BY <1>3, <1>12 DEF AllPlain
  <2>2. AllPlain(u) /\ s.unsealed = 0 /\ l.sealed = 0
    BY <1>4, <1>12 DEF ClientInv, UpLine
  <2>3. UpLine(s, l, n, u)
    BY <1>3, <2>1, <2>2 DEF ClientInv, UpLine
  <2> QED BY <1>6, <1>7, <1>8, <1>9, <2>3 DEF ClientInv
<1> QED BY <1>11, <1>12 DEF l

(* It posts that message.                                                  *)
LEMMA MainPosts ==
    ASSUME NEW s, NEW k, NEW m, NEW u, NEW d, ClientInv(s, k, m, u, d), k.up,
           NEW y, y = m.pending, y # <<>>,
           NEW n \in Screen, n.pending = <<>>, n.todo = m.todo
    PROVE  ClientInv(s, k, n, IF s.open THEN u \o y ELSE u, d)
<1> DEFINE v == IF s.open THEN u \o y ELSE u
<1>1. /\ s \in ServerSession /\ k \in ClientSession /\ y \in Seq(Wire(ToServer))
      /\ u \in Seq(Wire(ToServer)) /\ d \in Seq(Wire(ToClient))
  BY DEF ClientInv, Typed, Screen
<1>2. Len(y) = 1 /\ y[1].cipher \in Nat /\ y[1].kind \notin ServerTurn /\ s.unsealed \in Nat
  <2>1. Len(y) \in Nat /\ Len(y) # 0
    BY <1>1
  <2>2. Len(y) <= 1
    BY DEF ClientInv, UpLine
  <2>3. Len(y) = 1 /\ 1 \in 1..Len(y)
    <3>1. \A l \in Nat : l # 0 /\ l <= 1 => l = 1
      OBVIOUS
    <3>2. Len(y) = 1
      BY <2>1, <2>2, <3>1, Zenon
    <3> QED BY <3>2
  <2>4. y[1].cipher \in Nat
    BY <1>1, <2>3, FieldFacts
  <2>5. y[1].kind \notin ServerTurn
    BY <2>3 DEF ClientInv, NoTurnOf
  <2>6. s.unsealed \in Nat
    BY <1>1 DEF ServerSession
  <2> QED BY <2>3, <2>4, <2>5, <2>6
<1>3. u \o y \in Seq(Wire(ToServer)) /\ Turns(s, k, u \o y, d)
  <2> DEFINE out == <<Command(y[1].kind, y[1].id)>>
  <2>1. y[1].kind \in ToServer /\ y[1].id \in Nat
    BY <1>1, <1>2, FieldFacts
  <2>2. /\ out \in Commands(ToServer) /\ Len(out) = 1
        /\ out[1].kind = y[1].kind /\ out[1].id = y[1].id
    BY <2>1, CommandFacts
  <2> HIDE DEF out
  <2>3. \A i \in 1..Len(out) : i = 1
    BY <2>2
  <2>4. PassesToServer(s, k, u, d, out)
    BY <1>2, <2>2, <2>3 DEF PassesToServer
  <2>5. Turns(s, k, u \o y, d)
    BY <1>1, <1>2, <2>2, <2>3, <2>4, TurnPassedToServer DEF ClientInv
  <2>6. u \o y \in Seq(Wire(ToServer))
    BY <1>1, ConcatFacts
  <2> QED BY <2>5, <2>6
<1>4. s.accepted
  BY DEF ClientInv, Fresh
<1>5. v \in Seq(Wire(ToServer)) /\ Turns(s, k, v, d)
  BY <1>1, <1>3 DEF ClientInv
<1>6. Typed(s, k, n, v, d) /\ Fresh(s, k, n, v, d)
  BY <1>1, <1>4, <1>5 DEF Typed, Fresh
<1>7. NoTurnOf(n)
  BY DEF ClientInv, NoTurnOf
<1>8. Standing(s, k, v)
  BY DEF ClientInv, Standing
<1>9. DownLine(s, k, d)
  BY DEF ClientInv
<1>10. Len(n.pending) = 0 /\ AllPlain(n.pending)
  BY DEF AllPlain
<1>11. /\ Numbered(u, s.unsealed)
       /\ ~k.encryption => AllPlain(u) /\ AllPlain(y) /\ s.unsealed = 0 /\ k.sealed = 0
  BY DEF ClientInv, UpLine
<1>12. UpLine(s, k, n, v)
  <2>1. CASE ~s.open
    BY <1>10, <1>11, <2>1 DEF UpLine
  <2>2. CASE s.open /\ y[1].cipher = 0
    <3>1. AllPlain(u) /\ k.sealed = s.unsealed
      BY <1>2, <2>2 DEF ClientInv, UpLine
    <3>2. AllPlain(y)
      BY <1>2, <2>2 DEF AllPlain
    <3>3. AllPlain(u \o y) /\ v = u \o y
      BY <1>1, <2>2, <3>1, <3>2, PlainConcat
    <3> HIDE DEF v
    <3>4. AllPlain(v) /\ Len(v) \in Nat
      BY <1>5, <3>3
    <3>5. Numbered(v, s.unsealed) /\ EndOf(v, s.unsealed) = s.unsealed
      BY <3>4, PlainIsNumbered
    <3> QED BY <1>10, <1>11, <3>1, <3>4, <3>5 DEF UpLine
  <2>3. CASE s.open /\ y[1].cipher > 0
    <3>1. y[1].cipher = k.sealed /\ k.sealed = EndOf(u, s.unsealed) + 1
      BY <1>2, <2>3 DEF ClientInv, UpLine
    <3>2. \A i \in 1..Len(y) : y[i].cipher = EndOf(u, s.unsealed) + i
      BY <1>2, <3>1
    <3>3. /\ Numbered(u \o y, s.unsealed)
          /\ EndOf(u \o y, s.unsealed) = EndOf(u, s.unsealed) + Len(y)
      <4>1. s.unsealed \in Nat /\ Numbered(u, s.unsealed)
        BY <1>2, <1>11
      <4>2. u \in Seq(Wire(ToServer)) /\ y \in Seq(Wire(ToServer))
        BY <1>1
      <4> QED BY <3>2, <4>1, <4>2, NumberedConcat
    <3>4. v = u \o y /\ EndOf(v, s.unsealed) = k.sealed /\ Numbered(v, s.unsealed)
      BY <1>2, <2>3, <3>1, <3>3
    <3>5. k.encryption
      <4> SUFFICES ASSUME ~k.encryption PROVE FALSE
        OBVIOUS
      <4>1. y[1].cipher = 0
        BY <1>2, <1>11 DEF AllPlain
      <4> QED BY <2>3, <4>1
    <3> HIDE DEF v
    <3> QED BY <1>10, <3>4, <3>5 DEF UpLine
  <2> QED BY <1>2, <2>1, <2>2, <2>3
<1>13. ClientInv(s, k, n, v, d)
  BY <1>5, <1>6, <1>7, <1>8, <1>9, <1>12 DEF ClientInv
<1> QED BY <1>13

(* It destroys the client, and with it what was not written or read yet.   *)
LEMMA ClientDestroyed ==
    ASSUME NEW s, NEW k, NEW m, NEW u, NEW d, ClientInv(s, k, m, u, d), k.up,
           NEW l \in ClientSession, ~l.up, l.keyed <=> k.keyed, l.encryption <=> k.encryption,
           l.id = k.id, l.sealed = k.sealed, l.unsealed = k.unsealed,
           NEW n \in Screen, n.pending = <<>>, n.todo = <<>>, NEW i \in 0..Len(u)
    PROVE  ClientInv(s, l, n, SubSeq(u, 1, i), <<>>)
<1> DEFINE v == SubSeq(u, 1, i)
<1>1. /\ s \in ServerSession /\ k \in ClientSession
      /\ u \in Seq(Wire(ToServer)) /\ d \in Seq(Wire(ToClient))
  BY DEF ClientInv, Typed
<1>2. s.accepted
  BY DEF ClientInv, Fresh
<1>3. Turns(s, k, v, <<>>)
  <2>1. 0 \in 0..Len(d) /\ SubSeq(d, 1, 0) = <<>>
    BY <1>1
  <2> QED BY <1>1, <2>1, TurnsOfPrefixes DEF ClientInv
<1>4. /\ v \in Seq(Wire(ToServer)) /\ Len(v) = i
      /\ \A j \in 1..i : v[j] = u[j] /\ j \in 1..Len(u)
  BY <1>1, PrefixFacts
<1>5. /\ Numbered(u, s.unsealed) => Numbered(v, s.unsealed)
      /\ AllPlain(u) => AllPlain(v)
  <2>1. s.unsealed \in Nat
    BY <1>1 DEF ServerSession
  <2> QED BY <1>1, <2>1, NumberedPrefix
<1> HIDE DEF v
<1>6. Len(n.pending) = 0 /\ Len(n.todo) = 0
  OBVIOUS
<1>7. Typed(s, l, n, v, <<>>) /\ Fresh(s, l, n, v, <<>>) /\ NoTurnOf(n)
  BY <1>1, <1>2, <1>4, <1>6 DEF Typed, Fresh, NoTurnOf
<1>8. Turns(s, l, v, <<>>)
  BY <1>3, TurnsKept
<1>9. Standing(s, l, v)
  <2>1. Standing(s, k, v)
    BY <1>4 DEF ClientInv, Standing
  <2> QED BY <2>1, StandingKept
<1>10. UpLine(s, l, n, v)
  <2>1. AllPlain(n.pending)
    BY <1>6 DEF AllPlain
  <2> QED BY <1>5, <1>6, <2>1 DEF ClientInv, UpLine
<1>11. DownLine(s, l, <<>>)
  <2>1. Len(<<>>) = 0 /\ AllPlain(<<>>)
    BY DEF AllPlain
  <2>2. Numbered(<<>>, l.unsealed)
    BY <2>1 DEF Numbered
  <2>3. ~s.encryption => l.unsealed = 0 /\ s.sealed = 0
    BY DEF ClientInv, DownLine
  <2> QED BY <2>1, <2>2, <2>3 DEF DownLine
<1>12. ClientInv(s, l, n, v, <<>>)
  BY <1>7, <1>8, <1>9, <1>10, <1>11 DEF ClientInv
<1> QED BY <1>12 DEF v

-----------------------------------------------------------------------------
(* From values to steps.                                                   *)

Sound(c) == ClientInv(sess[c], cl[c], screen[c], c2s[c], s2c[c])

AllSound == \A c \in Clients : Sound(c)

Shaped ==
    /\ sess = [c \in Clients |-> sess[c]] /\ cl = [c \in Clients |-> cl[c]]
    /\ screen = [c \in Clients |-> screen[c]]
    /\ c2s = [c \in Clients |-> c2s[c]] /\ s2c = [c \in Clients |-> s2c[c]]

Numbers ==
    /\ max_user_id \in Nat /\ login \subseteq 1..max_user_id
    /\ \A c \in Clients : sess[c].id <= max_user_id
    /\ \A c, e \in Clients : c # e /\ sess[c].id > 0 => sess[c].id # sess[e].id

LEMMA Together == LoginInv <=> Shaped /\ AllSound /\ Numbers
<1>1. ASSUME LoginInv PROVE Shaped
  BY <1>1, Zenon DEF LoginInv, TypeOK, Shaped
<1>2. ASSUME LoginInv PROVE AllSound /\ Numbers
  BY <1>2, Zenon DEF LoginInv, TypeOK, Sound, AllSound, Numbers
<1>3. ASSUME Shaped, AllSound, Numbers PROVE LoginInv
  <2>1. \A c \in Clients : Typed(sess[c], cl[c], screen[c], c2s[c], s2c[c])
    BY <1>3 DEF AllSound, Sound, ClientInv
  <2>2. sess \in [Clients -> ServerSession]
    BY <1>3, <2>1, Zenon DEF Shaped, Typed
  <2>3. cl \in [Clients -> ClientSession]
    BY <1>3, <2>1, Zenon DEF Shaped, Typed
  <2>4. screen \in [Clients -> Screen]
    BY <1>3, <2>1, Zenon DEF Shaped, Typed
  <2>5. c2s \in [Clients -> Seq(Wire(ToServer))]
    BY <1>3, <2>1, Zenon DEF Shaped, Typed
  <2>6. s2c \in [Clients -> Seq(Wire(ToClient))]
    BY <1>3, <2>1, Zenon DEF Shaped, Typed
  <2> QED BY <1>3, <2>2, <2>3, <2>4, <2>5, <2>6, Zenon DEF LoginInv, TypeOK, Sound, AllSound, Numbers
<1> QED BY <1>1, <1>2, <1>3

(* A step that changes no id.                                              *)
LEMMA NumbersKept ==
    ASSUME Numbers, max_user_id' = max_user_id, login' \subseteq login,
           \A c \in Clients : sess'[c].id = sess[c].id
    PROVE  Numbers'
<1>1. max_user_id' \in Nat /\ login' \subseteq 1..max_user_id'
  BY Zenon DEF Numbers
<1>2. \A c \in Clients : sess'[c].id <= max_user_id'
  BY Zenon DEF Numbers
<1>3. \A c, e \in Clients : c # e /\ sess'[c].id > 0 => sess'[c].id # sess'[e].id
  BY Zenon DEF Numbers
<1> QED BY <1>1, <1>2, <1>3 DEF Numbers

(* A step that changes one client.                                         *)
LEMMA OneClient ==
    ASSUME LoginInv, NEW c \in Clients, NEW s, NEW k, NEW m, NEW u, NEW d,
           ClientInv(s, k, m, u, d), s.id = sess[c].id,
           sess' = [sess EXCEPT ![c] = s], cl' = [cl EXCEPT ![c] = k],
           screen' = [screen EXCEPT ![c] = m],
           c2s' = [c2s EXCEPT ![c] = u], s2c' = [s2c EXCEPT ![c] = d],
           max_user_id' = max_user_id, login' \subseteq login
    PROVE  LoginInv'
<1>1. Shaped /\ AllSound /\ Numbers
  BY Together
<1>2. Shaped'
  BY <1>1 DEF Shaped
<1>3. sess'[c] = s /\ cl'[c] = k /\ screen'[c] = m /\ c2s'[c] = u /\ s2c'[c] = d
  BY <1>1 DEF Shaped
<1>4. \A e \in Clients : e # c =>
          /\ sess'[e] = sess[e] /\ cl'[e] = cl[e] /\ screen'[e] = screen[e]
          /\ c2s'[e] = c2s[e] /\ s2c'[e] = s2c[e]
  BY <1>1 DEF Shaped
<1>5. AllSound'
  <2> SUFFICES ASSUME NEW e \in Clients
               PROVE  ClientInv(sess'[e], cl'[e], screen'[e], c2s'[e], s2c'[e])
    BY DEF AllSound, Sound
  <2>1. CASE e = c
    BY <1>3, <2>1, Zenon
  <2>2. CASE e # c
    <3>1. ClientInv(sess[e], cl[e], screen[e], c2s[e], s2c[e])
      BY <1>1 DEF AllSound, Sound
    <3> QED BY <1>4, <2>2, <3>1, Zenon
  <2> QED BY <2>1, <2>2
<1>6. \A e \in Clients : sess'[e].id = sess[e].id
  BY <1>3, <1>4, Zenon
<1>7. Numbers'
  BY <1>1, <1>6, NumbersKept
<1> QED BY <1>2, <1>5, <1>7, Together, PTL

(* A step in which the server sends to anybody, what it has taken or       *)
(* changed before being ss and v.                                          *)
LEMMA Sends ==
    ASSUME LoginInv, NEW ss, NEW v, NEW out,
           ss = [e \in Clients |-> ss[e]], v = [e \in Clients |-> v[e]],
           \A e \in Clients : ClientInv(ss[e], cl[e], screen[e], v[e], s2c[e]),
           \A e \in Clients : out[e] \in Commands(ToClient)
                              /\ PassesToClient(ss[e], cl[e], v[e], s2c[e], out[e]),
           ServerSends(ss, out), c2s' = v, cl' = cl, screen' = screen
    PROVE  Shaped' /\ AllSound' /\ \A e \in Clients : sess'[e].id = ss[e].id
<1>1. Shaped
  BY Together
<1> DEFINE b(e) == AfterSealing(ss[e], out[e]).unsent
                   \/ (out[e] # <<>> /\ ~(ss[e].open /\ cl[e].up))
<1>2. \A e \in Clients : b(e) \in BOOLEAN
  BY Zenon
<1>3. sess' = [e \in Clients |-> Said(ss[e], out[e], b(e))]
  BY Zenon DEF ServerSends, Said
<1>4. s2c' = [e \in Clients |-> IF ss[e].open /\ cl[e].up
                                THEN s2c[e] \o Sealed(ss[e], out[e]) ELSE s2c[e]]
  BY Zenon DEF ServerSends
<1> HIDE DEF b
<1>5. Shaped'
  BY <1>1, <1>3, <1>4, Zenon DEF Shaped
<1>6. AllSound'
  <2> SUFFICES ASSUME NEW e \in Clients
               PROVE  ClientInv(sess'[e], cl'[e], screen'[e], c2s'[e], s2c'[e])
    BY DEF AllSound, Sound
  <2>1. ClientInv(Said(ss[e], out[e], b(e)), cl[e], screen[e], v[e],
                  IF ss[e].open /\ cl[e].up THEN s2c[e] \o Sealed(ss[e], out[e]) ELSE s2c[e])
    BY <1>2, ServerSays, Zenon
  <2> QED BY <1>3, <1>4, <2>1, Zenon
<1>7. ASSUME NEW e \in Clients PROVE sess'[e].id = ss[e].id
  <2>1. ss[e] \in ServerSession /\ Len(out[e]) \in Nat
    BY DEF ClientInv, Typed, Commands
  <2>2. Said(ss[e], out[e], b(e)).id = ss[e].id
    BY <1>2, <2>1, ServerSeals
  <2> QED BY <1>3, <2>2, Zenon
<1> QED BY <1>5, <1>6, <1>7

LEMMA Taking ==
    ASSUME LoginInv, NEW c \in Clients, NEW kind, Arrives(c, kind)
    PROVE  LET ss == Taken(c)
               v  == Rest(c)
           IN  /\ ss = [e \in Clients |-> ss[e]] /\ v = [e \in Clients |-> v[e]]
               /\ \A e \in Clients : ClientInv(ss[e], cl[e], screen[e], v[e], s2c[e])
               /\ \A e \in Clients : ss[e].id = sess[e].id
               /\ ss[c].accepted
               /\ ServerTurnSays(ss[c], cl[c], Head(c2s[c])) /\ Head(c2s[c]).kind = kind
               /\ kind \in ServerTurn => NoTurn(v[c], s2c[c])
               /\ kind = "ServerReceivePublicKey" => ~ss[c].refused
<1> DEFINE ss == Taken(c)
           v  == Rest(c)
<1>1. Shaped /\ AllSound
  BY Together
<1>2. /\ ss = [e \in Clients |-> ss[e]] /\ v = [e \in Clients |-> v[e]]
      /\ ss[c] = AfterUnsealing(sess[c], Head(c2s[c])) /\ v[c] = Tail(c2s[c])
      /\ \A e \in Clients : e # c => ss[e] = sess[e] /\ v[e] = c2s[e]
  BY <1>1 DEF Shaped, Taken, Rest
<1> HIDE DEF ss, v
<1>3. ClientInv(sess[c], cl[c], screen[c], c2s[c], s2c[c])
  BY <1>1 DEF AllSound, Sound
<1>4. c2s[c] # <<>> /\ Head(c2s[c]).kind = kind
  BY DEF Arrives
<1>5. Len(c2s[c]) > 0
  <2>1. c2s[c] \in Seq(Wire(ToServer))
    BY <1>3 DEF ClientInv, Typed
  <2> QED BY <1>4, <2>1
<1>6. /\ ClientInv(ss[c], cl[c], screen[c], v[c], s2c[c]) /\ ss[c].accepted
      /\ ss[c].id = sess[c].id
      /\ ServerTurnSays(ss[c], cl[c], Head(c2s[c]))
      /\ kind \in ServerTurn => NoTurn(v[c], s2c[c])
      /\ kind = "ServerReceivePublicKey" => ~ss[c].refused
  <2> DEFINE t == AfterUnsealing(sess[c], Head(c2s[c]))
             w == Tail(c2s[c])
  <2>1. /\ ClientInv(t, cl[c], screen[c], w, s2c[c]) /\ t.accepted /\ t.id = sess[c].id
        /\ ServerTurnSays(t, cl[c], Head(c2s[c]))
        /\ Head(c2s[c]).kind \in ServerTurn => NoTurn(w, s2c[c])
        /\ Head(c2s[c]).kind = "ServerReceivePublicKey" => ~t.refused
    BY <1>3, <1>5, ServerTakes
  <2> HIDE DEF t, w
  <2>2. ss[c] = t /\ v[c] = w
    BY <1>2 DEF t, w
  <2> QED BY <1>4, <2>1, <2>2, Zenon
<1>7. ASSUME NEW e \in Clients
      PROVE  ClientInv(ss[e], cl[e], screen[e], v[e], s2c[e]) /\ ss[e].id = sess[e].id
  <2>1. CASE e = c
    BY <1>6, <2>1, Zenon
  <2>2. CASE e # c
    BY <1>1, <1>2, <2>2, Zenon DEF AllSound, Sound
  <2> QED BY <2>1, <2>2
<1> QED BY <1>2, <1>4, <1>6, <1>7, Zenon DEF ss, v

(* A command that is no turn may always be sent.                           *)
NoTurns(out) ==
    out \in Commands(ToClient) /\ \A i \in 1..Len(out) : out[i].kind \notin ClientTurn

LEMMA NothingIsNoTurn == NoTurns(<<>>)
  BY DEF NoTurns, Commands

LEMMA NoticesAreNoTurns ==
    /\ \A n \in Nat : NoTurns(<<Notify(n)>>)
    /\ \A n \in Nat : NoTurns([u \in 1..n |-> Notify(u)])
<1> DEFINE R == [kind : ToClient, id : Nat]
<1>1. ASSUME NEW n \in Nat PROVE Notify(n) \in R /\ Notify(n).kind \notin ClientTurn
  BY DEF Notify, Command, ToClient, ClientTurn
<1> HIDE DEF R
<1>2. ASSUME NEW n \in Nat PROVE NoTurns(<<Notify(n)>>)
  <2>1. <<Notify(n)>> \in Seq(R)
    BY <1>1
  <2>2. \A i \in 1..Len(<<Notify(n)>>) : <<Notify(n)>>[i].kind \notin ClientTurn
    BY <1>1
  <2> QED BY <2>1, <2>2 DEF NoTurns, Commands, R
<1>3. ASSUME NEW n \in Nat PROVE NoTurns([u \in 1..n |-> Notify(u)])
  <2> DEFINE f == [u \in 1..n |-> Notify(u)]
  <2>1. f \in [1..n -> R]
    BY <1>1
  <2>2. f \in Seq(R) /\ Len(f) = n
    BY <2>1, FunctionIsSeq
  <2>3. \A i \in 1..n : f[i].kind \notin ClientTurn
    BY <1>1
  <2> HIDE DEF f
  <2>4. NoTurns(f)
    BY <2>2, <2>3 DEF NoTurns, Commands, R
  <2> QED BY <2>4 DEF f
<1> QED BY <1>2, <1>3

(* A step in which the server only sends what is no turn.                  *)
LEMMA Notices ==
    ASSUME LoginInv, NEW ss, NEW v, NEW out,
           ss = [e \in Clients |-> ss[e]], v = [e \in Clients |-> v[e]],
           \A e \in Clients : ClientInv(ss[e], cl[e], screen[e], v[e], s2c[e]),
           \A e \in Clients : ss[e].id = sess[e].id,
           \A e \in Clients : NoTurns(out[e]),
           ServerSends(ss, out), c2s' = v, cl' = cl, screen' = screen,
           max_user_id' = max_user_id, login' \subseteq login
    PROVE  LoginInv'
<1>1. \A e \in Clients : out[e] \in Commands(ToClient)
                         /\ PassesToClient(ss[e], cl[e], v[e], s2c[e], out[e])
  BY DEF NoTurns, PassesToClient
<1>2. Shaped' /\ AllSound' /\ \A e \in Clients : sess'[e].id = ss[e].id
  BY <1>1, Sends
<1>3. Numbers'
  BY <1>2, NumbersKept, Together
<1> QED BY <1>2, <1>3, Together, PTL

-----------------------------------------------------------------------------
(* The server's steps.                                                     *)

(* The answer to a message: no turn, or the turn that follows it.          *)
LEMMA Answers ==
    ASSUME LoginInv, NEW c \in Clients, NEW kind, Arrives(c, kind), NEW answer \in ToClient,
           answer \notin ClientTurn
           \/ /\ kind \in ServerTurn
              /\ \A s, k : Unknown(s, k) =>
                    ClientTurnSays(s, k, [kind |-> answer, id |-> 0])
              /\ kind = "ServerReceiveClientInfo",
           c2s' = Rest(c), ServerSends(Taken(c), Only(c, <<Command(answer, 0)>>)),
           UNCHANGED <<cl, screen, login, max_user_id>>
    PROVE  LoginInv'
<1> DEFINE ss == Taken(c)
           v == Rest(c)
           one == <<Command(answer, 0)>>
           out == Only(c, one)
<1>1. /\ ss = [e \in Clients |-> ss[e]] /\ v = [e \in Clients |-> v[e]]
      /\ \A e \in Clients : ClientInv(ss[e], cl[e], screen[e], v[e], s2c[e])
      /\ \A e \in Clients : ss[e].id = sess[e].id
      /\ ServerTurnSays(ss[c], cl[c], Head(c2s[c])) /\ Head(c2s[c]).kind = kind
      /\ kind \in ServerTurn => NoTurn(v[c], s2c[c])
  BY Taking
<1> HIDE DEF ss, v
<1>2. one \in Commands(ToClient) /\ Len(one) = 1 /\ one[1].kind = answer
  BY CommandFacts
<1>3. one[1] = [kind |-> answer, id |-> 0]
  BY DEF Command
<1> HIDE DEF one
<1>4. out[c] = one /\ \A e \in Clients : e # c => out[e] = <<>>
  BY DEF Only
<1> HIDE DEF out
<1>5. PassesToClient(ss[c], cl[c], v[c], s2c[c], one)
  <2>1. CASE answer \notin ClientTurn
    <3>1. \A i \in 1..Len(one) : i = 1
      BY <1>2
    <3> QED BY <1>2, <2>1, <3>1 DEF PassesToClient
  <2>2. CASE /\ kind \in ServerTurn /\ kind = "ServerReceiveClientInfo"
             /\ \A s, k : Unknown(s, k) => ClientTurnSays(s, k, [kind |-> answer, id |-> 0])
    <3>1. Unknown(ss[c], cl[c])
      BY <1>1, <2>2 DEF ServerTurnSays
    <3> QED BY <1>1, <1>2, <1>3, <2>2, <3>1 DEF PassesToClient
  <2> QED BY <2>1, <2>2
<1>6. ASSUME NEW e \in Clients
      PROVE  out[e] \in Commands(ToClient) /\ PassesToClient(ss[e], cl[e], v[e], s2c[e], out[e])
  <2>1. CASE e = c
    BY <1>2, <1>4, <1>5, <2>1
  <2>2. CASE e # c
    BY <1>4, <2>2, NothingIsNoTurn DEF NoTurns, PassesToClient
  <2> QED BY <2>1, <2>2
<1>7. ServerSends(ss, out) /\ c2s' = v
  BY DEF ss, v, out, one
<1>8. Shaped' /\ AllSound' /\ \A e \in Clients : sess'[e].id = ss[e].id
  BY <1>1, <1>6, <1>7, Sends
<1>9. Numbers'
  BY <1>1, <1>8, NumbersKept, Together
<1> QED BY <1>8, <1>9, Together, PTL

LEMMA InvRequestedFullServerInfo ==
    ASSUME LoginInv, NEW c \in Clients, ServerRequestedFullServerInfo(c)
    PROVE  LoginInv'
<1>1. "ClientReceiveFullServerInfo" \in ToClient /\ "ClientReceiveFullServerInfo" \notin ClientTurn
  BY DEF ToClient, ClientTurn
<1> QED BY <1>1, Answers, Zenon DEF ServerRequestedFullServerInfo

LEMMA InvReceiveSession ==
    ASSUME LoginInv, NEW c \in Clients, ReceiveSession(c)
    PROVE  LoginInv'
<1> DEFINE s == sess[c]
           k == cl[c]
           t == [s EXCEPT !.accepted = TRUE, !.open = TRUE, !.online = TRUE, !.reading = TRUE]
           l == [k EXCEPT !.up = TRUE, !.online = TRUE]
           d == Sealed(s, <<Command("ClientRequestedClientInfo", 0)>>)
<1>1. ClientInv(s, k, screen[c], c2s[c], s2c[c]) /\ Shaped
  BY Together DEF AllSound, Sound
<1>2. s \in ServerSession /\ k \in ClientSession
  BY <1>1 DEF ClientInv, Typed
<1>3. ~s.accepted
  BY DEF ReceiveSession
<1>4. ~s.refused /\ ~s.encryption /\ ~k.encryption
  BY <1>1, <1>3 DEF ClientInv, Fresh
<1>5. /\ t \in ServerSession /\ t.accepted
      /\ t.refused <=> s.refused
      /\ t.encryption <=> s.encryption
      /\ t.id = s.id /\ t.sealed = s.sealed /\ t.unsealed = s.unsealed
  BY <1>2 DEF ServerSession
<1>6. /\ l \in ClientSession
      /\ l.encryption <=> k.encryption
      /\ l.id = k.id /\ l.sealed = k.sealed /\ l.unsealed = k.unsealed
  BY <1>2 DEF ClientSession
<1>7. /\ sess' = [sess EXCEPT ![c] = t] /\ cl' = [cl EXCEPT ![c] = l]
      /\ s2c' = [s2c EXCEPT ![c] = d]
      /\ screen' = screen /\ c2s' = c2s /\ max_user_id' = max_user_id /\ login' = login
  BY DEF ReceiveSession
<1>8. screen' = [screen EXCEPT ![c] = screen[c]] /\ c2s' = [c2s EXCEPT ![c] = c2s[c]]
  BY <1>1, <1>7, Zenon DEF Shaped
<1> HIDE DEF t, l
<1>9. ClientInv(t, l, screen[c], c2s[c], d)
  BY <1>1, <1>3, <1>4, <1>5, <1>6, ServerAccepts
<1> HIDE DEF s, d
<1>10. t.id = sess[c].id
  BY <1>5 DEF s
<1> QED BY <1>7, <1>8, <1>9, <1>10, OneClient, Zenon

LEMMA InvReceivePublicKey ==
    ASSUME LoginInv, NEW c \in Clients, ServerReceivePublicKey(c)
    PROVE  LoginInv'
<1> DEFINE ss == Taken(c)
           v == Rest(c)
           n == NextUserId
           t == [ss[c] EXCEPT !.id = n, !.encryption = EncryptsFromKeyOn]
           tt == [ss EXCEPT ![c].id = n, ![c].encryption = EncryptsFromKeyOn]
           one == <<Command("ClientReceiveCommonKey", n)>>
           out == Only(c, one)
<1>0. Arrives(c, "ServerReceivePublicKey") /\ "ServerReceivePublicKey" \in ServerTurn
  BY DEF ServerReceivePublicKey, ServerTurn
<1>1. /\ ss = [e \in Clients |-> ss[e]] /\ v = [e \in Clients |-> v[e]]
      /\ \A e \in Clients : ClientInv(ss[e], cl[e], screen[e], v[e], s2c[e])
      /\ \A e \in Clients : ss[e].id = sess[e].id
      /\ ss[c].accepted /\ ~ss[c].refused
      /\ ServerTurnSays(ss[c], cl[c], Head(c2s[c])) /\ Head(c2s[c]).kind = "ServerReceivePublicKey"
      /\ NoTurn(v[c], s2c[c])
  BY <1>0, Taking
<1>2. Numbers /\ max_user_id \in Nat
  BY Together DEF Numbers
<1>3. n \in Nat /\ n > 0 /\ n = max_user_id + 1
  BY <1>2 DEF NextUserId
<1>4. /\ ServerSends(tt, out) /\ c2s' = v /\ cl' = cl /\ screen' = screen
      /\ max_user_id' = n /\ login' = login \cup {n}
  BY <1>3 DEF ServerReceivePublicKey
<1>5. ss[c] \in ServerSession
  BY <1>1 DEF ClientInv, Typed
<1>6. tt[c] = t /\ (\A e \in Clients : e # c => tt[e] = ss[e]) /\ tt = [e \in Clients |-> tt[e]]
  <2> HIDE DEF ss
  <2> QED BY <1>1
<1> HIDE DEF ss, v, n, tt
<1>7. /\ t \in ServerSession
      /\ t.accepted <=> ss[c].accepted
      /\ t.open <=> ss[c].open
      /\ t.refused <=> ss[c].refused
      /\ ~t.encryption
      /\ t.id = n /\ t.sealed = ss[c].sealed /\ t.unsealed = ss[c].unsealed
  BY <1>3, <1>5 DEF ServerSession, EncryptsFromKeyOn
<1> HIDE DEF t
<1>8. Unknown(ss[c], cl[c])
  BY <1>1 DEF ServerTurnSays
<1>9. ClientInv(t, cl[c], screen[c], v[c], s2c[c])
  BY <1>1, <1>3, <1>7, <1>8, IdGiven
<1>10. /\ one \in Commands(ToClient) /\ Len(one) = 1
       /\ one[1].kind = "ClientReceiveCommonKey" /\ one[1].id = n
  <2>1. "ClientReceiveCommonKey" \in ToClient
    BY DEF ToClient
  <2> QED BY <1>3, <2>1, CommandFacts
<1> HIDE DEF one
<1>11. out[c] = one /\ \A e \in Clients : e # c => out[e] = <<>>
  BY DEF Only
<1> HIDE DEF out
<1>12. PassesToClient(t, cl[c], v[c], s2c[c], one)
  <2>1. ClientTurnSays(t, cl[c], one[1])
    BY <1>3, <1>7, <1>8, <1>10 DEF ClientTurnSays, Unknown, Plain
  <2> QED BY <1>1, <1>10, <2>1 DEF PassesToClient
<1>13. ASSUME NEW e \in Clients
       PROVE  /\ ClientInv(tt[e], cl[e], screen[e], v[e], s2c[e])
              /\ out[e] \in Commands(ToClient)
              /\ PassesToClient(tt[e], cl[e], v[e], s2c[e], out[e])
  <2>1. CASE e = c
    BY <1>6, <1>9, <1>10, <1>11, <1>12, <2>1
  <2>2. CASE e # c
    <3>1. ClientInv(tt[e], cl[e], screen[e], v[e], s2c[e])
      BY <1>1, <1>6, <2>2
    <3>2. out[e] = <<>>
      BY <1>11, <2>2
    <3> QED BY <3>1, <3>2, NothingIsNoTurn DEF NoTurns, PassesToClient
  <2> QED BY <2>1, <2>2
<1>14. Shaped' /\ AllSound' /\ \A e \in Clients : sess'[e].id = tt[e].id
  BY <1>1, <1>4, <1>6, <1>13, Sends
<1>15. sess'[c].id = n /\ \A e \in Clients : e # c => sess'[e].id = sess[e].id
  BY <1>1, <1>6, <1>7, <1>14
<1>16. Numbers'
  <2>1. /\ \A e \in Clients : sess[e].id <= max_user_id
        /\ \A e, f \in Clients : e # f /\ sess[e].id > 0 => sess[e].id # sess[f].id
        /\ login \subseteq 1..max_user_id
    BY <1>2 DEF Numbers
  <2>2. \A e \in Clients : sess[e].id \in Nat
    BY Together DEF AllSound, Sound, ClientInv, Typed, ServerSession
  <2>3. login' \subseteq 1..max_user_id'
    BY <1>2, <1>3, <1>4, <2>1
  <2>4. \A e \in Clients : sess'[e].id <= max_user_id'
    BY <1>2, <1>3, <1>4, <1>15, <2>1, <2>2
  <2>5. ASSUME NEW e \in Clients, NEW f \in Clients, e # f, sess'[e].id > 0
        PROVE  sess'[e].id # sess'[f].id
    <3>1. \A g \in Clients : sess[g].id # n
      BY <1>2, <1>3, <2>1, <2>2
    <3>2. CASE e = c
      BY <1>15, <2>5, <3>1, <3>2
    <3>3. CASE f = c
      BY <1>15, <2>5, <3>1, <3>3
    <3>4. CASE e # c /\ f # c
      BY <1>15, <2>1, <2>5, <3>4
    <3> QED BY <3>2, <3>3, <3>4
  <2> QED BY <1>3, <1>4, <2>3, <2>4, <2>5 DEF Numbers
<1> QED BY <1>14, <1>16, Together, PTL

LEMMA InvReceiveClientInfo ==
    ASSUME LoginInv, NEW c \in Clients, ServerReceiveClientInfo(c)
    PROVE  LoginInv'
<1> DEFINE ss == Taken(c)
           v == Rest(c)
           t == [[Closed(ss[c]) EXCEPT !.refused = TRUE] EXCEPT !.unsent = TRUE]
           one == <<Command("ClientReceiveServerCrowdedError", 0)>>
           msg == Sealed(sess[c], one)[1]
           told == Append(s2c[c], msg)
           answer == IF c \in OldClients THEN "ClientReceiveUnsupportVersionError"
                     ELSE "ClientRequestedPublicKey"
<1>0. /\ Arrives(c, "ServerReceiveClientInfo") /\ "ServerReceiveClientInfo" \in ServerTurn
      /\ UNCHANGED <<cl, screen, login, max_user_id>>
  BY DEF ServerReceiveClientInfo, ServerTurn
<1>1. /\ ss = [e \in Clients |-> ss[e]] /\ v = [e \in Clients |-> v[e]]
      /\ \A e \in Clients : ClientInv(ss[e], cl[e], screen[e], v[e], s2c[e])
      /\ \A e \in Clients : ss[e].id = sess[e].id
      /\ ss[c].accepted
      /\ ServerTurnSays(ss[c], cl[c], Head(c2s[c])) /\ Head(c2s[c]).kind = "ServerReceiveClientInfo"
      /\ NoTurn(v[c], s2c[c])
  BY <1>0, Taking
<1>2. ASSUME c2s' = Rest(c), ServerSends(Taken(c), Only(c, <<Command(answer, 0)>>))
      PROVE  LoginInv'
  <2>1. answer \in {"ClientReceiveUnsupportVersionError", "ClientRequestedPublicKey"}
    OBVIOUS
  <2> HIDE DEF answer
  <2>2. answer \in ToClient
    BY <2>1 DEF ToClient
  <2>3. \/ answer \notin ClientTurn
        \/ \A s, k : Unknown(s, k) => ClientTurnSays(s, k, [kind |-> answer, id |-> 0])
    BY <2>1 DEF ClientTurn, ClientTurnSays
  <2> QED BY <1>0, <1>2, <2>2, <2>3, Answers
<1>3. ASSUME NEW i \in 0..Len(Tail(c2s[c])), NEW j \in 0..Len(told),
             c2s' = [c2s EXCEPT ![c] = SubSeq(Tail(c2s[c]), 1, i)],
             s2c' = [s2c EXCEPT ![c] = IF ~cl[c].up THEN <<>> ELSE SubSeq(told, 1, j)],
             sess' = [sess EXCEPT ![c] = t]
      PROVE  LoginInv'
  <2>1. ClientInv(sess[c], cl[c], screen[c], c2s[c], s2c[c]) /\ Shaped
    BY Together DEF AllSound, Sound
  <2>2. /\ sess[c] \in ServerSession /\ ss[c] \in ServerSession
        /\ s2c[c] \in Seq(Wire(ToClient))
    BY <1>1, <2>1 DEF ClientInv, Typed
  <2>3. v[c] = Tail(c2s[c])
    BY <2>1 DEF Rest, Shaped
  <2> HIDE DEF ss, v
  <2>4. /\ t \in ServerSession
        /\ t.accepted <=> ss[c].accepted
        /\ ~t.open
        /\ t.encryption <=> ss[c].encryption
        /\ t.id = ss[c].id /\ t.sealed = ss[c].sealed /\ t.unsealed = ss[c].unsealed
    BY <2>2 DEF Closed, ServerSession
  <2> HIDE DEF t
  <2>5. Unknown(ss[c], cl[c])
    BY <1>1 DEF ServerTurnSays
  <2>6. ~sess[c].encryption
    <3>1. ss[c].encryption <=> sess[c].encryption
      <4>1. c2s[c] \in Seq(Wire(ToServer)) /\ c2s[c] # <<>>
        BY <1>0, <2>1 DEF ClientInv, Typed, Arrives
      <4>2. Len(c2s[c]) > 0 /\ ss[c] = AfterUnsealing(sess[c], Head(c2s[c]))
        BY <2>1, <4>1 DEF ss, Taken, Shaped
      <4>3. AfterUnsealing(sess[c], Head(c2s[c])).encryption <=> sess[c].encryption
        BY <2>1, <4>2, ServerTakes
      <4> QED BY <4>2, <4>3, Zenon
    <3> QED BY <2>5, <3>1 DEF Unknown, Plain
  <2>7. msg \in Wire(ToClient) /\ msg.kind \notin ClientTurn /\ msg.cipher = 0
    <3>1. /\ one \in Commands(ToClient) /\ Len(one) = 1
          /\ one[1].kind = "ClientReceiveServerCrowdedError"
      <4>1. "ClientReceiveServerCrowdedError" \in ToClient
        BY DEF ToClient
      <4> QED BY <4>1, CommandFacts
    <3> HIDE DEF one
    <3>2. sess[c].encryption \in BOOLEAN /\ sess[c].sealed \in Nat
      BY <2>2 DEF ServerSession
    <3>3. 1 \in 1..Len(one)
      BY <3>1
    <3> DEFINE y == Sealed(sess[c], one)
    <3>4. /\ y \in Seq(Wire(ToClient)) /\ Len(y) = Len(one)
          /\ y[1].kind = one[1].kind
          /\ y[1].cipher = 0
      BY <2>6, <3>1, <3>2, <3>3, SealedFacts
    <3> HIDE DEF y
    <3>5. y[1] \in Wire(ToClient)
      BY <3>3, <3>4, FieldFacts
    <3>6. y[1].kind \notin ClientTurn
      BY <3>1, <3>4 DEF ClientTurn
    <3> QED BY <3>4, <3>5, <3>6 DEF y
  <2> HIDE DEF msg
  <2>8. \A n \in 0..Len(told) :
            ClientInv(t, cl[c], screen[c], SubSeq(Tail(c2s[c]), 1, i), SubSeq(told, 1, n))
    <3>1. i \in 0..Len(v[c])
      BY <2>3, Zenon
    <3>2. \A n \in 0..Len(told) :
              ClientInv(t, cl[c], screen[c], SubSeq(v[c], 1, i), SubSeq(told, 1, n))
      <4>1. ~t.encryption /\ t.accepted
        BY <1>1, <2>4, <2>5 DEF Unknown, Plain
      <4> QED BY <1>1, <2>4, <2>5, <2>7, <3>1, <4>1, ServerRefuses
    <3> QED BY <2>3, <3>2, Zenon
  <2>9. told \in Seq(Wire(ToClient))
    BY <2>2, <2>7
  <2> DEFINE d == IF ~cl[c].up THEN <<>> ELSE SubSeq(told, 1, j)
  <2>10. \E n \in 0..Len(told) : d = SubSeq(told, 1, n)
    <3> HIDE DEF told
    <3>1. 0 \in 0..Len(told) /\ SubSeq(told, 1, 0) = <<>>
      BY <2>9
    <3> QED BY <3>1
  <2>11. ClientInv(t, cl[c], screen[c], SubSeq(Tail(c2s[c]), 1, i), d)
    BY <2>8, <2>10, Zenon
  <2>12. t.id = sess[c].id
    BY <1>1, <2>4
  <2>13. cl' = [cl EXCEPT ![c] = cl[c]] /\ screen' = [screen EXCEPT ![c] = screen[c]]
    BY <1>0, <2>1, Zenon DEF Shaped
  <2> HIDE DEF d
  <2>14. s2c' = [s2c EXCEPT ![c] = d]
    BY <1>3, Zenon DEF d
  <2>15. max_user_id' = max_user_id /\ login' \subseteq login
    BY <1>0
  <2> QED BY <1>3, <2>11, <2>12, <2>13, <2>14, <2>15, OneClient, Zenon
<1>4. CASE ~(GetUserCount >= Capacity)
  <2>1. /\ c2s' = Rest(c)
        /\ ServerSends(Taken(c), Only(c, <<IF c \in OldClients
                                          THEN Command("ClientReceiveUnsupportVersionError", 0)
                                          ELSE Command("ClientRequestedPublicKey", 0)>>))
    BY <1>4, Zenon DEF ServerReceiveClientInfo
  <2>2. (IF c \in OldClients THEN Command("ClientReceiveUnsupportVersionError", 0)
         ELSE Command("ClientRequestedPublicKey", 0)) = Command(answer, 0)
    BY Zenon
  <2> QED BY <1>2, <2>1, <2>2, Zenon
<1>5. CASE GetUserCount >= Capacity
  <2> DEFINE shut == [ss EXCEPT ![c] = [Closed(@) EXCEPT !.refused = TRUE]]
             out == IF shut[c].open THEN told \o Sealed(shut[c], <<
                        IF c \in OldClients
                        THEN Command("ClientReceiveUnsupportVersionError", 0)
                        ELSE Command("ClientRequestedPublicKey", 0)>>) ELSE told
  <2>1. /\ \E n \in 0..Len(out) :
              s2c' = [s2c EXCEPT ![c] = IF ~cl[c].up THEN <<>>
                                        ELSE IF shut[c].open THEN out
                                        ELSE SubSeq(out, 1, n)]
        /\ \E n \in 0..Len(Tail(c2s[c])) :
              c2s' = [c2s EXCEPT ![c] = IF shut[c].open THEN Tail(@) ELSE SubSeq(Tail(@), 1, n)]
        /\ sess' = [shut EXCEPT ![c].unsent = TRUE]
    BY <1>5, Zenon DEF ServerReceiveClientInfo
  <2>2. Shaped
    BY Together
  <2>3. ss[c] \in ServerSession
    BY <1>1 DEF ClientInv, Typed
  <2>4. shut[c] = [Closed(ss[c]) EXCEPT !.refused = TRUE] /\ ~shut[c].open
    <3> HIDE DEF ss
    <3>1. shut[c] = [Closed(ss[c]) EXCEPT !.refused = TRUE]
      BY <1>1, Zenon
    <3>2. ~[Closed(ss[c]) EXCEPT !.refused = TRUE].open
      BY <2>3 DEF Closed, ServerSession
    <3> QED BY <3>1, <3>2, Zenon
  <2>5. sess' = [sess EXCEPT ![c] = t]
    <3> DEFINE close == [Closed(ss[c]) EXCEPT !.refused = TRUE]
    <3>1. shut = [ss EXCEPT ![c] = close]
      OBVIOUS
    <3>2. ss = [sess EXCEPT ![c] = ss[c]]
      BY <2>2 DEF Taken, Shaped
    <3>3. t = [close EXCEPT !.unsent = TRUE]
      OBVIOUS
    <3> HIDE DEF close, ss, t
    <3>4. shut = [sess EXCEPT ![c] = close]
      BY <2>2, <3>1, <3>2 DEF Shaped
    <3> HIDE DEF shut
    <3>5. sess' = [sess EXCEPT ![c] = [close EXCEPT !.unsent = TRUE]]
      BY <2>1, <2>2, <3>4 DEF Shaped
    <3> QED BY <3>3, <3>5
  <2> HIDE DEF shut, t
  <2>6. out = told
    BY <2>4
  <2> HIDE DEF out, told
  <2>7. PICK j \in 0..Len(told) :
            s2c' = [s2c EXCEPT ![c] = IF ~cl[c].up THEN <<>> ELSE SubSeq(told, 1, j)]
    BY <2>1, <2>4, <2>6, Zenon
  <2>8. PICK i \in 0..Len(Tail(c2s[c])) :
            c2s' = [c2s EXCEPT ![c] = SubSeq(Tail(c2s[c]), 1, i)]
    BY <2>1, <2>4, Zenon
  <2> QED BY <1>3, <2>5, <2>7, <2>8
<1> QED BY <1>4, <1>5

LEMMA InvStartEncryptedSession ==
    ASSUME LoginInv, NEW c \in Clients, ServerStartEncryptedSession(c)
    PROVE  LoginInv'
<1> DEFINE ss == Taken(c)
           v == Rest(c)
           s == ss[c]
           start == <<Command("ClientStartEncryptedSession", 0)>>
           b == s.unsent \/ ~(s.open /\ cl[c].up)
           t == [s EXCEPT !.encryption = TRUE, !.unsent = b]
           d == IF s.open /\ cl[c].up THEN s2c[c] \o Sealed(s, start) ELSE s2c[c]
<1>0. /\ Arrives(c, "ServerStartEncryptedSession") /\ "ServerStartEncryptedSession" \in ServerTurn
      /\ UNCHANGED <<cl, screen, login, max_user_id>> /\ c2s' = v
      /\ s2c' = [s2c EXCEPT ![c] = IF s.open /\ cl[c].up THEN @ \o Sealed(s, start) ELSE @]
  BY Zenon DEF ServerStartEncryptedSession, ServerTurn
<1>1. /\ ss = [e \in Clients |-> ss[e]]
      /\ \A e \in Clients : ClientInv(ss[e], cl[e], screen[e], v[e], s2c[e])
      /\ \A e \in Clients : ss[e].id = sess[e].id
      /\ ss[c].accepted
      /\ ServerTurnSays(ss[c], cl[c], Head(c2s[c]))
      /\ Head(c2s[c]).kind = "ServerStartEncryptedSession"
      /\ NoTurn(v[c], s2c[c])
  BY <1>0, Taking
<1>2. Shaped
  BY Together
<1>3. s \in ServerSession
  BY <1>1 DEF ClientInv, Typed
<1>4. ClientInv(s, cl[c], screen[c], v[c], s2c[c]) /\ s.accepted /\ s.id = sess[c].id
  BY <1>1
<1>5. cl[c].keyed /\ Plain(s, cl[c])
  BY <1>1 DEF ServerTurnSays
<1>7. s2c' = [s2c EXCEPT ![c] = d]
  BY <1>0, Zenon
<1>8. c2s' = [c2s EXCEPT ![c] = v[c]]
  BY <1>0, <1>2 DEF Rest, Shaped
<1>9. cl' = [cl EXCEPT ![c] = cl[c]] /\ screen' = [screen EXCEPT ![c] = screen[c]]
  BY <1>0, <1>2, Zenon DEF Shaped
<1>10. b \in BOOLEAN
  BY Zenon
<1>11. AfterSealing(s, start) = s
  <2> HIDE DEF ss, s, start
  <2> QED BY <1>3, <1>5 DEF AfterSealing, Plain, ServerSession
<1>6. sess' = [sess EXCEPT ![c] = t]
  <2>1. ss = [sess EXCEPT ![c] = s]
    BY <1>2 DEF Taken, Shaped
  <2>2. sess' = [ss EXCEPT ![c] = [AfterSealing(s, start) EXCEPT
                                      !.encryption = TRUE,
                                      !.unsent = s.unsent \/ ~(s.open /\ cl[c].up)]]
    BY Zenon DEF ServerStartEncryptedSession
  <2>3. sess' = [ss EXCEPT ![c] = t]
    BY <1>11, <2>2, Zenon
  <2> HIDE DEF ss, s, t
  <2> QED BY <1>2, <2>1, <2>3 DEF Shaped
<1>12. t = [s EXCEPT !.encryption = TRUE, !.unsent = b]
  OBVIOUS
<1> HIDE DEF ss, v, s, b, t
<1>13. /\ t \in ServerSession /\ t.encryption
       /\ t.accepted <=> s.accepted
       /\ t.open <=> s.open
       /\ t.refused <=> s.refused
       /\ t.id = s.id /\ t.sealed = s.sealed /\ t.unsealed = s.unsealed
  BY <1>3, <1>10, <1>12 DEF ServerSession
<1>14. NoTurn(v[c], s2c[c])
  BY <1>1 DEF v
<1>15. ClientInv(t, cl[c], screen[c], v[c], d)
  BY <1>4, <1>5, <1>13, <1>14, ServerEncrypts
<1> HIDE DEF d
<1>16. t.id = sess[c].id /\ max_user_id' = max_user_id /\ login' \subseteq login
  BY <1>0, <1>4, <1>13
<1> QED BY <1>6, <1>7, <1>8, <1>9, <1>15, <1>16, OneClient, Zenon

LEMMA InvInitializeData ==
    ASSUME LoginInv, NEW c \in Clients, ServerReceiveAccountInitializeData(c)
    PROVE  LoginInv'
<1> DEFINE ss == Taken(c)
           v == Rest(c)
           t == [ss[c] EXCEPT !.initialized = TRUE]
           tt == [ss EXCEPT ![c].initialized = TRUE]
           out == [d \in Clients |->
                     IF d = c THEN [u \in 1..max_user_id |-> Notify(u)]
                     ELSE IF tt[d].id > 0 /\ tt[d].id # tt[c].id THEN <<Notify(tt[c].id)>> ELSE <<>>]
<1>0. /\ Arrives(c, "ServerReceiveAccountInitializeData") /\ c2s' = v /\ ServerSends(tt, out)
      /\ UNCHANGED <<cl, screen, login, max_user_id>>
  BY DEF ServerReceiveAccountInitializeData
<1>1. /\ ss = [e \in Clients |-> ss[e]] /\ v = [e \in Clients |-> v[e]]
      /\ \A e \in Clients : ClientInv(ss[e], cl[e], screen[e], v[e], s2c[e])
      /\ \A e \in Clients : ss[e].id = sess[e].id
  BY <1>0, Taking
<1>2. max_user_id \in Nat
  BY Together DEF Numbers
<1>3. tt[c] = t /\ (\A e \in Clients : e # c => tt[e] = ss[e]) /\ tt = [e \in Clients |-> tt[e]]
  <2> HIDE DEF ss
  <2> QED BY <1>1
<1> HIDE DEF ss, v, tt
<1>4. ss[c] \in ServerSession /\ screen[c] \in Screen /\ cl[c] \in ClientSession /\ NoTurnOf(screen[c])
  BY <1>1 DEF ClientInv, Typed
<1>5. SameServer(ss[c], t) /\ SameClient(cl[c], cl[c])
  BY <1>4 DEF SameServer, SameClient, ServerSession
<1> HIDE DEF t
<1>6. ClientInv(t, cl[c], screen[c], v[c], s2c[c]) /\ t.id = ss[c].id
  BY <1>1, <1>4, <1>5, Irrelevant DEF SameServer
<1>7. ASSUME NEW e \in Clients
      PROVE  ClientInv(tt[e], cl[e], screen[e], v[e], s2c[e]) /\ tt[e].id = sess[e].id
  <2>1. CASE e = c
    BY <1>1, <1>3, <1>6, <2>1, Zenon
  <2>2. CASE e # c
    BY <1>1, <1>3, <2>2, Zenon
  <2> QED BY <2>1, <2>2
<1>8. tt[c].id \in Nat
  BY <1>7 DEF ClientInv, Typed, ServerSession
<1>9. ASSUME NEW e \in Clients PROVE NoTurns(out[e])
  <2>1. NoTurns([u \in 1..max_user_id |-> Notify(u)]) /\ NoTurns(<<Notify(tt[c].id)>>) /\ NoTurns(<<>>)
    BY <1>2, <1>8, NoticesAreNoTurns, NothingIsNoTurn
  <2> QED BY <2>1, Zenon
<1> HIDE DEF out
<1> QED BY <1>0, <1>1, <1>3, <1>7, <1>9, Notices

(* Everybody may be told of an account.                                    *)
LEMMA ToldToAll ==
    ASSUME NEW ss, NEW c, NEW id \in Nat, NEW yes,
           NEW out, out = IF yes THEN ToAll(ss, <<Notify(id)>>) ELSE Only(c, <<>>)
    PROVE  \A e \in Clients : NoTurns(out[e])
<1>1. NoTurns(<<Notify(id)>>) /\ NoTurns(<<>>)
  BY NoticesAreNoTurns, NothingIsNoTurn
<1> QED BY <1>1, Zenon DEF ToAll, Only

LEMMA InvUpdateAccountProperty ==
    ASSUME LoginInv, NEW c \in Clients, ServerUpdateAccountProperty(c)
    PROVE  LoginInv'
<1> DEFINE ss == Taken(c)
           v == Rest(c)
<1>0. /\ Arrives(c, "ServerUpdateAccountProperty") /\ c2s' = v
      /\ UNCHANGED <<cl, screen, login, max_user_id>>
  BY DEF ServerUpdateAccountProperty
<1>1. PICK changed \in {FALSE, ss[c].id > 0} :
          ServerSends(ss, IF changed THEN ToAll(ss, <<Notify(ss[c].id)>>) ELSE Only(c, <<>>))
  BY DEF ServerUpdateAccountProperty
<1>2. /\ ss = [e \in Clients |-> ss[e]] /\ v = [e \in Clients |-> v[e]]
      /\ \A e \in Clients : ClientInv(ss[e], cl[e], screen[e], v[e], s2c[e])
      /\ \A e \in Clients : ss[e].id = sess[e].id
  BY <1>0, Taking
<1> HIDE DEF ss, v
<1>3. ss[c].id \in Nat
  BY <1>2 DEF ClientInv, Typed, ServerSession
<1> DEFINE out == IF changed THEN ToAll(ss, <<Notify(ss[c].id)>>) ELSE Only(c, <<>>)
<1>4. \A e \in Clients : NoTurns(out[e])
  BY <1>3, ToldToAll, Zenon
<1>5. ServerSends(ss, out)
  BY <1>1
<1> HIDE DEF out
<1> QED BY <1>0, <1>2, <1>4, <1>5, Notices

(* A connection fails; s is the session then.                              *)
LEMMA InvFatalError ==
    ASSUME LoginInv, NEW c \in Clients, NEW s, FatalError(c, s), SameServer(sess[c], s),
           UNCHANGED <<cl, screen, c2s, max_user_id>>
    PROVE  LoginInv'
<1> DEFINE t == [s EXCEPT !.online = FALSE]
           ss == [sess EXCEPT ![c] = t]
<1>1. Shaped /\ \A e \in Clients : ClientInv(sess[e], cl[e], screen[e], c2s[e], s2c[e])
  BY Together DEF AllSound, Sound
<1>2. screen[c] \in Screen /\ cl[c] \in ClientSession /\ NoTurnOf(screen[c])
  BY <1>1 DEF ClientInv, Typed
<1>3. SameClient(cl[c], cl[c])
  BY <1>2 DEF SameClient
<1>4. s \in ServerSession /\ s.id = sess[c].id
  BY DEF SameServer
<1>5. SameServer(s, t) /\ t.id = s.id
  BY <1>4 DEF SameServer, ServerSession
<1> HIDE DEF t
<1>6. SameServer(sess[c], t)
  BY <1>5, Zenon DEF SameServer
<1>7. /\ ClientInv(s, cl[c], screen[c], c2s[c], s2c[c])
      /\ ClientInv(t, cl[c], screen[c], c2s[c], s2c[c])
  BY <1>1, <1>2, <1>3, <1>6, Irrelevant
<1>8. CASE ~s.online
  <2> DEFINE k == cl[c]
             m == screen[c]
             u == c2s[c]
             d == s2c[c]
  <2>1. sess' = [sess EXCEPT ![c] = s] /\ s2c' = s2c /\ login' = login
    BY <1>8 DEF FatalError
  <2>2. cl' = [cl EXCEPT ![c] = k] /\ screen' = [screen EXCEPT ![c] = m]
    BY <1>1, Zenon DEF Shaped
  <2>3. c2s' = [c2s EXCEPT ![c] = u] /\ s2c' = [s2c EXCEPT ![c] = d]
    BY <1>1, <2>1, Zenon DEF Shaped
  <2>4. max_user_id' = max_user_id /\ login' \subseteq login
    BY <2>1
  <2>5. ClientInv(s, k, m, u, d) /\ s.id = sess[c].id
    BY <1>4, <1>7
  <2>6. sess' = [sess EXCEPT ![c] = s]
    BY <2>1
  <2> HIDE DEF k, m, u, d
  <2> QED BY <2>2, <2>3, <2>4, <2>5, <2>6, OneClient
<1>9. CASE s.online
  <2> DEFINE out == IF s.id > 0 THEN ToAll(ss, <<Notify(s.id)>>) ELSE Only(c, <<>>)
  <2>1. login' = LogOut(s.id) /\ ServerSends(ss, out)
    BY <1>9, Zenon DEF FatalError, t
  <2>2. login' \subseteq login
    BY <2>1 DEF LogOut
  <2>3. s.id \in Nat
    BY <1>4 DEF ServerSession
  <2>4. /\ ss = [e \in Clients |-> ss[e]] /\ c2s = [e \in Clients |-> c2s[e]]
        /\ ss[c] = t /\ \A e \in Clients : e # c => ss[e] = sess[e]
    BY <1>1 DEF Shaped
  <2> HIDE DEF ss
  <2>5. ASSUME NEW e \in Clients
        PROVE  ClientInv(ss[e], cl[e], screen[e], c2s[e], s2c[e]) /\ ss[e].id = sess[e].id
    <3>1. CASE e = c
      BY <1>4, <1>5, <1>7, <2>4, <3>1, Zenon
    <3>2. CASE e # c
      BY <1>1, <2>4, <3>2, Zenon
    <3> QED BY <3>1, <3>2
  <2>6. \A e \in Clients : NoTurns(out[e])
    BY <2>3, ToldToAll, Zenon
  <2> HIDE DEF out
  <2>7. c2s' = c2s /\ cl' = cl /\ screen' = screen /\ max_user_id' = max_user_id
    OBVIOUS
  <2>8. /\ \A e \in Clients : ClientInv(ss[e], cl[e], screen[e], c2s[e], s2c[e])
        /\ \A e \in Clients : ss[e].id = sess[e].id
    BY <2>5
  <2>9. ss = [e \in Clients |-> ss[e]] /\ c2s = [e \in Clients |-> c2s[e]]
    BY <2>4
  <2>10. ServerSends(ss, out)
    BY <2>1
  <2> QED BY <2>2, <2>6, <2>7, <2>8, <2>9, <2>10, Notices
<1> QED BY <1>8, <1>9

LEMMA InvReadFails ==
    ASSUME LoginInv, NEW c \in Clients, ReadFails(c)
    PROVE  LoginInv'
<1> DEFINE s == [sess[c] EXCEPT !.reading = FALSE]
<1>1. sess[c] \in ServerSession
  BY Together DEF AllSound, Sound, ClientInv, Typed
<1>2. SameServer(sess[c], s)
  BY <1>1 DEF SameServer, ServerSession
<1>3. FatalError(c, s) /\ UNCHANGED <<cl, screen, c2s, max_user_id>>
  BY DEF ReadFails
<1> HIDE DEF s
<1> QED BY <1>2, <1>3, InvFatalError

LEMMA InvWriteFails ==
    ASSUME LoginInv, NEW c \in Clients, WriteFails(c)
    PROVE  LoginInv'
<1>1. SameServer(sess[c], sess[c])
  BY Together DEF AllSound, Sound, ClientInv, Typed, SameServer
<1> QED BY <1>1, InvFatalError DEF WriteFails

-----------------------------------------------------------------------------
(* The steps of a client's network thread.                                 *)

LEMMA Receiving ==
    ASSUME LoginInv, NEW c \in Clients, NEW kind, Receives(c, kind)
    PROVE  /\ ClientInv(sess[c], Opened(c), screen'[c], c2s[c], Tail(s2c[c]))
           /\ screen' = [screen EXCEPT ![c] = screen'[c]]
           /\ s2c' = [s2c EXCEPT ![c] = Tail(s2c[c])]
           /\ max_user_id' = max_user_id /\ login' = login
           /\ sess[c].accepted
           /\ ClientTurnSays(sess[c], Opened(c), Head(s2c[c])) /\ Head(s2c[c]).kind = kind
           /\ kind \in ClientTurn => NoTurn(c2s[c], Tail(s2c[c]))
           /\ Opened(c).encryption <=> cl[c].encryption
<1> DEFINE m == screen[c]
           n == IF kind \in Fetched THEN [m EXCEPT !.command_queue = Append(@, kind)] ELSE m
<1>1. ClientInv(sess[c], cl[c], m, c2s[c], s2c[c]) /\ Shaped
  BY Together DEF AllSound, Sound
<1>2. /\ s2c[c] # <<>> /\ Head(s2c[c]).kind = kind
      /\ s2c' = [s2c EXCEPT ![c] = Tail(s2c[c])]
      /\ screen' = IF kind \in Fetched
                   THEN [screen EXCEPT ![c].command_queue = Append(@, kind)] ELSE screen
      /\ max_user_id' = max_user_id /\ login' = login
  BY DEF Receives
<1>3. Len(s2c[c]) > 0
  <2>1. s2c[c] \in Seq(Wire(ToClient))
    BY <1>1 DEF ClientInv, Typed
  <2> QED BY <1>2, <2>1
<1>4. screen' = [screen EXCEPT ![c] = n]
  BY <1>1, <1>2 DEF Shaped
<1>5. screen'[c] = n
  BY <1>1, <1>4 DEF Shaped
<1>6. n \in Screen /\ n.pending = m.pending /\ n.todo = m.todo
  <2>1. m \in Screen
    BY <1>1 DEF ClientInv, Typed
  <2>2. ASSUME kind \in Fetched
        PROVE  LET q == [m EXCEPT !.command_queue = Append(@, kind)]
               IN  q \in Screen /\ q.pending = m.pending /\ q.todo = m.todo
    <3>1. Append(m.command_queue, kind) \in Seq(Fetched)
      BY <2>1, <2>2 DEF Screen
    <3> HIDE DEF m
    <3> QED BY <2>1, <3>1 DEF Screen
  <2> QED BY <2>1, <2>2
<1>7. NoTurnOf(n)
  <2>1. NoTurnOf(m)
    BY <1>1 DEF ClientInv
  <2> HIDE DEF m, n
  <2> QED BY <1>6, <2>1 DEF NoTurnOf
<1> HIDE DEF m, n
<1>8. /\ ClientInv(sess[c], Opened(c), n, c2s[c], Tail(s2c[c])) /\ sess[c].accepted
      /\ Opened(c).encryption <=> cl[c].encryption
      /\ ClientTurnSays(sess[c], Opened(c), Head(s2c[c]))
      /\ Head(s2c[c]).kind \in ClientTurn => NoTurn(c2s[c], Tail(s2c[c]))
  BY <1>1, <1>3, <1>6, <1>7, ClientTakes DEF Opened
<1> QED BY <1>2, <1>4, <1>5, <1>8, Zenon

(* The thread answers, its session being e before it does.                 *)
LEMMA Replying ==
    ASSUME LoginInv, NEW c \in Clients, NEW kind, Receives(c, kind), NEW e,
           ClientInv(sess[c], e, screen'[c], c2s[c], Tail(s2c[c])), ~e.encryption,
           NEW out \in Commands(ToServer), Len(out) > 0,
           PassesToServer(sess[c], e, c2s[c], Tail(s2c[c]), out), Reply(c, e, out)
    PROVE  LoginInv'
<1> DEFINE l == AfterSealing(e, out)
           u == IF sess[c].open THEN c2s[c] \o Sealed(e, out) ELSE c2s[c]
           m == screen'[c]
           d == Tail(s2c[c])
<1>1. /\ screen' = [screen EXCEPT ![c] = m] /\ s2c' = [s2c EXCEPT ![c] = d]
      /\ max_user_id' = max_user_id /\ login' \subseteq login
  BY Receiving
<1>2. ClientInv(sess[c], l, m, u, d)
  BY ClientSays
<1>3. cl' = [cl EXCEPT ![c] = l] /\ c2s' = [c2s EXCEPT ![c] = u]
  BY Zenon DEF Reply, ClientSends
<1>4. sess' = [sess EXCEPT ![c] = sess[c]]
  <2>1. Shaped
    BY Together
  <2> QED BY <2>1, Zenon DEF Reply, Shaped
<1>5. sess[c].id = sess[c].id
  OBVIOUS
<1> HIDE DEF l, u, m, d
<1> QED BY <1>1, <1>2, <1>3, <1>4, <1>5, OneClient, Zenon

(* The thread does not answer.                                             *)
LEMMA Queueing ==
    ASSUME LoginInv, NEW c \in Clients, NEW kind, Receives(c, kind), NEW l,
           ClientInv(sess[c], l, screen'[c], c2s[c], Tail(s2c[c])),
           cl' = [cl EXCEPT ![c] = l], UNCHANGED <<sess, c2s>>
    PROVE  LoginInv'
<1> DEFINE m == screen'[c]
           d == Tail(s2c[c])
           u == c2s[c]
<1>1. /\ screen' = [screen EXCEPT ![c] = m] /\ s2c' = [s2c EXCEPT ![c] = d]
      /\ max_user_id' = max_user_id /\ login' \subseteq login
  BY Receiving
<1>2. sess' = [sess EXCEPT ![c] = sess[c]] /\ c2s' = [c2s EXCEPT ![c] = u]
  <2>1. Shaped
    BY Together
  <2> QED BY <2>1, Zenon DEF Shaped
<1>3. ClientInv(sess[c], l, m, u, d) /\ sess[c].id = sess[c].id
  OBVIOUS
<1> HIDE DEF u, m, d
<1> QED BY <1>1, <1>2, <1>3, OneClient, Zenon

LEMMA InvRequestedClientInfo ==
    ASSUME LoginInv, NEW c \in Clients, ClientRequestedClientInfo(c)
    PROVE  LoginInv'
<1> DEFINE R == [kind : ToServer, id : Nat]
           a == Command("ServerReceiveClientInfo", 0)
           b == Command("ServerRequestedFullServerInfo", 0)
           out == <<a, b>>
<1>1. /\ Receives(c, "ClientRequestedClientInfo") /\ "ClientRequestedClientInfo" \in ClientTurn
      /\ Reply(c, Opened(c), out)
  BY DEF ClientRequestedClientInfo, ClientTurn
<1>2. /\ ClientInv(sess[c], Opened(c), screen'[c], c2s[c], Tail(s2c[c]))
      /\ ClientTurnSays(sess[c], Opened(c), Head(s2c[c]))
      /\ Head(s2c[c]).kind = "ClientRequestedClientInfo"
      /\ NoTurn(c2s[c], Tail(s2c[c]))
  BY <1>1, Receiving
<1>3. Unknown(sess[c], Opened(c))
  BY <1>2 DEF ClientTurnSays
<1>4. /\ a \in R /\ a.kind = "ServerReceiveClientInfo"
      /\ b \in R /\ b.kind = "ServerRequestedFullServerInfo"
  BY DEF Command, ToServer
<1> HIDE DEF a, b, R
<1>5. out \in Seq(R) /\ Len(out) = 2 /\ out[1] = a /\ out[2] = b
  BY <1>4
<1> HIDE DEF out
<1>6. out \in Commands(ToServer) /\ Len(out) > 0
  BY <1>5 DEF Commands, R
<1>7. PassesToServer(sess[c], Opened(c), c2s[c], Tail(s2c[c]), out)
  <2>1. ServerTurnSays(sess[c], Opened(c), out[1])
    BY <1>3, <1>4, <1>5 DEF ServerTurnSays
  <2>2. \A i \in 1..Len(out) : i > 1 => i = 2
    BY <1>5
  <2>3. b.kind \notin ServerTurn
    BY <1>4 DEF ServerTurn
  <2>4. \A i \in 1..Len(out) : i > 1 => out[i].kind \notin ServerTurn
    BY <1>5, <2>2, <2>3
  <2> QED BY <1>2, <2>1, <2>4 DEF PassesToServer
<1>8. ~Opened(c).encryption
  BY <1>3 DEF Unknown, Plain
<1> QED BY <1>1, <1>2, <1>6, <1>7, <1>8, Replying

LEMMA InvRequestedPublicKey ==
    ASSUME LoginInv, NEW c \in Clients, ClientRequestedPublicKey(c)
    PROVE  LoginInv'
<1> DEFINE out == <<Command("ServerReceivePublicKey", 0)>>
<1>1. /\ Receives(c, "ClientRequestedPublicKey") /\ "ClientRequestedPublicKey" \in ClientTurn
      /\ Reply(c, Opened(c), out)
  BY DEF ClientRequestedPublicKey, ClientTurn
<1>2. /\ ClientInv(sess[c], Opened(c), screen'[c], c2s[c], Tail(s2c[c]))
      /\ ClientTurnSays(sess[c], Opened(c), Head(s2c[c]))
      /\ Head(s2c[c]).kind = "ClientRequestedPublicKey"
      /\ NoTurn(c2s[c], Tail(s2c[c]))
  BY <1>1, Receiving
<1>3. Unknown(sess[c], Opened(c))
  BY <1>2 DEF ClientTurnSays
<1>4. /\ out \in Commands(ToServer) /\ Len(out) = 1
      /\ out[1].kind = "ServerReceivePublicKey"
  <2>1. "ServerReceivePublicKey" \in ToServer
    BY DEF ToServer
  <2> QED BY <2>1, CommandFacts
<1> HIDE DEF out
<1>5. PassesToServer(sess[c], Opened(c), c2s[c], Tail(s2c[c]), out)
  <2>1. ServerTurnSays(sess[c], Opened(c), out[1])
    BY <1>3, <1>4 DEF ServerTurnSays
  <2>2. \A i \in 1..Len(out) : ~(i > 1)
    BY <1>4
  <2> QED BY <1>2, <2>1, <2>2 DEF PassesToServer
<1>6. ~Opened(c).encryption /\ Len(out) > 0
  BY <1>3, <1>4 DEF Unknown, Plain
<1> QED BY <1>1, <1>2, <1>4, <1>5, <1>6, Replying

LEMMA InvReceiveCommonKey ==
    ASSUME LoginInv, NEW c \in Clients, ClientReceiveCommonKey(c)
    PROVE  LoginInv'
<1> DEFINE k == Opened(c)
           e == [k EXCEPT !.id = Head(s2c[c]).id, !.keyed = TRUE]
           d == Tail(s2c[c])
           out == KeyReply
<1>1. /\ Receives(c, "ClientReceiveCommonKey") /\ "ClientReceiveCommonKey" \in ClientTurn
      /\ Reply(c, e, out)
  BY DEF ClientReceiveCommonKey, ClientTurn
<1>2. /\ ClientInv(sess[c], k, screen'[c], c2s[c], d) /\ sess[c].accepted
      /\ ClientTurnSays(sess[c], k, Head(s2c[c]))
      /\ Head(s2c[c]).kind = "ClientReceiveCommonKey"
      /\ NoTurn(c2s[c], d)
  BY <1>1, Receiving
<1>3. Head(s2c[c]).id = sess[c].id /\ Plain(sess[c], k)
  BY <1>2 DEF ClientTurnSays
<1>4. k \in ClientSession /\ sess[c].id \in Nat
  <2>1. k \in ClientSession /\ sess[c] \in ServerSession
    BY <1>2 DEF ClientInv, Typed
  <2> QED BY <2>1 DEF ServerSession
<1> HIDE DEF k
<1>5. /\ e \in ClientSession /\ e.keyed /\ e.id = sess[c].id
      /\ e.up <=> k.up
      /\ e.encryption <=> k.encryption
      /\ e.sealed = k.sealed /\ e.unsealed = k.unsealed
  BY <1>3, <1>4 DEF ClientSession
<1> HIDE DEF e, d
<1>6. ClientInv(sess[c], e, screen'[c], c2s[c], d)
  BY <1>2, <1>5, ClientKeyed
<1>7. /\ out \in Commands(ToServer) /\ Len(out) = 1
      /\ out[1].kind = "ServerStartEncryptedSession"
  <2>1. "ServerStartEncryptedSession" \in ToServer
    BY DEF ToServer
  <2> QED BY <2>1, CommandFacts DEF KeyReply
<1> HIDE DEF out
<1>8. ~e.encryption /\ Plain(sess[c], e) /\ Len(out) > 0
  BY <1>3, <1>5, <1>7 DEF Plain
<1>9. PassesToServer(sess[c], e, c2s[c], d, out)
  <2>1. ServerTurnSays(sess[c], e, out[1])
    BY <1>5, <1>7, <1>8 DEF ServerTurnSays
  <2>2. \A i \in 1..Len(out) : ~(i > 1)
    BY <1>7
  <2> QED BY <1>2, <2>1, <2>2 DEF PassesToServer
<1> QED BY <1>1, <1>6, <1>7, <1>8, <1>9, Replying DEF d

LEMMA InvClientStartEncryptedSession ==
    ASSUME LoginInv, NEW c \in Clients, ClientStartEncryptedSession(c)
    PROVE  LoginInv'
<1> DEFINE k == Opened(c)
           l == [k EXCEPT !.encryption = TRUE]
           d == Tail(s2c[c])
<1>1. /\ Receives(c, "ClientStartEncryptedSession") /\ "ClientStartEncryptedSession" \in ClientTurn
      /\ cl' = [cl EXCEPT ![c] = l] /\ UNCHANGED <<sess, c2s>>
  BY DEF ClientStartEncryptedSession, ClientTurn
<1>2. /\ ClientInv(sess[c], k, screen'[c], c2s[c], d) /\ sess[c].accepted
      /\ ClientTurnSays(sess[c], k, Head(s2c[c]))
      /\ Head(s2c[c]).kind = "ClientStartEncryptedSession"
      /\ NoTurn(c2s[c], d)
  BY <1>1, Receiving
<1>3. k.keyed
  BY <1>2 DEF ClientTurnSays
<1>4. k \in ClientSession
  BY <1>2 DEF ClientInv, Typed
<1> HIDE DEF k
<1>5. /\ l \in ClientSession /\ l.encryption
      /\ l.up <=> k.up
      /\ l.keyed <=> k.keyed
      /\ l.id = k.id /\ l.sealed = k.sealed /\ l.unsealed = k.unsealed
  BY <1>4 DEF ClientSession
<1> HIDE DEF l, d
<1>6. ClientInv(sess[c], l, screen'[c], c2s[c], d)
  BY <1>2, <1>3, <1>5, ClientEncrypts
<1> QED BY <1>1, <1>6, Queueing DEF d

LEMMA InvClientQueues ==
    ASSUME LoginInv, NEW c \in Clients, ClientQueues(c)
    PROVE  LoginInv'
<1>1. PICK kind : /\ Receives(c, kind) /\ cl' = [cl EXCEPT ![c] = Opened(c)]
                  /\ UNCHANGED <<sess, c2s>>
  BY DEF ClientQueues
<1>2. ClientInv(sess[c], Opened(c), screen'[c], c2s[c], Tail(s2c[c]))
  BY <1>1, Receiving
<1> QED BY <1>1, <1>2, Queueing

LEMMA InvClientReadFails ==
    ASSUME LoginInv, NEW c \in Clients, ClientReadFails(c)
    PROVE  LoginInv'
<1> DEFINE k == cl[c]
           l == [k EXCEPT !.online = FALSE]
           m == screen[c]
           n == [m EXCEPT !.command_queue = Append(@, "FatalConnectionError")]
           u == c2s[c]
           d == s2c[c]
<1>1. ClientInv(sess[c], k, m, u, d) /\ Shaped
  BY Together DEF AllSound, Sound
<1>2. sess[c] \in ServerSession /\ k \in ClientSession /\ m \in Screen /\ NoTurnOf(m)
  BY <1>1 DEF ClientInv, Typed
<1>3. SameServer(sess[c], sess[c])
  BY <1>2 DEF SameServer
<1>4. cl' = [cl EXCEPT ![c] = l] /\ screen' = [screen EXCEPT ![c] = n]
  BY DEF ClientReadFails
<1>5. /\ sess' = [sess EXCEPT ![c] = sess[c]] /\ c2s' = [c2s EXCEPT ![c] = u]
      /\ s2c' = [s2c EXCEPT ![c] = d]
  BY <1>1, Zenon DEF ClientReadFails, Shaped
<1>6. max_user_id' = max_user_id /\ login' \subseteq login
  BY DEF ClientReadFails
<1> HIDE DEF k, m
<1>7. SameClient(k, l)
  BY <1>2 DEF SameClient, ClientSession
<1>8. n \in Screen /\ n.pending = m.pending /\ n.todo = m.todo
  <2>1. Append(m.command_queue, "FatalConnectionError") \in Seq(Fetched)
    BY <1>2 DEF Screen, Fetched
  <2> QED BY <1>2, <2>1 DEF Screen
<1> HIDE DEF l, n
<1>9. NoTurnOf(n)
  BY <1>2, <1>8 DEF NoTurnOf
<1>10. ClientInv(sess[c], l, n, u, d) /\ sess[c].id = sess[c].id
  BY <1>1, <1>3, <1>7, <1>8, <1>9, Irrelevant
<1> HIDE DEF u, d
<1> QED BY <1>4, <1>5, <1>6, <1>10, OneClient, Zenon

-----------------------------------------------------------------------------
(* The steps of a client's main thread.                                    *)

LEMMA InvDestroyClient ==
    ASSUME LoginInv, NEW c \in Clients, cl[c].up, DestroyClient(c)
    PROVE  LoginInv'
<1> DEFINE k == cl[c]
           l == [k EXCEPT !.up = FALSE]
           m == screen[c]
           n == [m EXCEPT !.command_queue = <<>>, !.todo = <<>>, !.pending = <<>>]
<1>1. ClientInv(sess[c], k, m, c2s[c], s2c[c]) /\ Shaped
  BY Together DEF AllSound, Sound
<1>2. k \in ClientSession /\ m \in Screen
  BY <1>1 DEF ClientInv, Typed
<1>3. /\ cl' = [cl EXCEPT ![c] = l] /\ screen' = [screen EXCEPT ![c] = n]
      /\ s2c' = [s2c EXCEPT ![c] = <<>>]
  BY DEF DestroyClient
<1>4. PICK i \in 0..Len(c2s[c]) : c2s' = [c2s EXCEPT ![c] = SubSeq(c2s[c], 1, i)]
  BY DEF DestroyClient
<1>5. sess' = [sess EXCEPT ![c] = sess[c]]
  BY <1>1, Zenon DEF DestroyClient, Shaped
<1>6. max_user_id' = max_user_id /\ login' \subseteq login
  BY DEF DestroyClient
<1>7. k.up
  OBVIOUS
<1> HIDE DEF k, m
<1>8. /\ l \in ClientSession /\ ~l.up
      /\ l.keyed <=> k.keyed
      /\ l.encryption <=> k.encryption
      /\ l.id = k.id /\ l.sealed = k.sealed /\ l.unsealed = k.unsealed
  BY <1>2 DEF ClientSession
<1>9. n \in Screen /\ n.pending = <<>> /\ n.todo = <<>>
  <2>1. /\ <<>> \in Seq(Fetched) /\ <<>> \in Seq(ToServer) /\ <<>> \in Seq(Wire(ToServer))
    OBVIOUS
  <2> QED BY <1>2, <2>1 DEF Screen
<1> HIDE DEF l, n
<1>10. ClientInv(sess[c], l, n, SubSeq(c2s[c], 1, i), <<>>) /\ sess[c].id = sess[c].id
  BY <1>1, <1>7, <1>8, <1>9, ClientDestroyed
<1> QED BY <1>3, <1>4, <1>5, <1>6, <1>10, OneClient

(* Only the scene and the queues of the main thread change.                *)
AllElse == UNCHANGED <<sess, cl, c2s, s2c, login, max_user_id>>

LEMMA ScreenOnly ==
    ASSUME LoginInv, NEW c \in Clients, NEW n, n \in Screen, n.pending = screen[c].pending,
           \A i \in 1..Len(n.todo) : n.todo[i] \notin ServerTurn,
           screen' = [screen EXCEPT ![c] = n],
           AllElse
    PROVE  LoginInv'
<1> DEFINE s == sess[c]
           k == cl[c]
           m == screen[c]
           u == c2s[c]
           d == s2c[c]
<1>1. ClientInv(s, k, m, u, d) /\ Shaped
  BY Together DEF AllSound, Sound
<1>2. s \in ServerSession /\ k \in ClientSession /\ NoTurnOf(m)
  BY <1>1 DEF ClientInv, Typed
<1>3. /\ sess' = [sess EXCEPT ![c] = s] /\ cl' = [cl EXCEPT ![c] = k]
      /\ c2s' = [c2s EXCEPT ![c] = u] /\ s2c' = [s2c EXCEPT ![c] = d]
  BY <1>1, Zenon DEF Shaped, AllElse
<1>4. max_user_id' = max_user_id /\ login' \subseteq login
  BY DEF AllElse
<1>5. n.pending = m.pending /\ s.id = sess[c].id
  OBVIOUS
<1> HIDE DEF s, k, m, u, d
<1>6. SameServer(s, s) /\ SameClient(k, k)
  BY <1>2 DEF SameServer, SameClient
<1>7. NoTurnOf(n)
  BY <1>2, <1>5 DEF NoTurnOf
<1>8. ClientInv(s, k, n, u, d)
  BY <1>1, <1>5, <1>6, <1>7, Irrelevant
<1>9. screen' = [screen EXCEPT ![c] = n]
  OBVIOUS
<1> QED BY <1>3, <1>4, <1>5, <1>8, <1>9, OneClient, Zenon

LEMMA InvFetchCommand ==
    ASSUME LoginInv, NEW c \in Clients, FetchCommand(c)
    PROVE  LoginInv'
<1> DEFINE m == screen[c]
           kind == Head(m.command_queue)
           q == [m EXCEPT !.command_queue = Tail(m.command_queue)]
           n == IF kind = "ClientStartEncryptedSession"
                THEN [q EXCEPT !.todo = <<"ServerReceiveAccountInitializeData">>]
                ELSE IF kind = "ClientReceiveFullServerInfo" /\ q.scene = "Connect"
                THEN [q EXCEPT !.scene = "ChannelChange"]
                ELSE q
<1>1. cl[c].up /\ m.command_queue # <<>> /\ m.todo = <<>>
  BY DEF FetchCommand
<1>2. CASE DestroyClient(c)
  BY <1>1, <1>2, InvDestroyClient
<1>3. CASE /\ screen' = [screen EXCEPT ![c] = n]
           /\ UNCHANGED <<sess, cl, c2s, s2c, login, max_user_id>>
  <2>1. m \in Screen
    BY Together DEF AllSound, Sound, ClientInv, Typed
  <2>2. Tail(m.command_queue) \in Seq(Fetched)
    BY <1>1, <2>1 DEF Screen
  <2> DEFINE init == <<"ServerReceiveAccountInitializeData">>
  <2>3. /\ init \in Seq(ToServer) /\ Len(init) = 1
        /\ \A i \in 1..Len(init) : init[i] \notin ServerTurn
    BY DEF ToServer, ServerTurn
  <2> HIDE DEF m, init
  <2>4. q \in Screen /\ q.pending = m.pending /\ q.todo = <<>>
    BY <1>1, <2>1, <2>2 DEF Screen, m
  <2> HIDE DEF q
  <2>5. LET r == [q EXCEPT !.todo = init]
        IN  r \in Screen /\ r.pending = q.pending /\ r.todo = init
    BY <2>3, <2>4 DEF Screen
  <2>6. LET r == [q EXCEPT !.scene = "ChannelChange"]
        IN  r \in Screen /\ r.pending = q.pending /\ r.todo = q.todo
    BY <2>4 DEF Screen
  <2>7. /\ n \in Screen /\ n.pending = m.pending
        /\ n.todo = init \/ n.todo = <<>>
    BY <2>4, <2>5, <2>6, Zenon DEF init
  <2> HIDE DEF n
  <2>8. \A i \in 1..Len(n.todo) : n.todo[i] \notin ServerTurn
    <3>1. CASE n.todo = init
      BY <2>3, <3>1, Zenon
    <3>2. CASE n.todo = <<>>
      BY <3>2
    <3> QED BY <2>7, <3>1, <3>2
  <2>9. screen' = [screen EXCEPT ![c] = n] /\ n.pending = screen[c].pending
    BY <1>3, <2>7 DEF m, n
  <2>10. AllElse
    BY <1>3 DEF AllElse
  <2> QED BY <2>7, <2>8, <2>9, <2>10, ScreenOnly
<1> QED BY <1>2, <1>3, Zenon DEF FetchCommand

LEMMA InvChannelChange ==
    ASSUME LoginInv, NEW c \in Clients, ChannelChange(c)
    PROVE  LoginInv'
<1> DEFINE m == screen[c]
           updates == [i \in 1..MaxUpdates |-> "ServerUpdateAccountProperty"]
           n == [m EXCEPT !.scene = "MainLoop", !.todo = updates]
<1>1. /\ screen' = [screen EXCEPT ![c] = n]
      /\ AllElse
  BY DEF ChannelChange, AllElse
<1>2. m \in Screen
  BY Together DEF AllSound, Sound, ClientInv, Typed
<1>3. /\ updates \in Seq(ToServer)
      /\ \A i \in 1..Len(updates) : updates[i] \notin ServerTurn
  <2>1. MaxUpdates \in Nat
    BY LoginAssumption
  <2>2. updates \in [1..MaxUpdates -> ToServer]
    BY DEF ToServer
  <2>3. updates \in Seq(ToServer) /\ Len(updates) = MaxUpdates
    BY <2>1, <2>2, FunctionIsSeq
  <2>4. \A i \in 1..MaxUpdates : updates[i] \notin ServerTurn
    BY DEF ServerTurn
  <2> QED BY <2>3, <2>4
<1> HIDE DEF m, updates
<1>4. n \in Screen /\ n.pending = m.pending /\ n.todo = updates
  BY <1>2, <1>3 DEF Screen
<1> HIDE DEF n
<1> QED BY <1>1, <1>3, <1>4, ScreenOnly DEF m

LEMMA InvSerialize ==
    ASSUME LoginInv, NEW c \in Clients, Serialize(c)
    PROVE  LoginInv'
<1> DEFINE s == sess[c]
           k == cl[c]
           m == screen[c]
           u == c2s[c]
           d == s2c[c]
           out == <<Command(Head(m.todo), 0)>>
           n == [m EXCEPT !.todo = Tail(m.todo), !.pending = Sealed(k, out)]
           l == AfterSealing(k, out)
<1>1. ClientInv(s, k, m, u, d) /\ Shaped
  BY Together DEF AllSound, Sound
<1>2. k \in ClientSession /\ m \in Screen /\ NoTurnOf(m)
  BY <1>1 DEF ClientInv, Typed
<1>3. k.up /\ m.todo # <<>> /\ m.pending = <<>>
  BY DEF Serialize
<1>4. screen' = [screen EXCEPT ![c] = n] /\ cl' = [cl EXCEPT ![c] = l]
  <2>1. screen' = [screen EXCEPT ![c] = n]
    BY Zenon DEF Serialize
  <2>2. cl' = [cl EXCEPT ![c] = l]
    BY Zenon DEF Serialize
  <2> QED BY <2>1, <2>2
<1>5. /\ sess' = [sess EXCEPT ![c] = s]
      /\ c2s' = [c2s EXCEPT ![c] = u] /\ s2c' = [s2c EXCEPT ![c] = d]
  BY <1>1, Zenon DEF Serialize, Shaped
<1>6. max_user_id' = max_user_id /\ login' \subseteq login /\ s.id = sess[c].id
  BY DEF Serialize
<1> HIDE DEF s, k, m, u, d
<1>7. /\ Len(m.todo) > 0 /\ Head(m.todo) \in ToServer /\ Head(m.todo) \notin ServerTurn
      /\ Tail(m.todo) \in Seq(ToServer)
      /\ \A i \in 1..Len(Tail(m.todo)) : Tail(m.todo)[i] \notin ServerTurn
  <2>1. m.todo \in Seq(ToServer)
    BY <1>2 DEF Screen
  <2>2. \A i \in 1..Len(m.todo) : m.todo[i] \notin ServerTurn
    BY <1>2 DEF NoTurnOf
  <2> DEFINE x == m.todo
  <2>3. x \in Seq(ToServer) /\ x # <<>> /\ \A i \in 1..Len(x) : x[i] \notin ServerTurn
    BY <1>3, <2>1, <2>2
  <2> HIDE DEF x
  <2>4. Len(x) > 0 /\ 1 \in 1..Len(x)
    BY <2>3
  <2>5. /\ Tail(x) \in Seq(ToServer) /\ Head(x) = x[1] /\ x[1] \in ToServer
        /\ \A i \in 1..Len(Tail(x)) : Tail(x)[i] = x[i + 1] /\ i + 1 \in 1..Len(x)
    BY <2>3, <2>4, TailFacts
  <2>6. /\ Len(x) > 0 /\ Head(x) \in ToServer /\ Head(x) \notin ServerTurn
        /\ Tail(x) \in Seq(ToServer)
        /\ \A i \in 1..Len(Tail(x)) : Tail(x)[i] \notin ServerTurn
    BY <2>3, <2>4, <2>5
  <2> QED BY <2>6 DEF x
<1>8. out \in Commands(ToServer) /\ Len(out) = 1 /\ out[1].kind \notin ServerTurn
  BY <1>7, CommandFacts
<1> HIDE DEF out
<1>9. n \in Screen /\ n.pending = Sealed(k, out) /\ n.todo = Tail(m.todo)
  <2>1. k.encryption \in BOOLEAN /\ k.sealed \in Nat
    BY <1>2 DEF ClientSession
  <2>2. Sealed(k, out) \in Seq(Wire(ToServer))
    BY <1>8, <2>1, SealedFacts
  <2> QED BY <1>2, <1>7, <2>2 DEF Screen
<1> HIDE DEF n
<1>10. ClientInv(s, l, n, u, d)
  <2>1. \A i \in 1..Len(n.todo) : n.todo[i] \notin ServerTurn
    BY <1>7, <1>9, Zenon
  <2> QED BY <1>1, <1>3, <1>8, <1>9, <2>1, MainSerializes
<1> HIDE DEF l
<1> QED BY <1>4, <1>5, <1>6, <1>10, OneClient, Zenon

LEMMA InvPost ==
    ASSUME LoginInv, NEW c \in Clients, Post(c)
    PROVE  LoginInv'
<1> DEFINE s == sess[c]
           k == cl[c]
           m == screen[c]
           y == m.pending
           u == IF s.open THEN c2s[c] \o y ELSE c2s[c]
           d == s2c[c]
           n == [m EXCEPT !.pending = <<>>]
<1>1. ClientInv(s, k, m, c2s[c], d) /\ Shaped
  BY Together DEF AllSound, Sound
<1>2. m \in Screen
  BY <1>1 DEF ClientInv, Typed
<1>3. k.up /\ y # <<>>
  BY DEF Post
<1>4. screen' = [screen EXCEPT ![c] = n] /\ c2s' = [c2s EXCEPT ![c] = u]
  BY DEF Post
<1>5. /\ sess' = [sess EXCEPT ![c] = s] /\ cl' = [cl EXCEPT ![c] = k]
      /\ s2c' = [s2c EXCEPT ![c] = d]
  BY <1>1, Zenon DEF Post, Shaped
<1>6. max_user_id' = max_user_id /\ login' \subseteq login /\ s.id = sess[c].id /\ y = m.pending
  BY DEF Post
<1> HIDE DEF s, k, m, d
<1>7. n \in Screen /\ n.pending = <<>> /\ n.todo = m.todo
  <2>1. <<>> \in Seq(Wire(ToServer))
    OBVIOUS
  <2> QED BY <1>2, <2>1 DEF Screen
<1> HIDE DEF n, y
<1>8. ClientInv(s, k, n, u, d)
  BY <1>1, <1>3, <1>6, <1>7, MainPosts
<1> HIDE DEF u
<1> QED BY <1>4, <1>5, <1>6, <1>8, OneClient, Zenon

-----------------------------------------------------------------------------
(* All steps.                                                              *)

LEMMA LoginInit == Init => LoginInv
<1> SUFFICES ASSUME Init PROVE LoginInv
  OBVIOUS
<1>1. Shaped
  BY DEF Init, Shaped
<1>2. Numbers
  BY DEF Init, Numbers
<1>3. ASSUME NEW c \in Clients PROVE Sound(c)
  <2> DEFINE s == sess[c]
             k == cl[c]
             m == screen[c]
  <2>1. /\ s \in ServerSession /\ ~s.accepted /\ ~s.open /\ ~s.refused /\ ~s.encryption
        /\ s.id = 0 /\ s.sealed = 0 /\ s.unsealed = 0
    BY DEF Init, ServerSession
  <2>2. /\ k \in ClientSession /\ ~k.up /\ ~k.encryption
        /\ k.id = 0 /\ k.sealed = 0 /\ k.unsealed = 0
    BY DEF Init, ClientSession
  <2>3. m \in Screen /\ m.pending = <<>> /\ m.todo = <<>>
    BY DEF Init, Screen
  <2>4. c2s[c] = <<>> /\ s2c[c] = <<>>
    BY DEF Init
  <2> HIDE DEF s, k, m
  <2>5. Typed(s, k, m, <<>>, <<>>) /\ Fresh(s, k, m, <<>>, <<>>)
    BY <2>1, <2>2, <2>3 DEF Typed, Fresh
  <2>6. Len(<<>>) = 0 /\ AllPlain(<<>>)
    BY DEF AllPlain
  <2>7. Turns(s, k, <<>>, <<>>) /\ NoTurnOf(m)
    BY <2>3, <2>6, NoTurnSays DEF NoTurn, NoTurnOf
  <2>8. Standing(s, k, <<>>)
    BY <2>1, <2>2 DEF Standing
  <2>9. Numbered(<<>>, 0)
    BY <2>6 DEF Numbered
  <2>10. UpLine(s, k, m, <<>>)
    BY <2>1, <2>2, <2>3, <2>6, <2>9 DEF UpLine
  <2>11. DownLine(s, k, <<>>)
    BY <2>1, <2>2, <2>6, <2>9 DEF DownLine
  <2>12. ClientInv(s, k, m, <<>>, <<>>)
    BY <2>5, <2>7, <2>8, <2>10, <2>11 DEF ClientInv
  <2> QED BY <2>4, <2>12 DEF Sound, s, k, m
<1> QED BY <1>1, <1>2, <1>3, Together DEF AllSound

LEMMA LoginNext == LoginInv /\ [Next]_vars => LoginInv'
<1> SUFFICES ASSUME LoginInv, [Next]_vars PROVE LoginInv'
  OBVIOUS
<1>1. ASSUME NEW c \in Clients, ReceiveSession(c) PROVE LoginInv'
  BY <1>1, InvReceiveSession
<1>2. ASSUME NEW c \in Clients, ServerStep(c) PROVE LoginInv'
  BY <1>2, InvReceiveClientInfo, InvRequestedFullServerInfo, InvReceivePublicKey,
     InvStartEncryptedSession, InvInitializeData, InvUpdateAccountProperty,
     InvReadFails, InvWriteFails DEF ServerStep
<1>3. ASSUME NEW c \in Clients, NetworkStep(c) PROVE LoginInv'
  BY <1>3, InvRequestedClientInfo, InvRequestedPublicKey, InvReceiveCommonKey,
     InvClientStartEncryptedSession, InvClientQueues, InvClientReadFails DEF NetworkStep
<1>4. ASSUME NEW c \in Clients, MainStep(c) PROVE LoginInv'
  BY <1>4, InvFetchCommand, InvChannelChange, InvSerialize, InvPost DEF MainStep
<1>5. ASSUME NEW c \in Clients, Quit(c) PROVE LoginInv'
  BY <1>5, InvDestroyClient DEF Quit
<1>6. CASE Next
  BY <1>1, <1>2, <1>3, <1>4, <1>5, <1>6 DEF Next
<1>7. CASE UNCHANGED vars
  BY <1>7 DEF vars, LoginInv, TypeOK
<1> QED BY <1>6, <1>7

LEMMA LoginIsKept == Spec => []LoginInv
BY LoginInit, LoginNext, PTL DEF Spec

(* A refused client never gets an id.                                      *)
LEMMA RefusedAreOut == LoginInv => RefusedStaysOut
BY Zenon DEF LoginInv, ClientInv, Standing, RefusedStaysOut

(* The ends of a session agree on the id, which is nobody else's.          *)
LEMMA IdsAreAgreed == LoginInv => IdsAgree
<1> SUFFICES ASSUME LoginInv PROVE IdsAgree
  OBVIOUS
<1>1. \A c \in Clients : cl[c].id > 0 => cl[c].id = sess[c].id
  BY DEF LoginInv, ClientInv, Standing
<1>2. \A c, d \in Clients : c # d /\ sess[c].id > 0 => sess[c].id # sess[d].id
  BY DEF LoginInv
<1> QED BY <1>1, <1>2 DEF IdsAgree

(* What is next on a connection can be decrypted.                          *)
LEMMA AllIsDecryptable == LoginInv => Decryptable
<1> SUFFICES ASSUME LoginInv, NEW c \in Clients
             PROVE  /\ c2s[c] # <<>> /\ Head(c2s[c]).cipher > 0
                         => Head(c2s[c]).cipher = sess[c].unsealed + 1 /\ cl[c].keyed
                    /\ s2c[c] # <<>> /\ Head(s2c[c]).cipher > 0
                         => Head(s2c[c]).cipher = cl[c].unsealed + 1 /\ cl[c].keyed
  BY DEF Decryptable
<1> DEFINE s == sess[c]
           k == cl[c]
           u == c2s[c]
           d == s2c[c]
<1>1. ClientInv(s, k, screen[c], u, d)
  BY DEF LoginInv
<1>2. k \in ClientSession /\ u \in Seq(Wire(ToServer)) /\ d \in Seq(Wire(ToClient))
  BY <1>1 DEF ClientInv, Typed
<1> HIDE DEF s, k, u, d
<1>3. ASSUME u # <<>>, Head(u).cipher > 0
      PROVE  Head(u).cipher = s.unsealed + 1 /\ k.keyed
  <2>1. Len(u) > 0
    BY <1>2, <1>3
  <2> QED BY <1>1, <1>3, <2>1, ServerTakes
<1>4. ASSUME d # <<>>, Head(d).cipher > 0
      PROVE  Head(d).cipher = k.unsealed + 1 /\ k.keyed
  <2>1. Len(d) > 0
    BY <1>2, <1>4
  <2>2. k.unsealed \in Nat
    BY <1>2 DEF ClientSession
  <2>3. Numbered(d, k.unsealed)
    BY <1>1 DEF ClientInv, DownLine
  <2>4. /\ Head(d).cipher = k.unsealed + 1
        /\ AllPlain(d) => Head(d).cipher = 0
    BY <1>2, <1>4, <2>1, <2>2, <2>3, NumberedTail
  <2>5. ~AllPlain(d)
    BY <1>4, <2>4
  <2>6. s.encryption
    BY <1>1, <2>5, Zenon DEF ClientInv, DownLine
  <2>7. k.keyed
    BY <1>1, <2>6, Zenon DEF ClientInv, Standing
  <2> QED BY <2>4, <2>7
<1> QED BY <1>3, <1>4, Zenon DEF s, k, u, d

-----------------------------------------------------------------------------
(* No data goes astray: what is behind what.  The handshake's turns do not *)
(* say it, since ClientReceiveFullServerInfo is none of them.              *)

Data == {"ServerUpdateAccountProperty", "ServerReceiveAccountInitializeData"}
Key == {"ServerReceivePublicKey"}
Info == {"ClientReceiveFullServerInfo"}
Answered == {"ClientRequestedPublicKey", "ClientReceiveServerCrowdedError",
             "ClientReceiveUnsupportVersionError"}

(* Every message of A is behind one of B.                                  *)
Has(x, A) == \E p \in 1..Len(x) : x[p].kind \in A
Behind(x, A, B) ==
    \A q \in 1..Len(x) : x[q].kind \in A => \E p \in 1..(q - 1) : x[p].kind \in B

(* The main thread will destroy the client, and is told of the server only *)
(* after that.                                                             *)
Doomed(queue) == \E p \in 1..Len(queue) : EndsConnection(queue[p])
ToldBehind(queue) ==
    \A q \in 1..Len(queue) : queue[q] \in Info => \E p \in 1..(q - 1) : EndsConnection(queue[p])

(* What there is of a client that may send but has not sent its key: the   *)
(* information about the server is behind the first question for the key,  *)
(* or the refusal, on its whole way, first as the question for it, then as *)
(* the answer, then in the queue of the main thread.                       *)
NotAsked(m, u, d) ==
    /\ m.scene = "Connect" /\ m.todo = <<>> /\ m.pending = <<>>
    /\ ToldBehind(m.command_queue)
    /\ ~Doomed(m.command_queue) => Behind(d, Info, Answered)
    /\ ~Doomed(m.command_queue) /\ ~Has(d, Answered) =>
          Behind(u, {"ServerRequestedFullServerInfo"}, {"ServerReceiveClientInfo"})

Started(queue) == \E p \in 1..Len(queue) : queue[p] = "ClientStartEncryptedSession"

Ordered(s, k, m, u, d) ==
    /\ k.keyed => s.id > 0
    /\ Started(m.command_queue) => k.keyed
    /\ s.id > 0 \/ Behind(u, Data, Key)
    /\ ~s.accepted => m.scene = "Connect" /\ m.command_queue = <<>> /\ m.todo = <<>>
    /\ s.open /\ k.up /\ ~(s.id > 0) /\ ~Has(u, Key) => NotAsked(m, u, d)

LEMMA TailBehind ==
    ASSUME NEW S, NEW x \in Seq(S), Len(x) > 0, NEW A, NEW B
    PROVE  /\ Has(Tail(x), A) => Has(x, A)
           /\ Has(x, A) /\ x[1].kind \notin A => Has(Tail(x), A)
           /\ Behind(x, A, B) /\ x[1].kind \notin B => Behind(Tail(x), A, B)
<1>1. /\ Tail(x) \in Seq(S) /\ Len(Tail(x)) = Len(x) - 1 /\ Len(x) \in Nat
      /\ \A i \in 1..Len(Tail(x)) : Tail(x)[i] = x[i + 1] /\ i + 1 \in 1..Len(x)
  BY TailFacts
<1>2. ASSUME Has(Tail(x), A) PROVE Has(x, A)
  BY <1>1, <1>2 DEF Has
<1>3. ASSUME Has(x, A), x[1].kind \notin A PROVE Has(Tail(x), A)
  <2>1. PICK p \in 1..Len(x) : x[p].kind \in A
    BY <1>3 DEF Has
  <2>2. p - 1 \in 1..Len(Tail(x)) /\ (p - 1) + 1 = p
    BY <1>1, <1>3, <2>1
  <2>3. Tail(x)[p - 1] = x[(p - 1) + 1]
    BY <1>1, <2>2
  <2> QED BY <2>1, <2>2, <2>3 DEF Has
<1>4. ASSUME Behind(x, A, B), x[1].kind \notin B,
             NEW q \in 1..Len(Tail(x)), Tail(x)[q].kind \in A
      PROVE  \E p \in 1..(q - 1) : Tail(x)[p].kind \in B
  <2>1. q + 1 \in 1..Len(x) /\ x[q + 1].kind \in A
    BY <1>1, <1>4
  <2>2. PICK p \in 1..((q + 1) - 1) : x[p].kind \in B
    BY <1>4, <2>1 DEF Behind
  <2>3. p - 1 \in 1..(q - 1) /\ p - 1 \in 1..Len(Tail(x)) /\ (p - 1) + 1 = p
    BY <1>1, <1>4, <2>2
  <2>4. Tail(x)[p - 1] = x[(p - 1) + 1]
    BY <1>1, <2>3
  <2> QED BY <2>2, <2>3, <2>4
<1> QED BY <1>2, <1>3, <1>4 DEF Behind

LEMMA ConcatBehind ==
    ASSUME NEW S, NEW x \in Seq(S), NEW y \in Seq(S), NEW A, NEW B
    PROVE  /\ Has(x \o y, A) <=> Has(x, A) \/ Has(y, A)
           /\ Behind(x, A, B) /\ (Has(x, B) \/ Behind(y, A, B)) => Behind(x \o y, A, B)
<1> DEFINE z == x \o y
<1>1. /\ z \in Seq(S) /\ Len(z) = Len(x) + Len(y) /\ Len(x) \in Nat /\ Len(y) \in Nat
      /\ \A i \in 1..Len(x) : i \in 1..Len(z) /\ z[i] = x[i]
      /\ \A i \in 1..Len(y) : i + Len(x) \in 1..Len(z) /\ z[i + Len(x)] = y[i]
      /\ \A i \in 1..Len(z) : i > Len(x) =>
            i - Len(x) \in 1..Len(y) /\ z[i] = y[i - Len(x)]
      /\ \A i \in 1..Len(z) : i <= Len(x) => i \in 1..Len(x)
  BY ConcatFacts
<1> HIDE DEF z
<1>2. Has(z, A) <=> Has(x, A) \/ Has(y, A)
  <2>1. ASSUME NEW p \in 1..Len(z), z[p].kind \in A PROVE Has(x, A) \/ Has(y, A)
    <3>1. CASE p <= Len(x)
      BY <1>1, <2>1, <3>1 DEF Has
    <3>2. CASE p > Len(x)
      BY <1>1, <2>1, <3>2 DEF Has
    <3> QED BY <1>1, <3>1, <3>2
  <2>2. ASSUME NEW p \in 1..Len(x), x[p].kind \in A PROVE Has(z, A)
    BY <1>1, <2>2 DEF Has
  <2>3. ASSUME NEW p \in 1..Len(y), y[p].kind \in A PROVE Has(z, A)
    BY <1>1, <2>3 DEF Has
  <2> QED BY <2>1, <2>2, <2>3 DEF Has
<1>3. ASSUME Behind(x, A, B), Has(x, B) \/ Behind(y, A, B),
             NEW q \in 1..Len(z), z[q].kind \in A
      PROVE  \E p \in 1..(q - 1) : z[p].kind \in B
  <2>1. CASE q <= Len(x)
    <3>1. q \in 1..Len(x) /\ x[q].kind \in A
      BY <1>1, <1>3, <2>1
    <3>2. PICK p \in 1..(q - 1) : x[p].kind \in B
      BY <1>3, <3>1 DEF Behind
    <3>3. p \in 1..Len(x)
      BY <1>1, <3>1, <3>2
    <3>4. z[p] = x[p]
      BY <1>1, <3>3
    <3> QED BY <3>2, <3>4
  <2>2. CASE q > Len(x) /\ Has(x, B)
    <3>1. PICK p \in 1..Len(x) : x[p].kind \in B
      BY <2>2 DEF Has
    <3>2. p \in 1..(q - 1) /\ z[p] = x[p]
      BY <1>1, <2>2, <3>1
    <3> QED BY <3>1, <3>2
  <2>3. CASE q > Len(x) /\ Behind(y, A, B)
    <3>1. q - Len(x) \in 1..Len(y) /\ y[q - Len(x)].kind \in A
      BY <1>1, <1>3, <2>3
    <3>2. PICK p \in 1..((q - Len(x)) - 1) : y[p].kind \in B
      BY <2>3, <3>1 DEF Behind
    <3>3. p \in 1..Len(y) /\ p + Len(x) \in 1..(q - 1)
      BY <1>1, <3>1, <3>2
    <3>4. z[p + Len(x)] = y[p]
      BY <1>1, <3>3
    <3> QED BY <3>2, <3>3, <3>4
  <2> QED BY <1>1, <1>3, <2>1, <2>2, <2>3
<1> QED BY <1>2, <1>3 DEF Behind, z

LEMMA PrefixBehind ==
    ASSUME NEW S, NEW x \in Seq(S), NEW n \in 0..Len(x), NEW A, NEW B, Behind(x, A, B)
    PROVE  Behind(SubSeq(x, 1, n), A, B)
<1>1. /\ Len(SubSeq(x, 1, n)) = n /\ n \in Nat
      /\ \A i \in 1..n : SubSeq(x, 1, n)[i] = x[i] /\ i \in 1..Len(x)
  BY PrefixFacts
<1> DEFINE z == SubSeq(x, 1, n)
<1> SUFFICES ASSUME NEW q \in 1..Len(z), z[q].kind \in A
             PROVE  \E p \in 1..(q - 1) : z[p].kind \in B
  BY DEF Behind
<1> HIDE DEF z
<1>2. q \in 1..n /\ q \in 1..Len(x) /\ x[q].kind \in A
  BY <1>1 DEF z
<1>3. PICK p \in 1..(q - 1) : x[p].kind \in B
  BY <1>2 DEF Behind
<1>4. p \in 1..n
  BY <1>1, <1>2, <1>3
<1> QED BY <1>1, <1>3, <1>4 DEF z

LEMMA NothingBehind ==
    ASSUME NEW x, NEW A, NEW B, ~Has(x, A)
    PROVE  Behind(x, A, B)
  BY DEF Has, Behind

(* The queue of the main thread.                                           *)
LEMMA QueueGrows ==
    ASSUME NEW queue \in Seq(Fetched), NEW kind \in Fetched
    PROVE  /\ Doomed(Append(queue, kind)) <=> Doomed(queue) \/ EndsConnection(kind)
           /\ Started(Append(queue, kind)) =>
                 Started(queue) \/ kind = "ClientStartEncryptedSession"
           /\ ToldBehind(queue) /\ (kind \notin Info \/ Doomed(queue)) =>
                 ToldBehind(Append(queue, kind))
<1> DEFINE z == Append(queue, kind)
<1>1. /\ Len(queue) \in Nat /\ Len(z) = Len(queue) + 1 /\ z[Len(queue) + 1] = kind
      /\ Len(queue) + 1 \in 1..Len(z)
      /\ \A i \in 1..Len(queue) : z[i] = queue[i] /\ i \in 1..Len(z)
      /\ \A i \in 1..Len(z) : i \in 1..Len(queue) \/ i = Len(queue) + 1
  OBVIOUS
<1> HIDE DEF z
<1>2. Doomed(z) <=> Doomed(queue) \/ EndsConnection(kind)
  BY <1>1 DEF Doomed
<1>3. Started(z) => Started(queue) \/ kind = "ClientStartEncryptedSession"
  BY <1>1 DEF Started
<1>4. ASSUME ToldBehind(queue), kind \notin Info \/ Doomed(queue),
             NEW q \in 1..Len(z), z[q] \in Info
      PROVE  \E p \in 1..(q - 1) : EndsConnection(z[p])
  <2>1. CASE q \in 1..Len(queue)
    <3>1. PICK p \in 1..(q - 1) : EndsConnection(queue[p])
      BY <1>1, <1>4, <2>1 DEF ToldBehind
    <3>2. p \in 1..Len(queue)
      BY <1>1, <2>1, <3>1
    <3> QED BY <1>1, <3>1, <3>2
  <2>2. CASE q = Len(queue) + 1
    <3>1. PICK p \in 1..Len(queue) : EndsConnection(queue[p])
      BY <1>1, <1>4, <2>2 DEF Doomed
    <3>2. p \in 1..(q - 1)
      BY <1>1, <2>2, <3>1
    <3> QED BY <1>1, <3>1, <3>2
  <2> QED BY <1>1, <2>1, <2>2
<1> QED BY <1>2, <1>3, <1>4 DEF ToldBehind, z

LEMMA QueueShrinks ==
    ASSUME NEW queue \in Seq(Fetched), queue # <<>>, ~EndsConnection(Head(queue))
    PROVE  /\ Doomed(Tail(queue)) <=> Doomed(queue)
           /\ Started(Tail(queue)) => Started(queue)
           /\ Head(queue) = "ClientStartEncryptedSession" => Started(queue)
           /\ ToldBehind(queue) => ToldBehind(Tail(queue)) /\ Head(queue) \notin Info
<1> DEFINE z == Tail(queue)
<1>1. /\ Len(queue) \in Nat \ {0} /\ Len(z) = Len(queue) - 1 /\ Head(queue) = queue[1]
      /\ \A i \in 1..Len(z) : z[i] = queue[i + 1] /\ i + 1 \in 1..Len(queue)
      /\ \A i \in 1..Len(queue) : i = 1 \/ (i - 1 \in 1..Len(z) /\ z[i - 1] = queue[i])
  OBVIOUS
<1> HIDE DEF z
<1>2. Doomed(z) <=> Doomed(queue)
  BY <1>1 DEF Doomed
<1>3. Started(z) => Started(queue)
  BY <1>1 DEF Started
<1>4. Head(queue) = "ClientStartEncryptedSession" => Started(queue)
  BY <1>1 DEF Started
<1>5. ASSUME ToldBehind(queue), NEW q \in 1..Len(z), z[q] \in Info
      PROVE  \E p \in 1..(q - 1) : EndsConnection(z[p])
  <2>1. q + 1 \in 1..Len(queue) /\ queue[q + 1] \in Info
    BY <1>1, <1>5
  <2>2. PICK p \in 1..((q + 1) - 1) : EndsConnection(queue[p])
    BY <1>5, <2>1 DEF ToldBehind
  <2>3. p # 1
    BY <1>1, <2>2
  <2>4. p \in 1..Len(queue) /\ p - 1 \in 1..(q - 1)
    BY <1>1, <2>1, <2>2, <2>3
  <2>5. z[p - 1] = queue[p]
    BY <1>1, <2>3, <2>4
  <2> QED BY <2>2, <2>4, <2>5
<1>6. ASSUME ToldBehind(queue) PROVE Head(queue) \notin Info
  <2>1. 1 \in 1..Len(queue) /\ 1..(1 - 1) = {}
    BY <1>1
  <2> QED BY <1>1, <1>6, <2>1 DEF ToldBehind
<1> QED BY <1>2, <1>3, <1>4, <1>5, <1>6 DEF ToldBehind, z

-----------------------------------------------------------------------------
(* What a step does to the order.                                          *)

SameEnds(s, t, k, l) ==
    /\ t.id = s.id
    /\ t.accepted <=> s.accepted
    /\ t.open <=> s.open
    /\ l.up <=> k.up
    /\ l.keyed <=> k.keyed

LEMMA OrderedKept ==
    ASSUME NEW s, NEW t, NEW k, NEW l, NEW m, NEW u, NEW d,
           Ordered(s, k, m, u, d), SameEnds(s, t, k, l)
    PROVE  Ordered(t, l, m, u, d)
  BY DEF Ordered, SameEnds

(* The server takes a message that is not part of the order.               *)
LEMMA OrderedTaken ==
    ASSUME NEW s, NEW k, NEW m, NEW d, NEW u \in Seq(Wire(ToServer)), Len(u) > 0,
           Ordered(s, k, m, u, d),
           u[1].kind \notin {"ServerReceivePublicKey", "ServerReceiveClientInfo"}
    PROVE  Ordered(s, k, m, Tail(u), d)
<1>1. u[1].kind \notin Key /\ u[1].kind \notin {"ServerReceiveClientInfo"}
  BY DEF Key
<1>2. Behind(u, Data, Key) => Behind(Tail(u), Data, Key)
  BY <1>1, TailBehind
<1>3. Has(u, Key) => Has(Tail(u), Key)
  BY <1>1, TailBehind
<1>4. Behind(u, {"ServerRequestedFullServerInfo"}, {"ServerReceiveClientInfo"})
        => Behind(Tail(u), {"ServerRequestedFullServerInfo"}, {"ServerReceiveClientInfo"})
  BY <1>1, TailBehind
<1> QED BY <1>2, <1>3, <1>4 DEF Ordered, NotAsked

(* The server says something, but nothing about itself.                    *)
LEMMA OrderedTold ==
    ASSUME NEW s, NEW k, NEW m, NEW u, NEW d \in Seq(Wire(ToClient)),
           NEW out \in Seq(Wire(ToClient)), Ordered(s, k, m, u, d), ~Has(out, Info)
    PROVE  Ordered(s, k, m, u, d \o out)
<1>1. Behind(d, Info, Answered) => Behind(d \o out, Info, Answered)
  BY ConcatBehind, NothingBehind
<1>2. Has(d, Answered) => Has(d \o out, Answered)
  BY ConcatBehind
<1> QED BY <1>1, <1>2 DEF Ordered, NotAsked

(* It has no way to the client, or knows its key.                          *)
LEMMA OrderedAnyway ==
    ASSUME NEW s, NEW t, NEW k, NEW l, NEW m, NEW n, NEW u, NEW v, NEW d, NEW e,
           Ordered(s, k, m, u, d), t.id = s.id, s.accepted, t.accepted,
           l.keyed <=> k.keyed, Started(n.command_queue) => Started(m.command_queue),
           Behind(u, Data, Key) => Behind(v, Data, Key), ~t.open \/ ~l.up
    PROVE  Ordered(t, l, n, v, e)
  BY DEF Ordered

LEMMA OrderedKnown ==
    ASSUME NEW s, NEW t, NEW k, NEW l, NEW m, NEW n, NEW u, NEW v, NEW d, NEW e,
           Ordered(s, k, m, u, d), t.id > 0, t.accepted,
           k.keyed => l.keyed,
           Started(n.command_queue) => Started(m.command_queue) \/ l.keyed
    PROVE  Ordered(t, l, n, v, e)
  BY DEF Ordered

(* ServerReceiveClientInfo answers.                                        *)
LEMMA OrderedAnswered ==
    ASSUME NEW s, NEW k, NEW m, NEW u \in Seq(Wire(ToServer)), NEW d \in Seq(Wire(ToClient)),
           Ordered(s, k, m, u, d), Len(u) > 0, u[1].kind = "ServerReceiveClientInfo",
           NEW out \in Seq(Wire(ToClient)), ~Has(out, Info), Has(out, Answered)
    PROVE  Ordered(s, k, m, Tail(u), d \o out)
<1>1. u[1].kind \notin Key
  BY DEF Key
<1>2. Behind(u, Data, Key) => Behind(Tail(u), Data, Key)
  BY <1>1, TailBehind
<1>3. Has(u, Key) => Has(Tail(u), Key)
  BY <1>1, TailBehind
<1>4. Behind(d, Info, Answered) => Behind(d \o out, Info, Answered)
  BY ConcatBehind, NothingBehind
<1>5. Has(d \o out, Answered)
  BY ConcatBehind
<1> QED BY <1>2, <1>3, <1>4, <1>5 DEF Ordered, NotAsked

(* ServerRequestedFullServerInfo answers.                                  *)
LEMMA OrderedInformed ==
    ASSUME NEW s, NEW k, NEW m, NEW u \in Seq(Wire(ToServer)), NEW d \in Seq(Wire(ToClient)),
           Ordered(s, k, m, u, d), Len(u) > 0, u[1].kind = "ServerRequestedFullServerInfo",
           NEW out \in Seq(Wire(ToClient))
    PROVE  Ordered(s, k, m, Tail(u), d \o out)
<1>1. u[1].kind \notin Key /\ u[1].kind \notin {"ServerReceiveClientInfo"}
  BY DEF Key
<1>2. Behind(u, Data, Key) => Behind(Tail(u), Data, Key)
  BY <1>1, TailBehind
<1>3. Has(u, Key) => Has(Tail(u), Key)
  BY <1>1, TailBehind
<1>4. ~Behind(u, {"ServerRequestedFullServerInfo"}, {"ServerReceiveClientInfo"})
  <2>1. 1 \in 1..Len(u) /\ 1..(1 - 1) = {}
    BY LenProperties
  <2> QED BY <2>1 DEF Behind
<1>5. Behind(d, Info, Answered) /\ Has(d, Answered) => Behind(d \o out, Info, Answered)
  BY ConcatBehind
<1>6. Has(d, Answered) => Has(d \o out, Answered)
  BY ConcatBehind
<1> QED BY <1>2, <1>3, <1>4, <1>5, <1>6 DEF Ordered, NotAsked

(* The network thread takes a message that is not part of the order, and   *)
(* queues what is not part of it either.                                   *)
LEMMA OrderedReceived ==
    ASSUME NEW s, NEW k, NEW m, NEW u, NEW d \in Seq(Wire(ToClient)), Len(d) > 0,
           Ordered(s, k, m, u, d), d[1].kind \notin Answered
    PROVE  Ordered(s, k, m, u, Tail(d))
<1>1. Behind(d, Info, Answered) => Behind(Tail(d), Info, Answered)
  BY TailBehind
<1>2. Has(d, Answered) => Has(Tail(d), Answered)
  BY TailBehind
<1> QED BY <1>1, <1>2 DEF Ordered, NotAsked

(* It queues a command; the main thread will not go on with it, or is      *)
(* doomed before it does.                                                  *)
LEMMA OrderedQueued ==
    ASSUME NEW s, NEW k, NEW m \in Screen, NEW u, NEW d, Ordered(s, k, m, u, d), s.accepted,
           NEW kind \in Fetched, kind \notin Info,
           kind = "ClientStartEncryptedSession" => k.keyed,
           NEW n, n = [m EXCEPT !.command_queue = Append(@, kind)]
    PROVE  Ordered(s, k, n, u, d)
<1>1. m.command_queue \in Seq(Fetched)
  BY DEF Screen
<1>2. /\ Doomed(m.command_queue) => Doomed(Append(m.command_queue, kind))
      /\ Started(Append(m.command_queue, kind)) =>
            Started(m.command_queue) \/ kind = "ClientStartEncryptedSession"
      /\ ToldBehind(m.command_queue) => ToldBehind(Append(m.command_queue, kind))
  BY <1>1, QueueGrows
<1>3. /\ n.command_queue = Append(m.command_queue, kind)
      /\ n.scene = m.scene /\ n.todo = m.todo /\ n.pending = m.pending
  BY DEF Screen
<1> QED BY <1>2, <1>3 DEF Ordered, NotAsked

(* It queues a refusal.                                                    *)
LEMMA OrderedRefused ==
    ASSUME NEW s, NEW k, NEW m \in Screen, NEW u, NEW d, NEW e, Ordered(s, k, m, u, d),
           s.accepted, NEW kind \in Fetched, EndsConnection(kind),
           NEW n, n = [m EXCEPT !.command_queue = Append(@, kind)]
    PROVE  Ordered(s, k, n, u, e)
<1>1. m.command_queue \in Seq(Fetched)
  BY DEF Screen
<1>2. kind \notin Info /\ kind # "ClientStartEncryptedSession"
  BY DEF EndsConnection, Info
<1>3. /\ Doomed(Append(m.command_queue, kind))
      /\ Started(Append(m.command_queue, kind)) => Started(m.command_queue)
      /\ ToldBehind(m.command_queue) => ToldBehind(Append(m.command_queue, kind))
  BY <1>1, <1>2, QueueGrows
<1>4. /\ n.command_queue = Append(m.command_queue, kind)
      /\ n.scene = m.scene /\ n.todo = m.todo /\ n.pending = m.pending
  BY DEF Screen
<1> QED BY <1>3, <1>4 DEF Ordered, NotAsked

(* It queues what the server said of itself: the answer to its question,   *)
(* or the refusal, has come before.                                        *)
LEMMA OrderedToldOf ==
    ASSUME NEW s, NEW k, NEW m \in Screen, NEW u, NEW d \in Seq(Wire(ToClient)), NEW e,
           Ordered(s, k, m, u, d), s.accepted, Len(d) > 0, d[1].kind \in Info,
           NEW kind \in Fetched, kind \in Info,
           NEW n, n = [m EXCEPT !.command_queue = Append(@, kind)]
    PROVE  Ordered(s, k, n, u, e)
<1>1. m.command_queue \in Seq(Fetched)
  BY DEF Screen
<1>2. kind # "ClientStartEncryptedSession"
  BY DEF Info
<1>3. /\ Doomed(m.command_queue) => Doomed(Append(m.command_queue, kind))
      /\ Started(Append(m.command_queue, kind)) => Started(m.command_queue)
      /\ ToldBehind(m.command_queue) /\ Doomed(m.command_queue) =>
            ToldBehind(Append(m.command_queue, kind))
  BY <1>1, <1>2, QueueGrows
<1>4. ~Behind(d, Info, Answered)
  <2>1. 1 \in 1..Len(d) /\ 1..(1 - 1) = {}
    BY LenProperties
  <2> QED BY <2>1 DEF Behind
<1>5. /\ n.command_queue = Append(m.command_queue, kind)
      /\ n.scene = m.scene /\ n.todo = m.todo /\ n.pending = m.pending
  BY DEF Screen
<1> QED BY <1>3, <1>4, <1>5 DEF Ordered, NotAsked

(* The client sends what is no data, and asks about the server after it    *)
(* said who it is.                                                         *)
LEMMA OrderedSaid ==
    ASSUME NEW s, NEW k, NEW m, NEW d, NEW u \in Seq(Wire(ToServer)),
           NEW out \in Seq(Wire(ToServer)), Ordered(s, k, m, u, d), ~Has(out, Data),
           Behind(out, {"ServerRequestedFullServerInfo"}, {"ServerReceiveClientInfo"})
    PROVE  Ordered(s, k, m, u \o out, d)
<1>1. Behind(u, Data, Key) => Behind(u \o out, Data, Key)
  BY ConcatBehind, NothingBehind
<1>2. Has(u, Key) => Has(u \o out, Key)
  BY ConcatBehind
<1>3. Behind(u, {"ServerRequestedFullServerInfo"}, {"ServerReceiveClientInfo"})
        => Behind(u \o out, {"ServerRequestedFullServerInfo"}, {"ServerReceiveClientInfo"})
  BY ConcatBehind
<1> QED BY <1>1, <1>2, <1>3 DEF Ordered, NotAsked

(* It sends its key.                                                       *)
LEMMA OrderedKey ==
    ASSUME NEW s, NEW k, NEW m, NEW d, NEW e, NEW u \in Seq(Wire(ToServer)),
           NEW out \in Seq(Wire(ToServer)), Ordered(s, k, m, u, d), s.accepted,
           ~Has(out, Data), Has(out, Key)
    PROVE  Ordered(s, k, m, u \o out, e)
<1>1. Behind(u, Data, Key) => Behind(u \o out, Data, Key)
  BY ConcatBehind, NothingBehind
<1>2. Has(u \o out, Key)
  BY ConcatBehind
<1> QED BY <1>1, <1>2 DEF Ordered

(* The main thread goes on with a command.                                 *)
LEMMA OrderedFetched ==
    ASSUME NEW s, NEW k, NEW m \in Screen, NEW u, NEW d, NEW n, Ordered(s, k, m, u, d),
           s.accepted, m.command_queue # <<>>, ~EndsConnection(Head(m.command_queue)),
           n.command_queue = Tail(m.command_queue), n.pending = m.pending,
           n.scene = m.scene \/ Head(m.command_queue) \in Info,
           n.todo = m.todo \/ Head(m.command_queue) = "ClientStartEncryptedSession"
    PROVE  Ordered(s, k, n, u, d)
<1>1. m.command_queue \in Seq(Fetched)
  BY DEF Screen
<1>2. /\ Doomed(Tail(m.command_queue)) <=> Doomed(m.command_queue)
      /\ Started(Tail(m.command_queue)) => Started(m.command_queue)
      /\ Head(m.command_queue) = "ClientStartEncryptedSession" => Started(m.command_queue)
      /\ ToldBehind(m.command_queue) =>
            ToldBehind(Tail(m.command_queue)) /\ Head(m.command_queue) \notin Info
  BY <1>1, QueueShrinks
<1>3. Head(m.command_queue) = "ClientStartEncryptedSession" => s.id > 0
  BY <1>2 DEF Ordered
<1> QED BY <1>2, <1>3 DEF Ordered, NotAsked

(* The main thread goes on after ClientReceiveFullServerInfo: the key has  *)
(* been sent.                                                              *)
LEMMA OrderedGoesOn ==
    ASSUME NEW s, NEW k, NEW l, NEW m, NEW n, NEW d, NEW u \in Seq(Wire(ToServer)),
           NEW out \in Seq(Wire(ToServer)), NEW v, Ordered(s, k, m, u, d), s.accepted, k.up,
           m.scene # "Connect" \/ m.todo # <<>> \/ m.pending # <<>>,
           l.keyed <=> k.keyed, n.command_queue = m.command_queue,
           v = u \/ (s.open /\ v = u \o out)
    PROVE  Ordered(s, l, n, v, d)
<1>1. s.open => s.id > 0 \/ Has(u, Key)
  BY DEF Ordered, NotAsked
<1>2. Has(u, Key) => Has(u \o out, Key)
  BY ConcatBehind
<1>3. Has(u, Key) /\ Behind(u, Data, Key) => Behind(u \o out, Data, Key)
  BY ConcatBehind
<1> QED BY <1>1, <1>2, <1>3 DEF Ordered

(* A client connects.                                                      *)
LEMMA OrderedFirst ==
    ASSUME NEW s, NEW t, NEW k, NEW l, NEW m, NEW e, Ordered(s, k, m, <<>>, <<>>),
           ~s.accepted, t.accepted, m.pending = <<>>, ~l.keyed, ~Has(e, Info)
    PROVE  Ordered(t, l, m, <<>>, e)
<1>1. ~Has(<<>>, Data) /\ ~Has(<<>>, {"ServerRequestedFullServerInfo"})
  BY DEF Has
<1>2. \A q \in 1..Len(<<>>) : FALSE
  OBVIOUS
<1>3. m.command_queue = <<>> /\ m.todo = <<>> /\ m.scene = "Connect"
  BY DEF Ordered
<1>4. ~Started(<<>>) /\ ToldBehind(<<>>)
  BY <1>2 DEF Started, ToldBehind
<1> QED BY <1>1, <1>3, <1>4, NothingBehind DEF Ordered, NotAsked

-----------------------------------------------------------------------------
(* The order of all clients.                                               *)

Order(c) == Ordered(sess[c], cl[c], screen[c], c2s[c], s2c[c])
AllOrdered == \A c \in Clients : Order(c)

(* A step that changes one client.                                         *)
LEMMA OrderOfOne ==
    ASSUME LoginInv, AllOrdered, NEW c \in Clients, NEW s, NEW k, NEW m, NEW u, NEW d,
           Ordered(s, k, m, u, d),
           sess' = [sess EXCEPT ![c] = s], cl' = [cl EXCEPT ![c] = k],
           screen' = [screen EXCEPT ![c] = m],
           c2s' = [c2s EXCEPT ![c] = u], s2c' = [s2c EXCEPT ![c] = d]
    PROVE  AllOrdered'
<1>1. Shaped
  BY Together
<1>2. sess'[c] = s /\ cl'[c] = k /\ screen'[c] = m /\ c2s'[c] = u /\ s2c'[c] = d
  BY <1>1 DEF Shaped
<1>3. \A e \in Clients : e # c =>
          /\ sess'[e] = sess[e] /\ cl'[e] = cl[e] /\ screen'[e] = screen[e]
          /\ c2s'[e] = c2s[e] /\ s2c'[e] = s2c[e]
  BY <1>1 DEF Shaped
<1> SUFFICES ASSUME NEW e \in Clients
             PROVE  Ordered(sess'[e], cl'[e], screen'[e], c2s'[e], s2c'[e])
  BY DEF AllOrdered, Order
<1>4. CASE e = c
  BY <1>2, <1>4, Zenon
<1>5. CASE e # c
  BY <1>3, <1>5, Zenon DEF AllOrdered, Order
<1> QED BY <1>4, <1>5

LEMMA SealedHas ==
    ASSUME NEW kinds, NEW e, e.encryption \in BOOLEAN, e.sealed \in Nat,
           NEW out \in Commands(kinds), NEW A
    PROVE  Has(Sealed(e, out), A) <=> Has(out, A)
<1>1. Len(Sealed(e, out)) = Len(out) /\ \A i \in 1..Len(out) : Sealed(e, out)[i].kind = out[i].kind
  BY SealedFacts
<1> QED BY <1>1, Zenon DEF Has

(* A step in which the server sends, what it has taken or changed before   *)
(* being ss and v.                                                         *)
LEMMA OrderSends ==
    ASSUME LoginInv, NEW ss, NEW v, NEW out,
           \A e \in Clients : ss[e] \in ServerSession,
           \A e \in Clients : out[e] \in Commands(ToClient),
           \A e \in Clients : Ordered(ss[e], cl[e], screen[e], v[e],
                                      IF ss[e].open /\ cl[e].up
                                      THEN s2c[e] \o Sealed(ss[e], out[e]) ELSE s2c[e]),
           ServerSends(ss, out), c2s' = v, cl' = cl, screen' = screen
    PROVE  AllOrdered'
<1> DEFINE b(e) == AfterSealing(ss[e], out[e]).unsent
                   \/ (out[e] # <<>> /\ ~(ss[e].open /\ cl[e].up))
<1>1. sess' = [e \in Clients |-> Said(ss[e], out[e], b(e))]
  BY Zenon DEF ServerSends, Said
<1>2. s2c' = [e \in Clients |-> IF ss[e].open /\ cl[e].up
                                THEN s2c[e] \o Sealed(ss[e], out[e]) ELSE s2c[e]]
  BY Zenon DEF ServerSends
<1>3. \A e \in Clients : b(e) \in BOOLEAN
  BY Zenon
<1> HIDE DEF b
<1> SUFFICES ASSUME NEW e \in Clients
             PROVE  Ordered(sess'[e], cl'[e], screen'[e], c2s'[e], s2c'[e])
  BY DEF AllOrdered, Order
<1> DEFINE t == Said(ss[e], out[e], b(e))
           d == IF ss[e].open /\ cl[e].up THEN s2c[e] \o Sealed(ss[e], out[e]) ELSE s2c[e]
<1>4. Ordered(ss[e], cl[e], screen[e], v[e], d)
  OBVIOUS
<1>5. sess'[e] = t /\ s2c'[e] = d /\ cl'[e] = cl[e] /\ screen'[e] = screen[e] /\ c2s'[e] = v[e]
  BY <1>1, <1>2, Zenon
<1>6. ss[e] \in ServerSession /\ Len(out[e]) \in Nat
  BY DEF Commands
<1>7. t.id = ss[e].id /\ (t.accepted <=> ss[e].accepted) /\ (t.open <=> ss[e].open)
  BY <1>3, <1>6, ServerSeals
<1> HIDE DEF t, d
<1>8. SameEnds(ss[e], t, cl[e], cl[e])
  BY <1>7 DEF SameEnds
<1>9. Ordered(t, cl[e], screen[e], v[e], d)
  BY <1>4, <1>8, OrderedKept
<1> QED BY <1>5, <1>9, Zenon

(* What the server says is not about itself.                               *)
Silent(out) == out \in Commands(ToClient) /\ ~Has(out, Info)

LEMMA NoticesAreSilent ==
    /\ Silent(<<>>)
    /\ \A n \in Nat : Silent(<<Notify(n)>>)
    /\ \A n \in Nat : Silent([u \in 1..n |-> Notify(u)])
<1> DEFINE R == [kind : ToClient, id : Nat]
<1>1. ASSUME NEW n \in Nat PROVE Notify(n) \in R /\ Notify(n).kind \notin Info
  BY DEF Notify, Command, ToClient, Info
<1> HIDE DEF R
<1>2. Silent(<<>>)
  BY DEF Silent, Commands, Has
<1>3. ASSUME NEW n \in Nat PROVE Silent(<<Notify(n)>>)
  <2>1. <<Notify(n)>> \in Seq(R)
    BY <1>1
  <2>2. \A i \in 1..Len(<<Notify(n)>>) : <<Notify(n)>>[i].kind \notin Info
    BY <1>1
  <2> QED BY <2>1, <2>2 DEF Silent, Has, Commands, R
<1>4. ASSUME NEW n \in Nat PROVE Silent([u \in 1..n |-> Notify(u)])
  <2> DEFINE f == [u \in 1..n |-> Notify(u)]
  <2>1. f \in [1..n -> R]
    BY <1>1
  <2>2. f \in Seq(R) /\ Len(f) = n
    BY <2>1, FunctionIsSeq
  <2>3. \A i \in 1..n : f[i].kind \notin Info
    BY <1>1
  <2> HIDE DEF f
  <2>4. Silent(f)
    BY <2>2, <2>3 DEF Silent, Has, Commands, R
  <2> QED BY <2>4 DEF f
<1> QED BY <1>2, <1>3, <1>4

(* A step in which the server only sends such.                             *)
LEMMA OrderNotices ==
    ASSUME LoginInv, NEW ss, NEW v, NEW out,
           \A e \in Clients : ss[e] \in ServerSession,
           \A e \in Clients : Ordered(ss[e], cl[e], screen[e], v[e], s2c[e]),
           \A e \in Clients : Silent(out[e]),
           ServerSends(ss, out), c2s' = v, cl' = cl, screen' = screen
    PROVE  AllOrdered'
<1>1. \A e \in Clients : out[e] \in Commands(ToClient)
  BY DEF Silent
<1>2. ASSUME NEW e \in Clients
      PROVE  Ordered(ss[e], cl[e], screen[e], v[e],
                     IF ss[e].open /\ cl[e].up THEN s2c[e] \o Sealed(ss[e], out[e]) ELSE s2c[e])
  <2>1. ss[e] \in ServerSession /\ s2c[e] \in Seq(Wire(ToClient))
    BY DEF LoginInv, TypeOK
  <2>2. ss[e].encryption \in BOOLEAN /\ ss[e].sealed \in Nat
    BY <2>1 DEF ServerSession
  <2>3. ~Has(Sealed(ss[e], out[e]), Info) /\ Sealed(ss[e], out[e]) \in Seq(Wire(ToClient))
    BY <1>1, <2>2, SealedHas, SealedFacts DEF Silent
  <2>4. Ordered(ss[e], cl[e], screen[e], v[e], s2c[e] \o Sealed(ss[e], out[e]))
    BY <2>1, <2>3, OrderedTold
  <2> QED BY <2>4, Zenon
<1> QED BY <1>1, <1>2, OrderSends

(* The server takes a message.                                             *)
LEMMA OrderTaking ==
    ASSUME LoginInv, AllOrdered, NEW c \in Clients, NEW kind, Arrives(c, kind)
    PROVE  LET ss == Taken(c)
               v  == Rest(c)
           IN  /\ v[c] = Tail(c2s[c]) /\ \A e \in Clients : e # c => v[e] = c2s[e]
               /\ c2s[c] \in Seq(Wire(ToServer)) /\ Len(c2s[c]) > 0 /\ c2s[c][1].kind = kind
               /\ s2c[c] \in Seq(Wire(ToClient))
               /\ \A e \in Clients : ss[e] \in ServerSession
               /\ \A e \in Clients : Ordered(ss[e], cl[e], screen[e], c2s[e], s2c[e])
               /\ sess[c].accepted /\ (ss[c].open <=> sess[c].open)
               /\ kind \notin {"ServerReceivePublicKey", "ServerReceiveClientInfo"} =>
                     \A e \in Clients : Ordered(ss[e], cl[e], screen[e], v[e], s2c[e])
<1> DEFINE ss == Taken(c)
           v  == Rest(c)
           t  == AfterUnsealing(sess[c], Head(c2s[c]))
<1>1. Shaped /\ ClientInv(sess[c], cl[c], screen[c], c2s[c], s2c[c])
  BY Together DEF AllSound, Sound
<1>2. /\ ss[c] = t /\ v[c] = Tail(c2s[c])
      /\ \A e \in Clients : e # c => ss[e] = sess[e] /\ v[e] = c2s[e]
  BY <1>1 DEF Shaped, Taken, Rest
<1> HIDE DEF ss, v
<1>3. sess[c] \in ServerSession /\ c2s[c] \in Seq(Wire(ToServer)) /\ s2c[c] \in Seq(Wire(ToClient))
  BY <1>1 DEF ClientInv, Typed
<1>4. Len(c2s[c]) > 0 /\ c2s[c][1].kind = kind /\ Head(c2s[c]).cipher \in Nat
  <2>1. c2s[c] # <<>> /\ Head(c2s[c]).kind = kind
    BY DEF Arrives
  <2>2. Len(c2s[c]) > 0
    BY <1>3, <2>1
  <2>3. Head(c2s[c]) = c2s[c][1] /\ 1 \in 1..Len(c2s[c])
    BY <1>3, <2>2
  <2>4. c2s[c][1].cipher \in Nat
    BY <1>3, <2>3, FieldFacts
  <2> QED BY <2>1, <2>2, <2>3, <2>4, Zenon
<1>5. t.accepted /\ t.id = sess[c].id /\ (t.open <=> sess[c].open)
  BY <1>1, <1>4, ServerTakes
<1>6. t.accepted <=> sess[c].accepted
  BY <1>3, <1>4, ServerUnseals
<1> HIDE DEF t
<1>7. SameEnds(sess[c], t, cl[c], cl[c])
  BY <1>5, <1>6 DEF SameEnds
<1>8. ASSUME NEW e \in Clients PROVE Ordered(ss[e], cl[e], screen[e], c2s[e], s2c[e])
  <2>1. Ordered(sess[e], cl[e], screen[e], c2s[e], s2c[e])
    BY DEF AllOrdered, Order
  <2>2. CASE e = c
    <3>1. Ordered(sess[c], cl[c], screen[c], c2s[c], s2c[c])
      BY <2>1, <2>2, Zenon
    <3>2. Ordered(t, cl[c], screen[c], c2s[c], s2c[c])
      BY <1>7, <3>1, OrderedKept
    <3> QED BY <1>2, <2>2, <3>2, Zenon
  <2>3. CASE e # c
    BY <1>2, <2>1, <2>3, Zenon
  <2> QED BY <2>2, <2>3
<1>9. ASSUME kind \notin {"ServerReceivePublicKey", "ServerReceiveClientInfo"},
             NEW e \in Clients
      PROVE  Ordered(ss[e], cl[e], screen[e], v[e], s2c[e])
  <2>1. CASE e = c
    <3>1. c2s[c][1].kind \notin {"ServerReceivePublicKey", "ServerReceiveClientInfo"}
      BY <1>4, <1>9
    <3>2. Ordered(ss[c], cl[c], screen[c], Tail(c2s[c]), s2c[c])
      BY <1>3, <1>4, <1>8, <3>1, OrderedTaken
    <3> QED BY <1>2, <2>1, <3>2, Zenon
  <2>2. CASE e # c
    BY <1>2, <1>8, <2>2, Zenon
  <2> QED BY <2>1, <2>2
<1>10. \A e \in Clients : ss[e] \in ServerSession
  <2>1. \A e \in Clients : ClientInv(ss[e], cl[e], screen[e], v[e], s2c[e])
    BY Taking, Zenon DEF ss, v
  <2> QED BY <2>1 DEF ClientInv, Typed
<1> QED BY <1>2, <1>3, <1>4, <1>5, <1>6, <1>8, <1>9, <1>10, Zenon DEF ss, v

-----------------------------------------------------------------------------
(* The server's steps keep the order.                                      *)

LEMMA OrderReceiveSession ==
    ASSUME LoginInv, AllOrdered, NEW c \in Clients, ReceiveSession(c)
    PROVE  AllOrdered'
<1> DEFINE s == sess[c]
           k == cl[c]
           m == screen[c]
           t == [s EXCEPT !.accepted = TRUE, !.open = TRUE, !.online = TRUE, !.reading = TRUE]
           l == [k EXCEPT !.up = TRUE, !.online = TRUE]
           one == <<Command("ClientRequestedClientInfo", 0)>>
           d == Sealed(s, one)
<1>1. ClientInv(s, k, m, c2s[c], s2c[c]) /\ Shaped
  BY Together DEF AllSound, Sound
<1>2. s \in ServerSession /\ k \in ClientSession
  BY <1>1 DEF ClientInv, Typed
<1>3. ~s.accepted
  BY DEF ReceiveSession
<1>4. s.id = 0 /\ c2s[c] = <<>> /\ s2c[c] = <<>> /\ m.pending = <<>>
  BY <1>1, <1>3 DEF ClientInv, Fresh
<1>5. Ordered(s, k, m, <<>>, <<>>)
  BY <1>4, Zenon DEF AllOrdered, Order
<1>6. ~k.keyed
  BY <1>4, <1>5 DEF Ordered
<1>7. t.accepted
  BY <1>2 DEF ServerSession
<1>8. ~l.keyed
  BY <1>2, <1>6 DEF ClientSession
<1>9. ~Has(d, Info)
  <2>1. s.encryption \in BOOLEAN /\ s.sealed \in Nat
    BY <1>2 DEF ServerSession
  <2>2. one \in Commands(ToClient) /\ Len(one) = 1 /\ one[1].kind = "ClientRequestedClientInfo"
    <3>1. "ClientRequestedClientInfo" \in ToClient
      BY DEF ToClient
    <3> QED BY <3>1, CommandFacts
  <2> HIDE DEF one, s
  <2>3. ~Has(one, Info)
    BY <2>2 DEF Has, Info
  <2> QED BY <2>1, <2>2, <2>3, SealedHas
<1>10. /\ sess' = [sess EXCEPT ![c] = t] /\ cl' = [cl EXCEPT ![c] = l]
       /\ s2c' = [s2c EXCEPT ![c] = d] /\ screen' = screen /\ c2s' = c2s
  BY DEF ReceiveSession
<1>11. screen' = [screen EXCEPT ![c] = m] /\ c2s' = [c2s EXCEPT ![c] = <<>>]
  BY <1>1, <1>4, <1>10, Zenon DEF Shaped
<1> HIDE DEF s, k, m, t, l, d, one
<1>12. Ordered(t, l, m, <<>>, d)
  BY <1>3, <1>4, <1>5, <1>7, <1>8, <1>9, OrderedFirst
<1> QED BY <1>10, <1>11, <1>12, OrderOfOne

LEMMA OrderRequestedFullServerInfo ==
    ASSUME LoginInv, AllOrdered, NEW c \in Clients, ServerRequestedFullServerInfo(c)
    PROVE  AllOrdered'
<1> DEFINE ss == Taken(c)
           v == Rest(c)
           one == <<Command("ClientReceiveFullServerInfo", 0)>>
           out == Only(c, one)
<1>0. /\ Arrives(c, "ServerRequestedFullServerInfo") /\ c2s' = v /\ ServerSends(ss, out)
      /\ cl' = cl /\ screen' = screen
  BY DEF ServerRequestedFullServerInfo
<1>1. /\ \A e \in Clients : ss[e] \in ServerSession
      /\ \A e \in Clients : s2c[e] \in Seq(Wire(ToClient))
  BY <1>0, OrderTaking DEF LoginInv, TypeOK
<1>2. /\ v[c] = Tail(c2s[c]) /\ \A e \in Clients : e # c => v[e] = c2s[e]
      /\ c2s[c] \in Seq(Wire(ToServer)) /\ Len(c2s[c]) > 0
      /\ c2s[c][1].kind = "ServerRequestedFullServerInfo" /\ s2c[c] \in Seq(Wire(ToClient))
      /\ \A e \in Clients : Ordered(ss[e], cl[e], screen[e], c2s[e], s2c[e])
      /\ \A e \in Clients : Ordered(ss[e], cl[e], screen[e], v[e], s2c[e])
  BY <1>0, OrderTaking
<1> HIDE DEF ss, v
<1>3. one \in Commands(ToClient)
  <2>1. "ClientReceiveFullServerInfo" \in ToClient
    BY DEF ToClient
  <2> QED BY <2>1, CommandFacts
<1> HIDE DEF one
<1>4. out[c] = one /\ \A e \in Clients : e # c => out[e] = <<>>
  BY DEF Only
<1> HIDE DEF out
<1>5. \A e \in Clients : out[e] \in Commands(ToClient)
  BY <1>3, <1>4, NoticesAreSilent DEF Silent
<1>6. \A e \in Clients : Sealed(ss[e], out[e]) \in Seq(Wire(ToClient))
                         /\ s2c[e] \in Seq(Wire(ToClient))
  <2> SUFFICES ASSUME NEW e \in Clients
               PROVE  Sealed(ss[e], out[e]) \in Seq(Wire(ToClient)) /\ s2c[e] \in Seq(Wire(ToClient))
    OBVIOUS
  <2>1. ss[e] \in ServerSession /\ s2c[e] \in Seq(Wire(ToClient))
    BY <1>1
  <2>2. ss[e].encryption \in BOOLEAN /\ ss[e].sealed \in Nat
    BY <2>1 DEF ServerSession
  <2> QED BY <1>5, <2>1, <2>2, SealedFacts
<1>7. ASSUME NEW e \in Clients
      PROVE  Ordered(ss[e], cl[e], screen[e], v[e], s2c[e] \o Sealed(ss[e], out[e]))
  <2>1. CASE e = c
    <3>1. Ordered(ss[c], cl[c], screen[c], Tail(c2s[c]), s2c[c] \o Sealed(ss[c], out[c]))
      BY <1>2, <1>6, OrderedInformed
    <3> QED BY <1>2, <2>1, <3>1, Zenon
  <2>2. CASE e # c
    <3>1. ~Has(out[e], Info)
      BY <1>4, <2>2, NoticesAreSilent, Zenon DEF Silent
    <3>2. ~Has(Sealed(ss[e], out[e]), Info)
      <4>1. ss[e] \in ServerSession
        BY <1>1
      <4>2. ss[e].encryption \in BOOLEAN /\ ss[e].sealed \in Nat
        BY <4>1 DEF ServerSession
      <4> QED BY <1>5, <3>1, <4>2, SealedHas
    <3> QED BY <1>2, <1>6, <3>2, OrderedTold
  <2> QED BY <2>1, <2>2
<1>8. \A e \in Clients :
          Ordered(ss[e], cl[e], screen[e], v[e],
                  IF ss[e].open /\ cl[e].up THEN s2c[e] \o Sealed(ss[e], out[e]) ELSE s2c[e])
  BY <1>2, <1>7, Zenon
<1> QED BY <1>0, <1>1, <1>5, <1>8, OrderSends

LEMMA OrderReceivePublicKey ==
    ASSUME LoginInv, AllOrdered, NEW c \in Clients, ServerReceivePublicKey(c)
    PROVE  AllOrdered'
<1> DEFINE ss == Taken(c)
           v == Rest(c)
           n == NextUserId
           one == <<Command("ClientReceiveCommonKey", n)>>
           out == Only(c, one)
           tt == [ss EXCEPT ![c].id = n, ![c].encryption = EncryptsFromKeyOn]
           t == [ss[c] EXCEPT !.id = n, !.encryption = EncryptsFromKeyOn]
<1>0. /\ Arrives(c, "ServerReceivePublicKey") /\ c2s' = v /\ ServerSends(tt, out)
      /\ cl' = cl /\ screen' = screen
  BY Zenon DEF ServerReceivePublicKey
<1>1. /\ v[c] = Tail(c2s[c]) /\ \A e \in Clients : e # c => v[e] = c2s[e]
      /\ \A e \in Clients : ss[e] \in ServerSession
      /\ \A e \in Clients : Ordered(ss[e], cl[e], screen[e], c2s[e], s2c[e])
      /\ \A e \in Clients : s2c[e] \in Seq(Wire(ToClient))
      /\ sess[c].accepted
  BY <1>0, OrderTaking DEF LoginInv, TypeOK
<1>2. ss = [e \in Clients |-> ss[e]] /\ ss[c].accepted
  BY <1>0, Taking
<1>3. n \in Nat /\ n > 0
  BY Together DEF Numbers, NextUserId
<1>4. tt[c] = t /\ (\A e \in Clients : e # c => tt[e] = ss[e])
  <2> HIDE DEF ss
  <2> QED BY <1>2
<1> HIDE DEF ss, v, n, tt
<1>5. t \in ServerSession /\ t.id = n /\ t.accepted
  BY <1>1, <1>2, <1>3 DEF ServerSession, EncryptsFromKeyOn
<1>6. one \in Commands(ToClient)
  <2>1. "ClientReceiveCommonKey" \in ToClient
    BY DEF ToClient
  <2> QED BY <1>3, <2>1, CommandFacts
<1> HIDE DEF t, one
<1>7. out[c] = one /\ \A e \in Clients : e # c => out[e] = <<>>
  BY DEF Only
<1> HIDE DEF out
<1>8. \A e \in Clients : out[e] \in Commands(ToClient)
  BY <1>6, <1>7, NoticesAreSilent DEF Silent
<1>9. \A e \in Clients : tt[e] \in ServerSession
  BY <1>1, <1>4, <1>5, Zenon
<1>10. ASSUME NEW e \in Clients
       PROVE  Ordered(tt[e], cl[e], screen[e], v[e],
                      IF tt[e].open /\ cl[e].up THEN s2c[e] \o Sealed(tt[e], out[e]) ELSE s2c[e])
  <2> DEFINE d == IF tt[e].open /\ cl[e].up THEN s2c[e] \o Sealed(tt[e], out[e]) ELSE s2c[e]
  <2>1. CASE e = c
    <3>1. Ordered(ss[c], cl[c], screen[c], c2s[c], s2c[c])
      BY <1>1
    <3>2. t.id > 0
      BY <1>3, <1>5
    <3> HIDE DEF d
    <3>3. Ordered(t, cl[c], screen[c], v[c], d)
      BY <1>5, <3>1, <3>2, OrderedKnown
    <3>4. Ordered(tt[e], cl[e], screen[e], v[e], d)
      BY <1>4, <2>1, <3>3, Zenon
    <3> QED BY <3>4 DEF d
  <2>2. CASE e # c
    <3>1. Ordered(tt[e], cl[e], screen[e], v[e], s2c[e])
      BY <1>1, <1>4, <2>2, Zenon
    <3>2. ~Has(out[e], Info)
      BY <1>7, <2>2, NoticesAreSilent, Zenon DEF Silent
    <3>3. tt[e].encryption \in BOOLEAN /\ tt[e].sealed \in Nat
      <4>1. tt[e] \in ServerSession
        BY <1>9
      <4> QED BY <4>1 DEF ServerSession
    <3>4. ~Has(Sealed(tt[e], out[e]), Info) /\ Sealed(tt[e], out[e]) \in Seq(Wire(ToClient))
      BY <1>8, <3>2, <3>3, SealedHas, SealedFacts
    <3>5. Ordered(tt[e], cl[e], screen[e], v[e], s2c[e] \o Sealed(tt[e], out[e]))
      BY <1>1, <3>1, <3>4, OrderedTold
    <3> QED BY <3>1, <3>5, Zenon
  <2> QED BY <2>1, <2>2
<1> QED BY <1>0, <1>8, <1>9, <1>10, OrderSends

LEMMA OrderStartEncryptedSession ==
    ASSUME LoginInv, AllOrdered, NEW c \in Clients, ServerStartEncryptedSession(c)
    PROVE  AllOrdered'
<1> DEFINE ss == Taken(c)
           v == Rest(c)
           s == ss[c]
           start == <<Command("ClientStartEncryptedSession", 0)>>
           b == s.unsent \/ ~(s.open /\ cl[c].up)
           t == [AfterSealing(s, start) EXCEPT !.encryption = TRUE, !.unsent = b]
           d == IF s.open /\ cl[c].up THEN s2c[c] \o Sealed(s, start) ELSE s2c[c]
<1>0. /\ Arrives(c, "ServerStartEncryptedSession") /\ c2s' = v
      /\ cl' = cl /\ screen' = screen
      /\ s2c' = [s2c EXCEPT ![c] = IF s.open /\ cl[c].up THEN @ \o Sealed(s, start) ELSE @]
      /\ sess' = [ss EXCEPT ![c] = t]
  BY Zenon DEF ServerStartEncryptedSession
<1>1. /\ v[c] = Tail(c2s[c])
      /\ \A e \in Clients : ss[e] \in ServerSession
      /\ \A e \in Clients : Ordered(ss[e], cl[e], screen[e], v[e], s2c[e])
      /\ s2c[c] \in Seq(Wire(ToClient))
  BY <1>0, OrderTaking
<1>2. Shaped
  BY Together
<1>3. s2c' = [s2c EXCEPT ![c] = d] /\ c2s' = [c2s EXCEPT ![c] = v[c]]
  <2>1. s2c' = [s2c EXCEPT ![c] = d]
    BY <1>0, Zenon
  <2>2. c2s' = [c2s EXCEPT ![c] = v[c]]
    BY <1>0, <1>2 DEF Rest, Shaped
  <2> QED BY <2>1, <2>2
<1>4. cl' = [cl EXCEPT ![c] = cl[c]] /\ screen' = [screen EXCEPT ![c] = screen[c]]
  BY <1>0, <1>2, Zenon DEF Shaped
<1>5. sess' = [sess EXCEPT ![c] = t]
  <2>1. ss = [sess EXCEPT ![c] = s]
    BY <1>2 DEF Taken, Shaped
  <2> HIDE DEF ss, s, t
  <2> QED BY <1>0, <1>2, <2>1 DEF Shaped
<1>6. s \in ServerSession /\ Ordered(s, cl[c], screen[c], v[c], s2c[c])
  BY <1>1
<1>7. start \in Commands(ToClient) /\ Len(start) = 1
      /\ start[1].kind = "ClientStartEncryptedSession"
  <2>1. "ClientStartEncryptedSession" \in ToClient
    BY DEF ToClient
  <2> QED BY <2>1, CommandFacts
<1> HIDE DEF ss, v, s, start
<1>8. t.id = s.id /\ (t.accepted <=> s.accepted) /\ (t.open <=> s.open)
  BY <1>6 DEF AfterSealing, ServerSession
<1> HIDE DEF b, t
<1>9. Ordered(s, cl[c], screen[c], v[c], d)
  <2>1. ~Has(start, Info)
    BY <1>7 DEF Has, Info
  <2>2. s.encryption \in BOOLEAN /\ s.sealed \in Nat
    BY <1>6 DEF ServerSession
  <2>3. ~Has(Sealed(s, start), Info) /\ Sealed(s, start) \in Seq(Wire(ToClient))
    BY <1>7, <2>1, <2>2, SealedHas, SealedFacts
  <2>4. Ordered(s, cl[c], screen[c], v[c], s2c[c] \o Sealed(s, start))
    BY <1>1, <1>6, <2>3, OrderedTold
  <2> QED BY <1>6, <2>4, Zenon
<1> HIDE DEF d
<1>10. SameEnds(s, t, cl[c], cl[c])
  BY <1>8 DEF SameEnds
<1>11. Ordered(t, cl[c], screen[c], v[c], d)
  BY <1>9, <1>10, OrderedKept
<1> QED BY <1>3, <1>4, <1>5, <1>11, OrderOfOne

LEMMA OrderInitializeData ==
    ASSUME LoginInv, AllOrdered, NEW c \in Clients, ServerReceiveAccountInitializeData(c)
    PROVE  AllOrdered'
<1> DEFINE ss == Taken(c)
           v == Rest(c)
           t == [ss[c] EXCEPT !.initialized = TRUE]
           tt == [ss EXCEPT ![c].initialized = TRUE]
           out == [d \in Clients |->
                     IF d = c THEN [u \in 1..max_user_id |-> Notify(u)]
                     ELSE IF tt[d].id > 0 /\ tt[d].id # tt[c].id THEN <<Notify(tt[c].id)>> ELSE <<>>]
<1>0. /\ Arrives(c, "ServerReceiveAccountInitializeData") /\ c2s' = v /\ ServerSends(tt, out)
      /\ cl' = cl /\ screen' = screen
  BY DEF ServerReceiveAccountInitializeData
<1>1. /\ \A e \in Clients : ss[e] \in ServerSession
      /\ \A e \in Clients : Ordered(ss[e], cl[e], screen[e], v[e], s2c[e])
  BY <1>0, OrderTaking
<1>2. max_user_id \in Nat /\ ss = [e \in Clients |-> ss[e]]
  BY <1>0, Taking, Together DEF Numbers
<1>3. tt[c] = t /\ (\A e \in Clients : e # c => tt[e] = ss[e])
  <2> HIDE DEF ss
  <2> QED BY <1>2
<1> HIDE DEF ss, v, tt
<1>4. ss[c] \in ServerSession /\ Ordered(ss[c], cl[c], screen[c], v[c], s2c[c])
  BY <1>1
<1>5. t \in ServerSession /\ SameEnds(ss[c], t, cl[c], cl[c])
  BY <1>4 DEF SameEnds, ServerSession
<1> HIDE DEF t
<1>6. Ordered(t, cl[c], screen[c], v[c], s2c[c])
  BY <1>4, <1>5, OrderedKept
<1>7. ASSUME NEW e \in Clients
      PROVE  tt[e] \in ServerSession /\ Ordered(tt[e], cl[e], screen[e], v[e], s2c[e])
  <2>1. CASE e = c
    BY <1>3, <1>5, <1>6, <2>1, Zenon
  <2>2. CASE e # c
    BY <1>1, <1>3, <2>2, Zenon
  <2> QED BY <2>1, <2>2
<1>8. tt[c].id \in Nat
  BY <1>7 DEF ServerSession
<1>9. ASSUME NEW e \in Clients PROVE Silent(out[e])
  <2>1. Silent([u \in 1..max_user_id |-> Notify(u)]) /\ Silent(<<Notify(tt[c].id)>>) /\ Silent(<<>>)
    BY <1>2, <1>8, NoticesAreSilent
  <2> QED BY <2>1, Zenon
<1> HIDE DEF out
<1> QED BY <1>0, <1>7, <1>9, OrderNotices

LEMMA SilentToAll ==
    ASSUME NEW ss, NEW c, NEW id \in Nat, NEW yes,
           NEW out, out = IF yes THEN ToAll(ss, <<Notify(id)>>) ELSE Only(c, <<>>)
    PROVE  \A e \in Clients : Silent(out[e])
<1>1. Silent(<<Notify(id)>>) /\ Silent(<<>>)
  BY NoticesAreSilent
<1> QED BY <1>1, Zenon DEF ToAll, Only

LEMMA OrderUpdateAccountProperty ==
    ASSUME LoginInv, AllOrdered, NEW c \in Clients, ServerUpdateAccountProperty(c)
    PROVE  AllOrdered'
<1> DEFINE ss == Taken(c)
           v == Rest(c)
<1>0. /\ Arrives(c, "ServerUpdateAccountProperty") /\ c2s' = v
      /\ cl' = cl /\ screen' = screen
  BY DEF ServerUpdateAccountProperty
<1>1. PICK changed \in {FALSE, ss[c].id > 0} :
          ServerSends(ss, IF changed THEN ToAll(ss, <<Notify(ss[c].id)>>) ELSE Only(c, <<>>))
  BY DEF ServerUpdateAccountProperty
<1>2. /\ \A e \in Clients : ss[e] \in ServerSession
      /\ \A e \in Clients : Ordered(ss[e], cl[e], screen[e], v[e], s2c[e])
  BY <1>0, OrderTaking
<1> HIDE DEF ss, v
<1>3. ss[c].id \in Nat
  BY <1>2 DEF ServerSession
<1> DEFINE out == IF changed THEN ToAll(ss, <<Notify(ss[c].id)>>) ELSE Only(c, <<>>)
<1>4. \A e \in Clients : Silent(out[e])
  BY <1>3, SilentToAll, Zenon
<1>5. ServerSends(ss, out)
  BY <1>1
<1> HIDE DEF out
<1> QED BY <1>0, <1>2, <1>4, <1>5, OrderNotices

(* It answers who the client is.                                           *)
LEMMA OrderAnswers ==
    ASSUME LoginInv, AllOrdered, NEW c \in Clients, Arrives(c, "ServerReceiveClientInfo"),
           NEW answer \in ToClient, answer \in Answered,
           c2s' = Rest(c), ServerSends(Taken(c), Only(c, <<Command(answer, 0)>>)),
           cl' = cl, screen' = screen
    PROVE  AllOrdered'
<1> DEFINE ss == Taken(c)
           v == Rest(c)
           one == <<Command(answer, 0)>>
           out == Only(c, one)
<1>0. ServerSends(ss, out) /\ c2s' = v
  OBVIOUS
<1>1. /\ v[c] = Tail(c2s[c]) /\ \A e \in Clients : e # c => v[e] = c2s[e]
      /\ c2s[c] \in Seq(Wire(ToServer)) /\ Len(c2s[c]) > 0
      /\ c2s[c][1].kind = "ServerReceiveClientInfo"
      /\ \A e \in Clients : ss[e] \in ServerSession
      /\ \A e \in Clients : Ordered(ss[e], cl[e], screen[e], c2s[e], s2c[e])
      /\ \A e \in Clients : s2c[e] \in Seq(Wire(ToClient))
  BY OrderTaking DEF LoginInv, TypeOK
<1>2. ss[c].accepted
  BY Taking
<1> HIDE DEF ss, v
<1>3. one \in Commands(ToClient) /\ Len(one) = 1 /\ one[1].kind = answer
  BY CommandFacts
<1> HIDE DEF one
<1>4. out[c] = one /\ \A e \in Clients : e # c => out[e] = <<>>
  BY DEF Only
<1> HIDE DEF out
<1>5. \A e \in Clients : out[e] \in Commands(ToClient)
  BY <1>3, <1>4, NoticesAreSilent DEF Silent
<1>6. ~Has(one, Info) /\ Has(one, Answered)
  BY <1>3 DEF Has, Info, Answered
<1>7. ASSUME NEW e \in Clients
      PROVE  /\ Has(Sealed(ss[e], out[e]), Info) <=> Has(out[e], Info)
             /\ Has(Sealed(ss[e], out[e]), Answered) <=> Has(out[e], Answered)
             /\ Sealed(ss[e], out[e]) \in Seq(Wire(ToClient))
  <2>1. ss[e] \in ServerSession
    BY <1>1
  <2>2. ss[e].encryption \in BOOLEAN /\ ss[e].sealed \in Nat
    BY <2>1 DEF ServerSession
  <2> QED BY <1>5, <2>2, SealedHas, SealedFacts
<1>8. ASSUME NEW e \in Clients
      PROVE  Ordered(ss[e], cl[e], screen[e], v[e],
                     IF ss[e].open /\ cl[e].up THEN s2c[e] \o Sealed(ss[e], out[e]) ELSE s2c[e])
  <2>1. CASE e = c
    <3> DEFINE s == ss[c]
               y == Sealed(ss[c], out[c])
    <3>1. Ordered(s, cl[c], screen[c], c2s[c], s2c[c]) /\ s.accepted
      BY <1>1, <1>2
    <3>2. ~Has(y, Info) /\ Has(y, Answered) /\ y \in Seq(Wire(ToClient))
      BY <1>4, <1>6, <1>7, Zenon
    <3> HIDE DEF s, y
    <3>3. Ordered(s, cl[c], screen[c], Tail(c2s[c]), s2c[c] \o y)
      BY <1>1, <3>1, <3>2, OrderedAnswered
    <3>4. ASSUME ~s.open \/ ~cl[c].up
          PROVE  Ordered(s, cl[c], screen[c], Tail(c2s[c]), s2c[c])
      <4>1. Behind(c2s[c], Data, Key) => Behind(Tail(c2s[c]), Data, Key)
        <5>1. c2s[c][1].kind \notin Key
          BY <1>1 DEF Key
        <5> QED BY <1>1, <5>1, TailBehind
      <4> QED BY <3>1, <3>4, <4>1, OrderedAnyway
    <3>5. Ordered(s, cl[c], screen[c], Tail(c2s[c]), IF s.open /\ cl[c].up THEN s2c[c] \o y ELSE s2c[c])
      BY <3>3, <3>4, Zenon
    <3> QED BY <1>1, <2>1, <3>5, Zenon DEF s, y
  <2>2. CASE e # c
    <3>1. Ordered(ss[e], cl[e], screen[e], v[e], s2c[e])
      BY <1>1, <2>2, Zenon
    <3>2. ~Has(Sealed(ss[e], out[e]), Info) /\ Sealed(ss[e], out[e]) \in Seq(Wire(ToClient))
      BY <1>4, <1>7, <2>2, NoticesAreSilent, Zenon DEF Silent
    <3>3. Ordered(ss[e], cl[e], screen[e], v[e], s2c[e] \o Sealed(ss[e], out[e]))
      BY <1>1, <3>1, <3>2, OrderedTold
    <3> QED BY <3>1, <3>3, Zenon
  <2> QED BY <2>1, <2>2
<1> QED BY <1>0, <1>1, <1>5, <1>8, OrderSends

LEMMA OrderReceiveClientInfo ==
    ASSUME LoginInv, AllOrdered, NEW c \in Clients, ServerReceiveClientInfo(c)
    PROVE  AllOrdered'
<1>0. /\ Arrives(c, "ServerReceiveClientInfo")
      /\ cl' = cl /\ screen' = screen
  BY DEF ServerReceiveClientInfo
<1>1. CASE ~(GetUserCount >= Capacity)
  <2> DEFINE answer == IF c \in OldClients THEN "ClientReceiveUnsupportVersionError"
                       ELSE "ClientRequestedPublicKey"
  <2>1. /\ c2s' = Rest(c)
        /\ ServerSends(Taken(c), Only(c, <<IF c \in OldClients
                                          THEN Command("ClientReceiveUnsupportVersionError", 0)
                                          ELSE Command("ClientRequestedPublicKey", 0)>>))
    BY <1>1, Zenon DEF ServerReceiveClientInfo
  <2>2. (IF c \in OldClients THEN Command("ClientReceiveUnsupportVersionError", 0)
         ELSE Command("ClientRequestedPublicKey", 0)) = Command(answer, 0)
    BY Zenon
  <2>3. ServerSends(Taken(c), Only(c, <<Command(answer, 0)>>))
    BY <2>1, <2>2, Zenon
  <2>4. answer \in {"ClientReceiveUnsupportVersionError", "ClientRequestedPublicKey"}
    OBVIOUS
  <2> HIDE DEF answer
  <2>5. answer \in ToClient /\ answer \in Answered
    BY <2>4 DEF ToClient, Answered
  <2> QED BY <1>0, <2>1, <2>3, <2>5, OrderAnswers
<1>2. CASE GetUserCount >= Capacity
  <2> DEFINE ss == Taken(c)
             s == ss[c]
             close == [Closed(s) EXCEPT !.refused = TRUE]
             shut == [ss EXCEPT ![c] = [Closed(@) EXCEPT !.refused = TRUE]]
             t == [close EXCEPT !.unsent = TRUE]
             told == Append(s2c[c], Sealed(sess[c],
                            <<Command("ClientReceiveServerCrowdedError", 0)>>)[1])
             out == IF shut[c].open THEN told \o Sealed(shut[c], <<
                        IF c \in OldClients
                        THEN Command("ClientReceiveUnsupportVersionError", 0)
                        ELSE Command("ClientRequestedPublicKey", 0)>>) ELSE told
  <2>1. /\ \E n \in 0..Len(out) :
              s2c' = [s2c EXCEPT ![c] = IF ~cl[c].up THEN <<>>
                                        ELSE IF shut[c].open THEN out
                                        ELSE SubSeq(out, 1, n)]
        /\ \E n \in 0..Len(Tail(c2s[c])) :
              c2s' = [c2s EXCEPT ![c] = IF shut[c].open THEN Tail(@) ELSE SubSeq(Tail(@), 1, n)]
        /\ sess' = [shut EXCEPT ![c].unsent = TRUE]
    BY <1>2, Zenon DEF ServerReceiveClientInfo
  <2>2. Shaped
    BY Together
  <2>3. /\ s \in ServerSession /\ s.accepted /\ ss = [e \in Clients |-> ss[e]]
        /\ Ordered(s, cl[c], screen[c], c2s[c], s2c[c])
        /\ c2s[c] \in Seq(Wire(ToServer)) /\ Len(c2s[c]) > 0
        /\ c2s[c][1].kind = "ServerReceiveClientInfo"
    <3>1. /\ \A e \in Clients : ss[e] \in ServerSession
          /\ \A e \in Clients : Ordered(ss[e], cl[e], screen[e], c2s[e], s2c[e])
          /\ c2s[c] \in Seq(Wire(ToServer)) /\ Len(c2s[c]) > 0
          /\ c2s[c][1].kind = "ServerReceiveClientInfo"
      BY <1>0, OrderTaking
    <3>2. ss[c].accepted /\ ss = [e \in Clients |-> ss[e]]
      BY <1>0, Taking
    <3> QED BY <3>1, <3>2
  <2>4. ss = [sess EXCEPT ![c] = s]
    BY <2>2 DEF Taken, Shaped
  <2> HIDE DEF ss, s
  <2>5. shut = [ss EXCEPT ![c] = close] /\ shut[c] = close
    BY <2>3, Zenon DEF s
  <2>6. ~close.open /\ close.id = s.id /\ close.accepted
    BY <2>3 DEF Closed, ServerSession
  <2>7. ~t.open /\ t.id = s.id /\ t.accepted
    BY <2>3 DEF Closed, ServerSession
  <2> HIDE DEF close
  <2>8. sess' = [sess EXCEPT ![c] = t]
    <3>1. shut = [sess EXCEPT ![c] = close]
      BY <2>2, <2>4, <2>5 DEF Shaped
    <3> HIDE DEF shut
    <3> QED BY <2>1, <2>2, <3>1 DEF Shaped
  <2> HIDE DEF t
  <2>9. ~shut[c].open
    BY <2>5, <2>6
  <2> HIDE DEF shut, out
  <2>10. \E d : s2c' = [s2c EXCEPT ![c] = d]
    BY <2>1, Zenon
  <2>11. PICK d : s2c' = [s2c EXCEPT ![c] = d]
    BY <2>10
  <2>12. PICK i \in 0..Len(Tail(c2s[c])) :
            c2s' = [c2s EXCEPT ![c] = SubSeq(Tail(c2s[c]), 1, i)]
    BY <2>1, <2>9, Zenon
  <2>13. Behind(c2s[c], Data, Key) => Behind(SubSeq(Tail(c2s[c]), 1, i), Data, Key)
    <3> DEFINE x == Tail(c2s[c])
    <3>1. c2s[c][1].kind \notin Key
      BY <2>3 DEF Key
    <3>2. x \in Seq(Wire(ToServer)) /\ (Behind(c2s[c], Data, Key) => Behind(x, Data, Key))
      BY <2>3, <3>1, TailBehind, TailFacts
    <3>3. i \in 0..Len(x)
      OBVIOUS
    <3> HIDE DEF x
    <3>4. Behind(x, Data, Key) => Behind(SubSeq(x, 1, i), Data, Key)
      BY <3>2, <3>3, PrefixBehind
    <3> QED BY <3>2, <3>4 DEF x
  <2> DEFINE u == SubSeq(Tail(c2s[c]), 1, i)
  <2>14. c2s' = [c2s EXCEPT ![c] = u] /\ (Behind(c2s[c], Data, Key) => Behind(u, Data, Key))
    BY <2>12, <2>13
  <2> HIDE DEF u
  <2>15. Ordered(t, cl[c], screen[c], u, d)
    BY <2>3, <2>7, <2>14, OrderedAnyway
  <2>16. cl' = [cl EXCEPT ![c] = cl[c]] /\ screen' = [screen EXCEPT ![c] = screen[c]]
    BY <1>0, <2>2, Zenon DEF Shaped
  <2> QED BY <2>8, <2>11, <2>14, <2>15, <2>16, OrderOfOne
<1> QED BY <1>1, <1>2

(* A connection fails; s is the session then.                              *)
LEMMA OrderFatalError ==
    ASSUME LoginInv, AllOrdered, NEW c \in Clients, NEW s, FatalError(c, s),
           SameServer(sess[c], s), cl' = cl, screen' = screen, c2s' = c2s
    PROVE  AllOrdered'
<1> DEFINE t == [s EXCEPT !.online = FALSE]
           ss == [sess EXCEPT ![c] = t]
<1>1. Shaped
  BY Together
<1>2. \A e \in Clients : Ordered(sess[e], cl[e], screen[e], c2s[e], s2c[e])
  BY DEF AllOrdered, Order
<1>3. s \in ServerSession
  BY DEF SameServer
<1>4. SameEnds(sess[c], s, cl[c], cl[c])
  BY DEF SameServer, SameEnds
<1>5. t \in ServerSession /\ SameEnds(s, t, cl[c], cl[c])
  BY <1>3 DEF SameEnds, ServerSession
<1> HIDE DEF t
<1>6. /\ Ordered(s, cl[c], screen[c], c2s[c], s2c[c])
      /\ Ordered(t, cl[c], screen[c], c2s[c], s2c[c])
  <2>1. Ordered(s, cl[c], screen[c], c2s[c], s2c[c])
    BY <1>2, <1>4, OrderedKept
  <2> QED BY <1>5, <2>1, OrderedKept
<1>7. CASE ~s.online
  <2> DEFINE k == cl[c]
             m == screen[c]
             u == c2s[c]
             d == s2c[c]
  <2>1. sess' = [sess EXCEPT ![c] = s] /\ s2c' = s2c
    BY <1>7 DEF FatalError
  <2>2. /\ cl' = [cl EXCEPT ![c] = k] /\ screen' = [screen EXCEPT ![c] = m]
        /\ c2s' = [c2s EXCEPT ![c] = u] /\ s2c' = [s2c EXCEPT ![c] = d]
    BY <1>1, <2>1, Zenon DEF Shaped
  <2>3. Ordered(s, k, m, u, d) /\ sess' = [sess EXCEPT ![c] = s]
    BY <1>6, <2>1
  <2> HIDE DEF k, m, u, d
  <2> QED BY <2>2, <2>3, OrderOfOne
<1>8. CASE s.online
  <2> DEFINE out == IF s.id > 0 THEN ToAll(ss, <<Notify(s.id)>>) ELSE Only(c, <<>>)
  <2>1. ServerSends(ss, out)
    BY <1>8, Zenon DEF FatalError, t
  <2>2. s.id \in Nat
    BY <1>3 DEF ServerSession
  <2>3. ss[c] = t /\ \A e \in Clients : e # c => ss[e] = sess[e]
    BY <1>1 DEF Shaped
  <2> HIDE DEF ss
  <2>4. ASSUME NEW e \in Clients
        PROVE  ss[e] \in ServerSession /\ Ordered(ss[e], cl[e], screen[e], c2s[e], s2c[e])
    <3>1. CASE e = c
      BY <1>5, <1>6, <2>3, <3>1, Zenon
    <3>2. CASE e # c
      BY <1>2, <2>3, <3>2, Zenon DEF LoginInv, TypeOK
    <3> QED BY <3>1, <3>2
  <2>5. \A e \in Clients : Silent(out[e])
    BY <2>2, SilentToAll, Zenon
  <2> HIDE DEF out
  <2>6. \A e \in Clients : ss[e] \in ServerSession
    BY <2>4
  <2>7. \A e \in Clients : Ordered(ss[e], cl[e], screen[e], c2s[e], s2c[e])
    BY <2>4
  <2> QED BY <2>1, <2>5, <2>6, <2>7, OrderNotices
<1> QED BY <1>7, <1>8

LEMMA OrderReadFails ==
    ASSUME LoginInv, AllOrdered, NEW c \in Clients, ReadFails(c)
    PROVE  AllOrdered'
<1> DEFINE s == [sess[c] EXCEPT !.reading = FALSE]
<1>1. sess[c] \in ServerSession
  BY DEF LoginInv, TypeOK
<1>2. SameServer(sess[c], s)
  BY <1>1 DEF SameServer, ServerSession
<1>3. FatalError(c, s) /\ cl' = cl /\ screen' = screen /\ c2s' = c2s
  BY DEF ReadFails
<1> HIDE DEF s
<1> QED BY <1>2, <1>3, OrderFatalError

LEMMA OrderWriteFails ==
    ASSUME LoginInv, AllOrdered, NEW c \in Clients, WriteFails(c)
    PROVE  AllOrdered'
<1>1. SameServer(sess[c], sess[c])
  BY DEF LoginInv, TypeOK, SameServer
<1> QED BY <1>1, OrderFatalError DEF WriteFails

-----------------------------------------------------------------------------
(* The steps of a client's network thread keep the order.                  *)

LEMMA SealedBehind ==
    ASSUME NEW kinds, NEW e, e.encryption \in BOOLEAN, e.sealed \in Nat,
           NEW out \in Commands(kinds), NEW A, NEW B, Behind(out, A, B)
    PROVE  Behind(Sealed(e, out), A, B)
<1>1. Len(Sealed(e, out)) = Len(out) /\ \A i \in 1..Len(out) : Sealed(e, out)[i].kind = out[i].kind
  BY SealedFacts
<1> DEFINE y == Sealed(e, out)
<1> HIDE DEF y
<1> SUFFICES ASSUME NEW q \in 1..Len(y), y[q].kind \in A
             PROVE  \E p \in 1..(q - 1) : y[p].kind \in B
  BY DEF Behind, y
<1>2. Len(out) \in Nat
  BY DEF Commands
<1>3. q \in 1..Len(out) /\ out[q].kind \in A
  BY <1>1 DEF y
<1>4. PICK p \in 1..(q - 1) : out[p].kind \in B
  BY <1>3 DEF Behind
<1>5. p \in 1..Len(out)
  BY <1>2, <1>3, <1>4
<1> QED BY <1>1, <1>4, <1>5 DEF y

LEMMA OrderReceiving ==
    ASSUME LoginInv, AllOrdered, NEW c \in Clients, NEW kind, Receives(c, kind)
    PROVE  /\ s2c[c] \in Seq(Wire(ToClient)) /\ Len(s2c[c]) > 0 /\ s2c[c][1].kind = kind
           /\ c2s[c] \in Seq(Wire(ToServer))
           /\ screen[c] \in Screen /\ Opened(c) \in ClientSession
           /\ Ordered(sess[c], Opened(c), screen[c], c2s[c], s2c[c]) /\ sess[c].accepted
           /\ screen'[c] = IF kind \in Fetched
                           THEN [screen[c] EXCEPT !.command_queue = Append(@, kind)] ELSE screen[c]
<1>1. ClientInv(sess[c], cl[c], screen[c], c2s[c], s2c[c]) /\ Shaped
  BY Together DEF AllSound, Sound
<1>2. /\ s2c[c] \in Seq(Wire(ToClient)) /\ c2s[c] \in Seq(Wire(ToServer))
      /\ screen[c] \in Screen /\ cl[c] \in ClientSession
  BY <1>1 DEF ClientInv, Typed
<1>3. Len(s2c[c]) > 0 /\ s2c[c][1].kind = kind /\ Head(s2c[c]).cipher \in Nat
  <2>1. s2c[c] # <<>> /\ Head(s2c[c]).kind = kind
    BY DEF Receives
  <2>2. Len(s2c[c]) > 0
    BY <1>2, <2>1
  <2>3. Head(s2c[c]) = s2c[c][1] /\ 1 \in 1..Len(s2c[c])
    BY <1>2, <2>2
  <2>4. s2c[c][1].cipher \in Nat
    BY <1>2, <2>3, FieldFacts
  <2> QED BY <2>1, <2>2, <2>3, <2>4, Zenon
<1>4. /\ Opened(c) \in ClientSession
      /\ Opened(c).up <=> cl[c].up
      /\ Opened(c).keyed <=> cl[c].keyed
  BY <1>2, <1>3, ClientUnseals DEF Opened
<1>5. Ordered(sess[c], cl[c], screen[c], c2s[c], s2c[c])
  BY DEF AllOrdered, Order
<1>6. SameEnds(sess[c], sess[c], cl[c], Opened(c))
  BY <1>4 DEF SameEnds
<1>7. Ordered(sess[c], Opened(c), screen[c], c2s[c], s2c[c])
  BY <1>5, <1>6, OrderedKept
<1>8. screen'[c] = IF kind \in Fetched
                   THEN [screen[c] EXCEPT !.command_queue = Append(@, kind)] ELSE screen[c]
  BY <1>1 DEF Receives, Shaped
<1>9. sess[c].accepted
  BY Receiving
<1> QED BY <1>2, <1>3, <1>4, <1>7, <1>8, <1>9

(* The thread answers, its session being e before it does.                 *)
LEMMA OrderReplying ==
    ASSUME LoginInv, AllOrdered, NEW c \in Clients, NEW kind, Receives(c, kind),
           NEW e \in ClientSession, NEW out, Reply(c, e, out),
           Ordered(sess[c], e, screen'[c],
                   IF sess[c].open THEN c2s[c] \o Sealed(e, out) ELSE c2s[c], Tail(s2c[c]))
    PROVE  AllOrdered'
<1> DEFINE l == AfterSealing(e, out)
           u == IF sess[c].open THEN c2s[c] \o Sealed(e, out) ELSE c2s[c]
           m == screen'[c]
           d == Tail(s2c[c])
           s == sess[c]
<1>1. /\ screen' = [screen EXCEPT ![c] = m] /\ s2c' = [s2c EXCEPT ![c] = d]
  BY Receiving
<1>2. cl' = [cl EXCEPT ![c] = l] /\ c2s' = [c2s EXCEPT ![c] = u]
  BY Zenon DEF Reply, ClientSends
<1>3. sess' = [sess EXCEPT ![c] = s]
  <2>1. Shaped
    BY Together
  <2> QED BY <2>1, Zenon DEF Reply, Shaped
<1>4. Ordered(s, e, m, u, d)
  OBVIOUS
<1>5. SameEnds(s, s, e, l)
  BY DEF SameEnds, AfterSealing, ClientSession
<1> HIDE DEF l, u, m, d, s
<1>6. Ordered(s, l, m, u, d)
  BY <1>4, <1>5, OrderedKept
<1> QED BY <1>1, <1>2, <1>3, <1>6, OrderOfOne

(* The thread does not answer.                                             *)
LEMMA OrderQueueing ==
    ASSUME LoginInv, AllOrdered, NEW c \in Clients, NEW kind, Receives(c, kind), NEW l,
           Ordered(sess[c], l, screen'[c], c2s[c], Tail(s2c[c])),
           cl' = [cl EXCEPT ![c] = l], sess' = sess, c2s' = c2s
    PROVE  AllOrdered'
<1> DEFINE m == screen'[c]
           d == Tail(s2c[c])
           u == c2s[c]
           s == sess[c]
<1>1. screen' = [screen EXCEPT ![c] = m] /\ s2c' = [s2c EXCEPT ![c] = d]
  BY Receiving
<1>2. sess' = [sess EXCEPT ![c] = s] /\ c2s' = [c2s EXCEPT ![c] = u]
  <2>1. Shaped
    BY Together
  <2> QED BY <2>1, Zenon DEF Shaped
<1>3. Ordered(s, l, m, u, d) /\ cl' = [cl EXCEPT ![c] = l]
  OBVIOUS
<1> HIDE DEF u, m, d, s
<1> QED BY <1>1, <1>2, <1>3, OrderOfOne

LEMMA OrderRequestedClientInfo ==
    ASSUME LoginInv, AllOrdered, NEW c \in Clients, ClientRequestedClientInfo(c)
    PROVE  AllOrdered'
<1> DEFINE R == [kind : ToServer, id : Nat]
           a == Command("ServerReceiveClientInfo", 0)
           b == Command("ServerRequestedFullServerInfo", 0)
           out == <<a, b>>
           k == Opened(c)
           s == sess[c]
           u == c2s[c]
           d == s2c[c]
           m == screen[c]
           y == Sealed(k, out)
<1>1. Receives(c, "ClientRequestedClientInfo") /\ Reply(c, k, out)
  BY DEF ClientRequestedClientInfo
<1>2. /\ d \in Seq(Wire(ToClient)) /\ Len(d) > 0 /\ d[1].kind = "ClientRequestedClientInfo"
      /\ u \in Seq(Wire(ToServer)) /\ m \in Screen /\ k \in ClientSession
      /\ Ordered(s, k, m, u, d) /\ s.accepted
      /\ screen'[c] = IF "ClientRequestedClientInfo" \in Fetched
                      THEN [m EXCEPT !.command_queue = Append(@, "ClientRequestedClientInfo")] ELSE m
  BY <1>1, OrderReceiving
<1>3. screen'[c] = m
  BY <1>2 DEF Fetched
<1>4. /\ a \in R /\ a.kind = "ServerReceiveClientInfo"
      /\ b \in R /\ b.kind = "ServerRequestedFullServerInfo"
  BY DEF Command, ToServer
<1> HIDE DEF a, b, R
<1>5. out \in Seq(R) /\ Len(out) = 2 /\ out[1] = a /\ out[2] = b
  BY <1>4
<1> HIDE DEF out
<1>6. out \in Commands(ToServer) /\ \A i \in 1..Len(out) : i = 1 \/ i = 2
  BY <1>5 DEF Commands, R
<1>7. ~Has(out, Data)
  <2>1. a.kind \notin Data /\ b.kind \notin Data
    BY <1>4 DEF Data
  <2> QED BY <1>5, <1>6, <2>1 DEF Has
<1>8. Behind(out, {"ServerRequestedFullServerInfo"}, {"ServerReceiveClientInfo"})
  <2> SUFFICES ASSUME NEW q \in 1..Len(out), out[q].kind \in {"ServerRequestedFullServerInfo"}
               PROVE  \E p \in 1..(q - 1) : out[p].kind \in {"ServerReceiveClientInfo"}
    BY DEF Behind
  <2>1. q = 2
    BY <1>4, <1>5, <1>6
  <2>2. 1 \in 1..(q - 1) /\ out[1].kind \in {"ServerReceiveClientInfo"}
    BY <1>4, <1>5, <2>1
  <2> QED BY <2>2
<1>9. k.encryption \in BOOLEAN /\ k.sealed \in Nat
  BY <1>2 DEF ClientSession
<1> HIDE DEF k, s, u, d, m
<1>10. /\ y \in Seq(Wire(ToServer)) /\ ~Has(y, Data)
       /\ Behind(y, {"ServerRequestedFullServerInfo"}, {"ServerReceiveClientInfo"})
  BY <1>6, <1>7, <1>8, <1>9, SealedHas, SealedBehind, SealedFacts
<1> HIDE DEF y
<1>11. Ordered(s, k, m, u, Tail(d))
  <2>1. d[1].kind \notin Answered
    BY <1>2 DEF Answered
  <2> QED BY <1>2, <2>1, OrderedReceived
<1>12. Ordered(s, k, m, u \o y, Tail(d))
  BY <1>2, <1>10, <1>11, OrderedSaid
<1>13. Ordered(s, k, screen'[c], IF s.open THEN u \o y ELSE u, Tail(d))
  BY <1>3, <1>11, <1>12, Zenon
<1> QED BY <1>1, <1>2, <1>13, OrderReplying DEF k, s, u, d, y

LEMMA OrderRequestedPublicKey ==
    ASSUME LoginInv, AllOrdered, NEW c \in Clients, ClientRequestedPublicKey(c)
    PROVE  AllOrdered'
<1> DEFINE out == <<Command("ServerReceivePublicKey", 0)>>
           k == Opened(c)
           s == sess[c]
           u == c2s[c]
           d == s2c[c]
           m == screen[c]
           y == Sealed(k, out)
<1>1. Receives(c, "ClientRequestedPublicKey") /\ Reply(c, k, out)
  BY DEF ClientRequestedPublicKey
<1>2. /\ u \in Seq(Wire(ToServer)) /\ k \in ClientSession
      /\ Ordered(s, k, m, u, d) /\ s.accepted
      /\ screen'[c] = IF "ClientRequestedPublicKey" \in Fetched
                      THEN [m EXCEPT !.command_queue = Append(@, "ClientRequestedPublicKey")] ELSE m
  BY <1>1, OrderReceiving
<1>3. screen'[c] = m
  BY <1>2 DEF Fetched
<1>4. out \in Commands(ToServer) /\ Len(out) = 1 /\ out[1].kind = "ServerReceivePublicKey"
  <2>1. "ServerReceivePublicKey" \in ToServer
    BY DEF ToServer
  <2> QED BY <2>1, CommandFacts
<1> HIDE DEF out
<1>5. ~Has(out, Data) /\ Has(out, Key)
  BY <1>4 DEF Has, Data, Key
<1>6. k.encryption \in BOOLEAN /\ k.sealed \in Nat
  BY <1>2 DEF ClientSession
<1> HIDE DEF k, s, u, d, m
<1>7. y \in Seq(Wire(ToServer)) /\ ~Has(y, Data) /\ Has(y, Key)
  BY <1>4, <1>5, <1>6, SealedHas, SealedFacts
<1> HIDE DEF y
<1>8. Ordered(s, k, m, u \o y, Tail(d))
  BY <1>2, <1>7, OrderedKey
<1>9. ~s.open => Ordered(s, k, m, u, Tail(d))
  BY <1>2, OrderedAnyway
<1>10. Ordered(s, k, screen'[c], IF s.open THEN u \o y ELSE u, Tail(d))
  BY <1>3, <1>8, <1>9, Zenon
<1> QED BY <1>1, <1>2, <1>10, OrderReplying DEF k, s, u, d, y

LEMMA OrderReceiveCommonKey ==
    ASSUME LoginInv, AllOrdered, NEW c \in Clients, ClientReceiveCommonKey(c)
    PROVE  AllOrdered'
<1> DEFINE k == Opened(c)
           e == [k EXCEPT !.id = Head(s2c[c]).id, !.keyed = TRUE]
           s == sess[c]
           m == screen[c]
           u == IF s.open THEN c2s[c] \o Sealed(e, KeyReply) ELSE c2s[c]
           d == Tail(s2c[c])
<1>1. Receives(c, "ClientReceiveCommonKey") /\ Reply(c, e, KeyReply)
  BY DEF ClientReceiveCommonKey
<1>2. /\ k \in ClientSession /\ Ordered(s, k, m, c2s[c], s2c[c]) /\ s.accepted
      /\ screen'[c] = IF "ClientReceiveCommonKey" \in Fetched
                      THEN [m EXCEPT !.command_queue = Append(@, "ClientReceiveCommonKey")] ELSE m
  BY <1>1, OrderReceiving
<1>3. screen'[c] = m
  BY <1>2 DEF Fetched
<1>4. Head(s2c[c]).id = s.id /\ s.id > 0
  <2>1. ClientTurnSays(sess[c], Opened(c), Head(s2c[c])) /\ Head(s2c[c]).kind = "ClientReceiveCommonKey"
    BY <1>1, Receiving
  <2> QED BY <2>1 DEF ClientTurnSays
<1>5. s.id \in Nat
  BY DEF LoginInv, TypeOK, ServerSession
<1> HIDE DEF k, s, m
<1>6. e \in ClientSession /\ e.keyed
  BY <1>2, <1>4, <1>5 DEF ClientSession
<1> HIDE DEF e, u, d
<1>7. Ordered(s, e, m, u, d)
  BY <1>2, <1>4, <1>6, OrderedKnown
<1>8. Ordered(s, e, screen'[c], u, d)
  BY <1>3, <1>7
<1> QED BY <1>1, <1>6, <1>8, OrderReplying DEF s, u, d

LEMMA OrderClientStartEncryptedSession ==
    ASSUME LoginInv, AllOrdered, NEW c \in Clients, ClientStartEncryptedSession(c)
    PROVE  AllOrdered'
<1> DEFINE kind == "ClientStartEncryptedSession"
           k == Opened(c)
           l == [k EXCEPT !.encryption = TRUE]
           s == sess[c]
           m == screen[c]
           n == [m EXCEPT !.command_queue = Append(@, kind)]
           u == c2s[c]
           d == s2c[c]
<1>1. /\ Receives(c, kind) /\ kind \in Fetched
      /\ cl' = [cl EXCEPT ![c] = l] /\ sess' = sess /\ c2s' = c2s
  BY DEF ClientStartEncryptedSession, Fetched
<1>2. /\ d \in Seq(Wire(ToClient)) /\ Len(d) > 0 /\ d[1].kind = kind
      /\ m \in Screen /\ k \in ClientSession
      /\ Ordered(s, k, m, u, d) /\ s.accepted
      /\ screen'[c] = IF kind \in Fetched THEN n ELSE m
  BY <1>1, OrderReceiving
<1>3. k.keyed
  <2>1. ClientTurnSays(sess[c], Opened(c), Head(s2c[c])) /\ Head(s2c[c]).kind = kind
    BY <1>1, Receiving
  <2> QED BY <2>1 DEF ClientTurnSays
<1>4. kind \notin Info /\ d[1].kind \notin Answered
  BY <1>2 DEF Info, Answered
<1>5. screen'[c] = n
  BY <1>1, <1>2
<1> HIDE DEF kind, k, s, m, u, d
<1>6. Ordered(s, k, m, u, Tail(d))
  BY <1>2, <1>4, OrderedReceived
<1>7. Ordered(s, k, n, u, Tail(d))
  BY <1>1, <1>2, <1>3, <1>4, <1>6, OrderedQueued
<1>8. SameEnds(s, s, k, l)
  BY <1>2 DEF SameEnds, ClientSession
<1> HIDE DEF n, l
<1>9. Ordered(s, l, n, u, Tail(d))
  BY <1>7, <1>8, OrderedKept
<1>10. Ordered(s, l, screen'[c], u, Tail(d))
  BY <1>5, <1>9
<1> QED BY <1>1, <1>10, OrderQueueing DEF s, u, d

LEMMA OrderClientQueues ==
    ASSUME LoginInv, AllOrdered, NEW c \in Clients, ClientQueues(c)
    PROVE  AllOrdered'
<1> DEFINE k == Opened(c)
           s == sess[c]
           m == screen[c]
           u == c2s[c]
           d == s2c[c]
<1>1. PICK kind : /\ kind \in {"ClientReceiveFullServerInfo", "ClientReceiveServerCrowdedError",
                               "ClientReceiveUnsupportVersionError",
                               "ClientReceiveAccountRevisionUpdateNotify"}
                  /\ Receives(c, kind) /\ cl' = [cl EXCEPT ![c] = k]
                  /\ sess' = sess /\ c2s' = c2s
  BY DEF ClientQueues
<1> DEFINE n == [m EXCEPT !.command_queue = Append(@, kind)]
<1>2. /\ d \in Seq(Wire(ToClient)) /\ Len(d) > 0 /\ d[1].kind = kind
      /\ m \in Screen /\ k \in ClientSession
      /\ Ordered(s, k, m, u, d) /\ s.accepted
      /\ screen'[c] = IF kind \in Fetched THEN n ELSE m
  BY <1>1, OrderReceiving
<1>3. Receives(c, kind) /\ cl' = [cl EXCEPT ![c] = k] /\ sess' = sess /\ c2s' = c2s
  BY <1>1
<1>4. CASE kind = "ClientReceiveFullServerInfo"
  <2>1. kind \in Fetched /\ kind \in Info /\ d[1].kind \in Info
    BY <1>2, <1>4 DEF Fetched, Info
  <2>2. screen'[c] = n
    BY <1>2, <2>1
  <2> HIDE DEF k, s, m, u, d
  <2>3. Ordered(s, k, n, u, Tail(d))
    BY <1>2, <2>1, OrderedToldOf
  <2>4. Ordered(s, k, screen'[c], u, Tail(d))
    BY <2>2, <2>3
  <2> QED BY <1>3, <2>4, OrderQueueing DEF s, u, d
<1>5. CASE kind \in {"ClientReceiveServerCrowdedError", "ClientReceiveUnsupportVersionError"}
  <2>1. kind \in Fetched /\ EndsConnection(kind)
    BY <1>5 DEF Fetched, EndsConnection
  <2>2. screen'[c] = n
    BY <1>2, <2>1
  <2> HIDE DEF k, s, m, u, d
  <2>3. Ordered(s, k, n, u, Tail(d))
    BY <1>2, <2>1, OrderedRefused
  <2>4. Ordered(s, k, screen'[c], u, Tail(d))
    BY <2>2, <2>3
  <2> QED BY <1>3, <2>4, OrderQueueing DEF s, u, d
<1>6. CASE kind = "ClientReceiveAccountRevisionUpdateNotify"
  <2>1. kind \notin Fetched /\ d[1].kind \notin Answered
    BY <1>2, <1>6 DEF Fetched, Answered
  <2>2. screen'[c] = m
    BY <1>2, <2>1
  <2> HIDE DEF k, s, m, u, d
  <2>3. Ordered(s, k, m, u, Tail(d))
    BY <1>2, <2>1, OrderedReceived
  <2>4. Ordered(s, k, screen'[c], u, Tail(d))
    BY <2>2, <2>3
  <2> QED BY <1>3, <2>4, OrderQueueing DEF s, u, d
<1> QED BY <1>1, <1>4, <1>5, <1>6

LEMMA OrderClientReadFails ==
    ASSUME LoginInv, AllOrdered, NEW c \in Clients, ClientReadFails(c)
    PROVE  AllOrdered'
<1> DEFINE s == sess[c]
           k == cl[c]
           l == [k EXCEPT !.online = FALSE]
           m == screen[c]
           n == [m EXCEPT !.command_queue = Append(@, "FatalConnectionError")]
           u == c2s[c]
           d == s2c[c]
<1>1. ClientInv(s, k, m, u, d) /\ Shaped
  BY Together DEF AllSound, Sound
<1>2. k \in ClientSession /\ m \in Screen
  BY <1>1 DEF ClientInv, Typed
<1>3. k.up
  BY DEF ClientReadFails
<1>4. cl' = [cl EXCEPT ![c] = l] /\ screen' = [screen EXCEPT ![c] = n]
  BY DEF ClientReadFails
<1>5. /\ sess' = [sess EXCEPT ![c] = s] /\ c2s' = [c2s EXCEPT ![c] = u]
      /\ s2c' = [s2c EXCEPT ![c] = d]
  BY <1>1, Zenon DEF ClientReadFails, Shaped
<1>6. Ordered(s, k, m, u, d)
  BY DEF AllOrdered, Order
<1> HIDE DEF s, k, m, u, d
<1>7. s.accepted
  BY <1>1, <1>3 DEF ClientInv, Fresh
<1>8. SameEnds(s, s, k, l)
  BY <1>2 DEF SameEnds, ClientSession
<1> HIDE DEF l
<1>9. "FatalConnectionError" \in Fetched /\ EndsConnection("FatalConnectionError")
  BY DEF Fetched, EndsConnection
<1>10. Ordered(s, k, n, u, d)
  BY <1>2, <1>6, <1>7, <1>9, OrderedRefused
<1> HIDE DEF n
<1>11. Ordered(s, l, n, u, d)
  BY <1>8, <1>10, OrderedKept
<1> QED BY <1>4, <1>5, <1>11, OrderOfOne

-----------------------------------------------------------------------------
(* The steps of a client's main thread keep the order.                     *)

LEMMA OrderDestroyClient ==
    ASSUME LoginInv, AllOrdered, NEW c \in Clients, cl[c].up, DestroyClient(c)
    PROVE  AllOrdered'
<1> DEFINE s == sess[c]
           k == cl[c]
           l == [k EXCEPT !.up = FALSE]
           m == screen[c]
           n == [m EXCEPT !.command_queue = <<>>, !.todo = <<>>, !.pending = <<>>]
<1>1. ClientInv(s, k, m, c2s[c], s2c[c]) /\ Shaped
  BY Together DEF AllSound, Sound
<1>2. k \in ClientSession /\ m \in Screen /\ c2s[c] \in Seq(Wire(ToServer))
  BY <1>1 DEF ClientInv, Typed
<1>3. /\ cl' = [cl EXCEPT ![c] = l] /\ screen' = [screen EXCEPT ![c] = n]
      /\ s2c' = [s2c EXCEPT ![c] = <<>>]
  BY DEF DestroyClient
<1>4. PICK i \in 0..Len(c2s[c]) : c2s' = [c2s EXCEPT ![c] = SubSeq(c2s[c], 1, i)]
  BY DEF DestroyClient
<1>5. sess' = [sess EXCEPT ![c] = s]
  BY <1>1, Zenon DEF DestroyClient, Shaped
<1>6. Ordered(s, k, m, c2s[c], s2c[c])
  BY DEF AllOrdered, Order
<1>7. s.accepted
  BY <1>1 DEF ClientInv, Fresh
<1> HIDE DEF s, k, m
<1>8. ~l.up /\ (l.keyed <=> k.keyed)
  BY <1>2 DEF ClientSession
<1>9. ~Started(n.command_queue)
  <2>1. n.command_queue = <<>>
    BY <1>2 DEF Screen
  <2> QED BY <2>1 DEF Started
<1>10. Behind(c2s[c], Data, Key) => Behind(SubSeq(c2s[c], 1, i), Data, Key)
  BY <1>2, PrefixBehind
<1> HIDE DEF l, n
<1>11. Ordered(s, l, n, SubSeq(c2s[c], 1, i), <<>>)
  BY <1>6, <1>7, <1>8, <1>9, <1>10, OrderedAnyway
<1> QED BY <1>3, <1>4, <1>5, <1>11, OrderOfOne

(* The main thread goes on.                                                *)
LEMMA OrderOfScreen ==
    ASSUME LoginInv, AllOrdered, NEW c \in Clients, NEW n,
           Ordered(sess[c], cl[c], n, c2s[c], s2c[c]),
           screen' = [screen EXCEPT ![c] = n], AllElse
    PROVE  AllOrdered'
<1> DEFINE s == sess[c]
           k == cl[c]
           u == c2s[c]
           d == s2c[c]
<1>1. /\ sess' = [sess EXCEPT ![c] = s] /\ cl' = [cl EXCEPT ![c] = k]
      /\ c2s' = [c2s EXCEPT ![c] = u] /\ s2c' = [s2c EXCEPT ![c] = d]
  BY Together, Zenon DEF Shaped, AllElse
<1>2. Ordered(s, k, n, u, d) /\ screen' = [screen EXCEPT ![c] = n]
  OBVIOUS
<1> HIDE DEF s, k, u, d
<1> QED BY <1>1, <1>2, OrderOfOne

LEMMA OrderFetchCommand ==
    ASSUME LoginInv, AllOrdered, NEW c \in Clients, FetchCommand(c)
    PROVE  AllOrdered'
<1> DEFINE s == sess[c]
           k == cl[c]
           m == screen[c]
           u == c2s[c]
           d == s2c[c]
           kind == Head(m.command_queue)
           q == [m EXCEPT !.command_queue = Tail(m.command_queue)]
           n == IF kind = "ClientStartEncryptedSession"
                THEN [q EXCEPT !.todo = <<"ServerReceiveAccountInitializeData">>]
                ELSE IF kind = "ClientReceiveFullServerInfo" /\ q.scene = "Connect"
                THEN [q EXCEPT !.scene = "ChannelChange"]
                ELSE q
<1>1. k.up /\ m.command_queue # <<>>
  BY DEF FetchCommand
<1>2. CASE DestroyClient(c)
  BY <1>1, <1>2, OrderDestroyClient
<1>3. CASE /\ ~EndsConnection(kind) /\ screen' = [screen EXCEPT ![c] = n]
           /\ UNCHANGED <<sess, cl, c2s, s2c, login, max_user_id>>
  <2>1. ClientInv(s, k, m, u, d)
    BY Together DEF AllSound, Sound
  <2>2. Ordered(s, k, m, u, d)
    BY DEF AllOrdered, Order
  <2> HIDE DEF s, k, m, u, d
  <2>3. m \in Screen /\ s.accepted
    BY <1>1, <2>1 DEF ClientInv, Typed, Fresh
  <2>4. /\ q.command_queue = Tail(m.command_queue) /\ q.pending = m.pending
        /\ q.scene = m.scene /\ q.todo = m.todo
    BY <2>3 DEF Screen
  <2>5. q \in Screen
    <3>1. Tail(m.command_queue) \in Seq(Fetched)
      BY <1>1, <2>3 DEF Screen
    <3> HIDE DEF kind
    <3> QED BY <2>3, <3>1 DEF Screen
  <2> DEFINE init == <<"ServerReceiveAccountInitializeData">>
             q1 == [q EXCEPT !.todo = init]
             q2 == [q EXCEPT !.scene = "ChannelChange"]
  <2> HIDE DEF init, q
  <2>6. /\ q1.command_queue = q.command_queue /\ q1.pending = q.pending
        /\ q1.scene = q.scene
    BY <2>5 DEF Screen
  <2>7. /\ q2.command_queue = q.command_queue /\ q2.pending = q.pending
        /\ q2.todo = q.todo
    BY <2>5 DEF Screen
  <2> HIDE DEF q1, q2
  <2>8. \/ kind = "ClientStartEncryptedSession" /\ n = q1
        \/ kind \in Info /\ n = q2
        \/ n = q
    BY Zenon DEF q1, q2, init, Info
  <2> HIDE DEF n, kind
  <2>9. /\ n.command_queue = Tail(m.command_queue) /\ n.pending = m.pending
        /\ n.scene = m.scene \/ kind \in Info
        /\ n.todo = m.todo \/ kind = "ClientStartEncryptedSession"
    BY <2>4, <2>6, <2>7, <2>8
  <2>10. Ordered(s, k, n, u, d)
    BY <1>1, <1>3, <2>2, <2>3, <2>9, OrderedFetched DEF kind
  <2>11. AllElse
    BY <1>3 DEF AllElse
  <2>12. screen' = [screen EXCEPT ![c] = n]
    BY <1>3
  <2> QED BY <2>10, <2>11, <2>12, OrderOfScreen DEF s, k, u, d
<1> QED BY <1>2, <1>3, Zenon DEF FetchCommand

LEMMA OrderChannelChange ==
    ASSUME LoginInv, AllOrdered, NEW c \in Clients, ChannelChange(c)
    PROVE  AllOrdered'
<1> DEFINE s == sess[c]
           k == cl[c]
           m == screen[c]
           u == c2s[c]
           d == s2c[c]
           updates == [i \in 1..MaxUpdates |-> "ServerUpdateAccountProperty"]
           n == [m EXCEPT !.scene = "MainLoop", !.todo = updates]
<1>1. k.up /\ m.scene = "ChannelChange" /\ screen' = [screen EXCEPT ![c] = n] /\ AllElse
  BY DEF ChannelChange, AllElse
<1>2. ClientInv(s, k, m, u, d)
  BY Together DEF AllSound, Sound
<1>3. Ordered(s, k, m, u, d)
  BY DEF AllOrdered, Order
<1> HIDE DEF s, k, m, u, d, updates
<1>4. m \in Screen /\ s.accepted /\ u \in Seq(Wire(ToServer))
  BY <1>1, <1>2 DEF ClientInv, Typed, Fresh
<1>5. n.command_queue = m.command_queue
  BY <1>4 DEF Screen
<1> HIDE DEF n
<1>6. <<>> \in Seq(Wire(ToServer)) /\ m.scene # "Connect"
  BY <1>1
<1>7. Ordered(s, k, n, u, d)
  BY <1>1, <1>3, <1>4, <1>5, <1>6, OrderedGoesOn
<1> QED BY <1>1, <1>7, OrderOfScreen DEF s, k, u, d

LEMMA OrderSerialize ==
    ASSUME LoginInv, AllOrdered, NEW c \in Clients, Serialize(c)
    PROVE  AllOrdered'
<1> DEFINE s == sess[c]
           k == cl[c]
           m == screen[c]
           u == c2s[c]
           d == s2c[c]
           out == <<Command(Head(m.todo), 0)>>
           n == [m EXCEPT !.todo = Tail(m.todo), !.pending = Sealed(k, out)]
           l == AfterSealing(k, out)
<1>1. ClientInv(s, k, m, u, d) /\ Shaped
  BY Together DEF AllSound, Sound
<1>2. Ordered(s, k, m, u, d)
  BY DEF AllOrdered, Order
<1>3. k.up /\ m.todo # <<>>
  BY DEF Serialize
<1>4. screen' = [screen EXCEPT ![c] = n] /\ cl' = [cl EXCEPT ![c] = l]
  <2>1. screen' = [screen EXCEPT ![c] = n]
    BY Zenon DEF Serialize
  <2>2. cl' = [cl EXCEPT ![c] = l]
    BY Zenon DEF Serialize
  <2> QED BY <2>1, <2>2
<1>5. /\ sess' = [sess EXCEPT ![c] = s]
      /\ c2s' = [c2s EXCEPT ![c] = u] /\ s2c' = [s2c EXCEPT ![c] = d]
  BY <1>1, Zenon DEF Serialize, Shaped
<1> HIDE DEF s, k, m, u, d, out
<1>6. /\ m \in Screen /\ s.accepted /\ u \in Seq(Wire(ToServer)) /\ k \in ClientSession
      /\ <<>> \in Seq(Wire(ToServer))
  BY <1>1, <1>3 DEF ClientInv, Typed, Fresh
<1>7. n.command_queue = m.command_queue
  BY <1>6 DEF Screen
<1>8. l.keyed <=> k.keyed
  BY <1>6 DEF AfterSealing, ClientSession
<1> HIDE DEF n, l
<1>9. Ordered(s, l, n, u, d)
  BY <1>2, <1>3, <1>6, <1>7, <1>8, OrderedGoesOn
<1> QED BY <1>4, <1>5, <1>9, OrderOfOne

LEMMA OrderPost ==
    ASSUME LoginInv, AllOrdered, NEW c \in Clients, Post(c)
    PROVE  AllOrdered'
<1> DEFINE s == sess[c]
           k == cl[c]
           m == screen[c]
           y == m.pending
           u == IF s.open THEN c2s[c] \o y ELSE c2s[c]
           d == s2c[c]
           n == [m EXCEPT !.pending = <<>>]
<1>1. ClientInv(s, k, m, c2s[c], d) /\ Shaped
  BY Together DEF AllSound, Sound
<1>2. Ordered(s, k, m, c2s[c], d)
  BY DEF AllOrdered, Order
<1>3. k.up /\ y # <<>>
  BY DEF Post
<1>4. screen' = [screen EXCEPT ![c] = n] /\ c2s' = [c2s EXCEPT ![c] = u]
  BY DEF Post
<1>5. /\ sess' = [sess EXCEPT ![c] = s] /\ cl' = [cl EXCEPT ![c] = k]
      /\ s2c' = [s2c EXCEPT ![c] = d]
  BY <1>1, Zenon DEF Post, Shaped
<1>6. m \in Screen /\ s.accepted /\ c2s[c] \in Seq(Wire(ToServer))
  BY <1>1, <1>3 DEF ClientInv, Typed, Fresh
<1>7. y \in Seq(Wire(ToServer)) /\ m.pending # <<>>
  BY <1>3, <1>6 DEF Screen
<1> HIDE DEF s, k, m, d
<1>8. n.command_queue = m.command_queue
  BY <1>6 DEF Screen
<1> HIDE DEF n, y
<1>9. u = c2s[c] \/ (s.open /\ u = c2s[c] \o y)
  OBVIOUS
<1> HIDE DEF u
<1>10. Ordered(s, k, n, u, d)
  BY <1>2, <1>3, <1>6, <1>7, <1>8, <1>9, OrderedGoesOn
<1> QED BY <1>4, <1>5, <1>10, OrderOfOne

-----------------------------------------------------------------------------
(* No data goes astray.                                                    *)

LEMMA OrderInit == Init => AllOrdered
<1> SUFFICES ASSUME Init, NEW c \in Clients PROVE Order(c)
  BY DEF AllOrdered
<1>1. /\ ~sess[c].accepted /\ ~sess[c].open /\ ~cl[c].keyed
      /\ screen[c].scene = "Connect" /\ screen[c].command_queue = <<>> /\ screen[c].todo = <<>>
      /\ c2s[c] = <<>>
  BY DEF Init
<1>2. ~Started(<<>>) /\ Behind(<<>>, Data, Key)
  BY DEF Started, Behind
<1> QED BY <1>1, <1>2 DEF Order, Ordered

LEMMA OrderNext == LoginInv /\ AllOrdered /\ [Next]_vars => AllOrdered'
<1> SUFFICES ASSUME LoginInv, AllOrdered, [Next]_vars PROVE AllOrdered'
  OBVIOUS
<1>1. ASSUME NEW c \in Clients, ReceiveSession(c) PROVE AllOrdered'
  BY <1>1, OrderReceiveSession
<1>2. ASSUME NEW c \in Clients, ServerStep(c) PROVE AllOrdered'
  BY <1>2, OrderReceiveClientInfo, OrderRequestedFullServerInfo, OrderReceivePublicKey,
     OrderStartEncryptedSession, OrderInitializeData, OrderUpdateAccountProperty,
     OrderReadFails, OrderWriteFails DEF ServerStep
<1>3. ASSUME NEW c \in Clients, NetworkStep(c) PROVE AllOrdered'
  BY <1>3, OrderRequestedClientInfo, OrderRequestedPublicKey, OrderReceiveCommonKey,
     OrderClientStartEncryptedSession, OrderClientQueues, OrderClientReadFails DEF NetworkStep
<1>4. ASSUME NEW c \in Clients, MainStep(c) PROVE AllOrdered'
  BY <1>4, OrderFetchCommand, OrderChannelChange, OrderSerialize, OrderPost DEF MainStep
<1>5. ASSUME NEW c \in Clients, Quit(c) PROVE AllOrdered'
  BY <1>5, OrderDestroyClient DEF Quit
<1>6. CASE Next
  BY <1>1, <1>2, <1>3, <1>4, <1>5, <1>6 DEF Next
<1>7. CASE UNCHANGED vars
  BY <1>7 DEF vars, AllOrdered, Order
<1> QED BY <1>6, <1>7

(* For any number of clients: an account property or the initial data of   *)
(* an account is never the next message of a session that has no id yet,   *)
(* where the server would drop it (ClientReceiveFullServerInfo overtakes   *)
(* the key exchange, and so may the scene that sends the properties; what  *)
(* keeps them apart is that the server answers who the client is before it *)
(* tells of itself, Connect::Update, ChannelChange::Update).               *)
THEOREM NothingGoesAstray == Spec => []NoOrphanUpdate
<1>1. LoginInv /\ AllOrdered => NoOrphanUpdate
  <2> SUFFICES ASSUME LoginInv, AllOrdered, NEW c \in Clients, c2s[c] # <<>>,
                      Head(c2s[c]).kind \in {"ServerUpdateAccountProperty",
                                             "ServerReceiveAccountInitializeData"}
               PROVE  sess[c].id > 0
    BY DEF NoOrphanUpdate
  <2> DEFINE u == c2s[c]
  <2>1. u \in Seq(Wire(ToServer)) /\ (sess[c].id > 0 \/ Behind(u, Data, Key))
    BY DEF LoginInv, TypeOK, AllOrdered, Order, Ordered
  <2>2. u # <<>> /\ Head(u).kind \in Data
    BY DEF Data
  <2> HIDE DEF u
  <2>3. 1 \in 1..Len(u) /\ Head(u) = u[1] /\ 1..(1 - 1) = {}
    BY <2>1, <2>2
  <2>4. ~Behind(u, Data, Key)
    BY <2>2, <2>3 DEF Behind
  <2> QED BY <2>1, <2>4
<1>2. Spec => [](LoginInv /\ AllOrdered)
  BY LoginInit, OrderInit, LoginNext, OrderNext, PTL DEF Spec
<1> QED BY <1>1, <1>2, PTL

(* For any number of clients of either version, any capacity and any order *)
(* of handlers, threads and failures: a client that was refused never gets *)
(* an id, the ends of a session agree on an id that no other session has,  *)
(* whatever is decrypted is the message that was encrypted at that place   *)
(* of the cipher stream, and no data goes astray (Server::Start, the       *)
(* handlers of main.cpp, Client::Client, Session::Serialize and            *)
(* Deserialize).                                                           *)
THEOREM LoginIsSound == Spec => []LoginSound
<1>1. LoginInv /\ NoOrphanUpdate => LoginSound
  BY RefusedAreOut, IdsAreAgreed, AllIsDecryptable DEF LoginInv, LoginSound
<1> QED BY <1>1, LoginIsKept, NothingGoesAstray, PTL
===============================================================================
