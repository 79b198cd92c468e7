---------------------------- MODULE ProxyProofs -----------------------------
(***************************************************************************)
(* Theorems about Proxy for any output, any number of messages and of      *)
(* tries: types, what the client gets of the output, and that nothing of a *)
(* proxy is left when it returns.  The second rests on the bytes being     *)
(* partitioned by their holders (each step moves bytes between a few of    *)
(* them), on every reader's buffer and message being bytes it read itself, *)
(* and on a scanner's buffer being the last byte its reader read.  For the *)
(* third, the closer matters: the proxy waits for it as for the others,    *)
(* and nobody opens a connection after it.                                 *)
(***************************************************************************)
EXTENDS Proxy, TLAPS

Byte == DOMAIN Output
Place == {"none", "wipe", "read", "write", "feed", "resize", "wait", "over"}

\* The buffers are sequences of bytes.
DataInv ==
  /\ taken \in 0..Len(Output)
  /\ buf \in [Out -> Seq(Byte)] /\ token \in [Out -> Seq(Byte)]
  /\ sent \in Seq(Seq(Byte))
  /\ by \in [Byte -> Out \cup {"nobody"}] /\ replaced \subseteq Byte

\* Goroutines exist while the proxy runs, and are over when it has returned.
GroupInv ==
  /\ pc \in [Goroutine -> Place]
  /\ proxy \in {"create", "attach", "running", "returned", "panicked"}
  /\ proxy \in {"create", "attach"} => \A g \in Goroutine : pc[g] = "none"
  /\ proxy = "running" => \A g \in Goroutine : pc[g] # "none"
  /\ proxy = "returned" =>
       \/ \A g \in Goroutine : pc[g] = "none"
       \/ \A g \in Goroutine : pc[g] = "over"

\* The closer has closed both connections for good.
CloserInv == pc["closer"] = "over" => ~conn /\ ~hj

\* The remaining types.
LinkInv ==
  /\ cancelled \in BOOLEAN /\ conn \in BOOLEAN /\ hj \in BOOLEAN
  /\ command \in {"none", "running", "over"} /\ deaf \subseteq {"client", "command"}
CountInv == inbox \in 0..Messages /\ tries \in 0..Retries

\* Only a goroutine that writes has a message.
TokenInv == \A g \in Out : pc[g] \in {"none", "wipe", "read"} => token[g] = <<>>

\* Nothing is read before the command runs.
FreshInv == proxy \in {"create", "attach"} => taken = 0

\* Who has which bytes, and in which order.
Increasing(s) == \A i, j \in DOMAIN s : i < j => s[i] < s[j]
Ordered == \A h \in Holder : Increasing(Held(h))
Kept == EachOnce /\ Ordered

\* A reader has what it read itself.
ByInv == \A g \in Out : \A p \in Range(buf[g]) \cup Range(token[g]) : by[p] = g

\* Its scanner keeps at most the first byte of a rune, which is the last byte it read.
BufInv ==
  \A g \in Out : buf[g] # <<>> => \E p \in 1..taken :
    buf[g] = <<p>> /\ Output[p] = "lead" /\ \A q \in p + 1..taken : by[q] # g

\* It has kept the last byte of all, if that begins a rune, while there is more to come.
TailInv ==
  taken > 0 /\ Output[taken] = "lead" =>
    buf[by[taken]] = <<taken>> \/ ~hj \/ taken = Len(Output)

\* What a scanner keeps may still become a whole rune.
ReplacedInv == replaced \subseteq 1..taken /\ \A g \in Out : Range(buf[g]) \cap replaced = {}

\* What a reader passes on later it read later.
Succession ==
  \A h, k \in Holder : Before(h, k) =>
    \A p \in Range(Held(h)), q \in Range(Held(k)) : by[p] = by[q] => p < q

TypesInv == DataInv /\ GroupInv /\ CloserInv /\ LinkInv /\ CountInv /\ TokenInv /\ FreshInv
BytesInv == ByInv /\ BufInv /\ TailInv /\ ReplacedInv

IndInv == TypesInv /\ Kept /\ BytesInv /\ Succession /\ RunesWhole

\* The initial state satisfies the invariant.
LEMMA InitInv == Init => IndInv
<1> SUFFICES ASSUME Init PROVE IndInv
  OBVIOUS
<1>1. DataInv
  <2>1. Len(Output) \in Nat
    BY OutputAssumption
  <2>2. by \in [Byte -> Out \cup {"nobody"}] /\ replaced \subseteq Byte
    BY DEF Init, Byte
  <2> QED BY <2>1, <2>2 DEF Init, DataInv
<1>2. GroupInv /\ CloserInv /\ FreshInv
  BY DEF Init, GroupInv, CloserInv, FreshInv, Goroutine, Out, Place
<1>3. LinkInv /\ CountInv
  <2>1. cancelled \in BOOLEAN /\ conn \in BOOLEAN /\ hj \in BOOLEAN
    BY Zenon DEF Init
  <2> QED BY <2>1, CountAssumption DEF Init, LinkInv, CountInv
<1>4. TokenInv
  BY DEF Init, TokenInv
<1>5. Kept
  <2>1. Holder = {"buf", "token"} \X Out /\ \A h \in Holder : Held(h) = <<>>
    BY DEF Init, Holder, Held
  <2>2. \A h \in Holder : Range(Held(h)) = {} /\ Increasing(Held(h))
    BY <2>1 DEF Range, Increasing
  <2>3. 1..taken = {}
    BY DEF Init
  <2> QED BY <2>2, <2>3 DEF Kept, EachOnce, Ordered
<1>6. BytesInv
  <2>1. \A g \in Out : buf[g] = <<>> /\ token[g] = <<>> /\ Range(buf[g]) \cup Range(token[g]) = {}
    BY DEF Init, Range
  <2>2. taken = 0
    BY DEF Init
  <2>3. ByInv /\ BufInv
    BY <2>1 DEF ByInv, BufInv
  <2>4. TailInv
    BY <2>2 DEF TailInv
  <2>5. ReplacedInv
    BY DEF Init, ReplacedInv
  <2> QED BY <2>3, <2>4, <2>5 DEF BytesInv
<1>7. Succession
  BY DEF Init, Succession, Holder, Before, Held, Range
<1>8. RunesWhole
  BY DEF Init, RunesWhole
<1> QED BY <1>1, <1>2, <1>3, <1>4, <1>5, <1>6, <1>7, <1>8 DEF IndInv, TypesInv

\* A scanner divides the bytes it has been given.
LEMMA ScannedType ==
  ASSUME NEW s \in Seq(Byte)
  PROVE  Scanned(s).token \in Seq(Byte) /\ Scanned(s).rest \in Seq(Byte)
<1>1. s # <<>> => Front(s) \in Seq(Byte) /\ <<Last(s)>> \in Seq(Byte)
  BY DEF Front, Last
<1> QED BY <1>1 DEF Scanned, Waiting

\* A message that is sent is a sequence of bytes.
LEMMA SentType ==
  ASSUME NEW S, NEW s \in Seq(S), NEW e \in S
  PROVE  Append(s, e) \in Seq(S)
OBVIOUS

\* A scanner divides the bytes it has been given, and keeps their order.
LEMMA ScannedDivides ==
  ASSUME NEW s \in Seq(Byte), Increasing(s)
  PROVE  /\ Range(Scanned(s).token) \cup Range(Scanned(s).rest) = Range(s)
         /\ Range(Scanned(s).token) \cap Range(Scanned(s).rest) = {}
         /\ Increasing(Scanned(s).token) /\ Increasing(Scanned(s).rest)
<1>0. Byte \subseteq Nat
  BY OutputAssumption DEF Byte
<1>1. CASE ~Waiting(s)
  BY <1>1 DEF Scanned, Increasing, Range
<1>2. CASE Waiting(s)
  <2>1. s # <<>> /\ Len(s) \in Nat \ {0} /\ DOMAIN s = 1..Len(s)
    BY <1>2 DEF Waiting
  <2> DEFINE f == Front(s)
             r == <<Last(s)>>
  <2>2. f = [i \in 1..Len(s)-1 |-> s[i]] /\ DOMAIN f = 1..Len(s)-1
    BY <2>1 DEF Front
  <2>3. DOMAIN r = {1} /\ r[1] = s[Len(s)]
    BY <2>1 DEF Last
  <2>4. Scanned(s).token = f /\ Scanned(s).rest = r
    BY <1>2 DEF Scanned
  <2> HIDE DEF f, r
  <2>5. Range(f) = {s[i] : i \in 1..Len(s)-1} /\ Range(r) = {s[Len(s)]}
    BY <2>2, <2>3 DEF Range
  <2>6. Range(s) = {s[i] : i \in 1..Len(s)-1} \cup {s[Len(s)]}
    BY <2>1 DEF Range
  <2>7. \A i \in 1..Len(s)-1 : s[i] # s[Len(s)]
    <3>1. ASSUME NEW i \in 1..Len(s) PROVE s[i] \in Nat
      <4>1. s[i] \in Byte
        OBVIOUS
      <4> QED BY <1>0, <4>1
    <3>2. \A i \in 1..Len(s)-1 : s[i] < s[Len(s)]
      BY <2>1 DEF Increasing
    <3> QED BY <2>1, <3>1, <3>2
  <2>8. Increasing(f) /\ Increasing(r)
    BY <2>1, <2>2, <2>3 DEF Increasing
  <2> QED BY <2>4, <2>5, <2>6, <2>7, <2>8
<1> QED BY <1>1, <1>2

\* The bytes s that are in the scanner of g after it has read up to the n-th.
Got(g, n, s) ==
  /\ n \in taken+1..Len(Output) /\ taken' = n
  /\ s \in Seq(Byte) /\ Len(s) = Len(buf[g]) + (n - taken)
  /\ \A i \in 1..Len(buf[g]) : s[i] = buf[g][i]
  /\ \A i \in Len(buf[g])+1..Len(s) : s[i] = taken + (i - Len(buf[g]))
  /\ by' = [i \in Byte |-> IF i \in taken+1..n THEN g ELSE by[i]]
  /\ replaced' = replaced \cup (Invalid(s) \ Range(Scanned(s).rest))
  /\ buf' = [buf EXCEPT ![g] = Scanned(s).rest]
  /\ token' = [token EXCEPT ![g] = Scanned(s).token]

\* A read adds the bytes that follow to those the scanner has kept.
LEMMA ReadGets ==
  ASSUME DataInv, NEW g \in Out, Read(g)
  PROVE  \E n, s : Got(g, n, s)
<1>1. PICK n \in taken+1..Len(Output) :
        LET bytes == buf[g] \o [i \in 1..n - taken |-> taken + i]
            scan  == Scanned(bytes)
        IN /\ taken' = n
           /\ by' = [i \in Byte |-> IF i \in taken+1..n THEN g ELSE by[i]]
           /\ replaced' = replaced \cup (Invalid(bytes) \ Range(scan.rest))
           /\ buf' = [buf EXCEPT ![g] = scan.rest]
           /\ token' = [token EXCEPT ![g] = scan.token]
  BY DEF Read, Byte
<1> DEFINE new == [i \in 1..n - taken |-> taken + i]
           s == buf[g] \o new
<1>2. /\ taken \in Nat /\ n \in Nat /\ n > taken /\ n - taken \in Nat
      /\ n <= Len(Output) /\ Len(Output) \in Nat /\ Byte = 1..Len(Output)
  BY OutputAssumption DEF DataInv, Byte
<1>3. new \in Seq(Byte) /\ Len(new) = n - taken
  BY <1>2
<1>4. \A i \in 1..n - taken : new[i] = taken + i
  OBVIOUS
<1>5. buf[g] \in Seq(Byte) /\ Len(buf[g]) \in Nat
  BY DEF DataInv
<1> HIDE DEF new
<1>6. s \in Seq(Byte) /\ Len(s) = Len(buf[g]) + Len(new)
  BY <1>3, <1>5
<1>7. /\ \A i \in 1..Len(buf[g]) : s[i] = buf[g][i]
      /\ \A i \in Len(buf[g])+1..Len(buf[g]) + Len(new) : s[i] = new[i - Len(buf[g])]
  BY <1>3, <1>5
<1> HIDE DEF s
<1>8. ASSUME NEW i \in Len(buf[g])+1..Len(s) PROVE s[i] = taken + (i - Len(buf[g]))
  <2>1. i - Len(buf[g]) \in 1..n - taken
    BY <1>2, <1>3, <1>5, <1>6
  <2> QED BY <1>3, <1>4, <1>6, <1>7, <2>1
<1>9. Got(g, n, s)
  <2>1. /\ taken' = n
        /\ by' = [i \in Byte |-> IF i \in taken+1..n THEN g ELSE by[i]]
        /\ replaced' = replaced \cup (Invalid(s) \ Range(Scanned(s).rest))
        /\ buf' = [buf EXCEPT ![g] = Scanned(s).rest]
        /\ token' = [token EXCEPT ![g] = Scanned(s).token]
    BY <1>1 DEF new, s
  <2> QED BY <1>3, <1>6, <1>7, <1>8, <2>1 DEF Got
<1> QED BY <1>9

\* They are in the command's order, and are the scanner's and the new ones.
LEMMA GotBytes ==
  ASSUME DataInv, Kept, NEW g \in Out, NEW n, NEW s, Got(g, n, s)
  PROVE  Increasing(s) /\ Range(s) = Range(buf[g]) \cup (taken+1..n)
<1> DEFINE m == Len(buf[g])
<1>1. /\ taken \in Nat /\ n \in Nat /\ n > taken /\ n - taken \in Nat
      /\ n <= Len(Output) /\ Len(Output) \in Nat /\ Byte = 1..Len(Output)
  BY OutputAssumption DEF DataInv, Byte, Got
<1>2. buf[g] \in Seq(Byte) /\ m \in Nat /\ DOMAIN buf[g] = 1..m
  BY DEF DataInv
<1>3. DOMAIN s = 1..Len(s) /\ Len(s) = m + (n - taken) /\ Len(s) \in Nat
  BY <1>1, <1>2 DEF Got
<1>4. \A i \in 1..m : s[i] = buf[g][i]
  BY DEF Got
<1>5. \A i \in m+1..Len(s) : s[i] = taken + (i - m)
  BY DEF Got
<1>6. Range(buf[g]) \subseteq 1..taken /\ Increasing(buf[g])
  <2>1. <<"buf", g>> \in Holder /\ Held(<<"buf", g>>) = buf[g]
    BY DEF Holder, Held
  <2> QED BY <2>1 DEF Kept, EachOnce, Ordered
<1> HIDE DEF m
<1>7. Range(s) = Range(buf[g]) \cup (taken+1..n)
  <2>1. ASSUME NEW i \in DOMAIN s PROVE s[i] \in Range(buf[g]) \cup (taken+1..n)
    <3>1. CASE i \in 1..m
      BY <1>2, <1>4, <3>1 DEF Range
    <3>2. CASE i \in m+1..Len(s)
      <4>1. i - m \in 1..n - taken
        BY <1>1, <1>2, <1>3, <3>2
      <4> QED BY <1>1, <1>5, <3>2, <4>1
    <3> QED BY <1>2, <1>3, <3>1, <3>2
  <2>2. Range(buf[g]) \subseteq Range(s)
    <3>1. \A i \in 1..m : i \in DOMAIN s
      BY <1>1, <1>2, <1>3
    <3> QED BY <1>2, <1>4, <3>1 DEF Range
  <2>3. ASSUME NEW x \in taken+1..n PROVE x \in Range(s)
    <3>1. m + (x - taken) \in m+1..Len(s) /\ m + (x - taken) \in DOMAIN s
      BY <1>1, <1>2, <1>3
    <3>2. s[m + (x - taken)] = taken + ((m + (x - taken)) - m)
      BY <1>5, <3>1
    <3>3. taken + ((m + (x - taken)) - m) = x
      BY <1>1, <1>2
    <3> QED BY <3>1, <3>2, <3>3 DEF Range
  <2> QED BY <2>1, <2>2, <2>3 DEF Range
<1>8. Increasing(s)
  <2> SUFFICES ASSUME NEW i \in DOMAIN s, NEW j \in DOMAIN s, i < j PROVE s[i] < s[j]
    BY DEF Increasing
  <2>0. i \in Nat /\ j \in Nat /\ i \in 1..Len(s) /\ j \in 1..Len(s)
    BY <1>3
  <2>1. CASE j <= m
    BY <1>2, <1>4, <1>6, <2>0, <2>1 DEF Increasing
  <2>2. CASE i <= m /\ j > m
    <3>1. s[i] \in 1..taken
      BY <1>2, <1>4, <1>6, <2>0, <2>2 DEF Range
    <3>2. s[j] = taken + (j - m)
      BY <1>2, <1>3, <1>5, <2>0, <2>2
    <3> QED BY <1>1, <1>2, <2>0, <2>2, <3>1, <3>2
  <2>3. CASE i > m
    <3>1. s[i] = taken + (i - m) /\ s[j] = taken + (j - m)
      BY <1>2, <1>3, <1>5, <2>0, <2>3
    <3> QED BY <1>1, <1>2, <2>0, <2>3, <3>1
  <2> QED BY <1>2, <2>0, <2>1, <2>2, <2>3
<1> QED BY <1>7, <1>8

\* Reads, writes and wipes keep the buffers' types.
LEMMA StepData == DataInv /\ [Next]_vars => DataInv'
<1> SUFFICES ASSUME DataInv, [Next]_vars PROVE DataInv'
  OBVIOUS
<1> USE DEF DataInv, streams
<1>1. CASE UNCHANGED <<streams, sent>>
  BY <1>1
<1>2. ASSUME NEW g \in Out, Wipe(g) PROVE DataInv'
  <2>1. WIPE \in Seq(Byte)
    BY DEF WIPE
  <2>2. sent' \in {sent, Append(sent, WIPE)} /\ UNCHANGED streams
    BY <1>2 DEF Wipe
  <2>3. Append(sent, WIPE) \in Seq(Seq(Byte))
    BY <2>1, SentType
  <2> QED BY <2>2, <2>3
<1>3. ASSUME NEW g \in Out, Read(g) PROVE DataInv'
  <2>1. PICK n, s : Got(g, n, s)
    BY <1>3, ReadGets
  <2>2. n \in 0..Len(Output)
    BY <2>1, OutputAssumption DEF Got
  <2>3. Scanned(s).token \in Seq(Byte) /\ Scanned(s).rest \in Seq(Byte)
    BY <2>1, ScannedType DEF Got
  <2>4. buf' \in [Out -> Seq(Byte)] /\ token' \in [Out -> Seq(Byte)]
    BY <2>1, <2>3 DEF Got
  <2>5. by' \in [Byte -> Out \cup {"nobody"}]
    BY <2>1 DEF Got
  <2>6. Range(s) \subseteq Byte /\ Invalid(s) \subseteq Range(s)
    BY <2>1 DEF Got, Invalid, Range
  <2>7. sent' = sent
    BY <1>3 DEF Read
  <2> QED BY <2>1, <2>2, <2>4, <2>5, <2>6, <2>7 DEF Got
<1>4. ASSUME NEW g \in Out, ReadEnds(g) PROVE DataInv'
  <2>1. buf[g] \in Seq(Byte) /\ <<>> \in Seq(Byte) /\ Invalid(buf[g]) \subseteq Byte
    BY DEF Invalid
  <2>2. UNCHANGED <<taken, by, sent>>
    BY <1>4 DEF ReadEnds
  <2>3. \/ UNCHANGED <<buf, token, replaced>>
        \/ /\ token' = [token EXCEPT ![g] = buf[g]] /\ buf' = [buf EXCEPT ![g] = <<>>]
           /\ replaced' = replaced \cup Invalid(buf[g])
    BY <1>4 DEF ReadEnds
  <2> QED BY <2>1, <2>2, <2>3
<1>5. ASSUME NEW g \in Out, Write(g) PROVE DataInv'
  <2>1. Append(sent, token[g]) \in Seq(Seq(Byte))
    BY SentType
  <2>2. <<>> \in Seq(Byte) /\ UNCHANGED <<taken, by, replaced, buf>>
    BY <1>5 DEF Write
  <2>3. \/ UNCHANGED <<sent, token>>
        \/ sent' = Append(sent, token[g]) /\ token' = [token EXCEPT ![g] = <<>>]
    BY <1>5 DEF Write
  <2> QED BY <2>1, <2>2, <2>3
<1> QED
  BY <1>1, <1>2, <1>3, <1>4, <1>5
     DEF Next, OutStep, vars, Create, Attach, Message, Panic, Feed, NoMoreInput, TryResize,
         CloseAll, ProxyReturns, Disconnect, CommandEnds, StopsReading

\* No goroutine begins but with Attach, and none ends the proxy before the others.
LEMMA StepGroup == GroupInv /\ [Next]_vars => GroupInv'
<1> SUFFICES ASSUME GroupInv, [Next]_vars PROVE GroupInv'
  OBVIOUS
<1> USE DEF GroupInv, Goroutine, Out, Place
<1>1. CASE Create \/ Attach \/ ProxyReturns \/ Panic
  BY <1>1 DEF Create, Attach, ProxyReturns, Panic
<1>2. ASSUME UNCHANGED proxy,
             \E g \in Goroutine : \E from \in Place \ {"none", "over"}, to \in Place \ {"none"} :
               Goto(g, from, to)
      PROVE  GroupInv'
  BY <1>2 DEF Goto
<1>3. CASE Message \/ Feed \/ NoMoreInput \/ TryResize \/ CloseAll
  BY <1>2, <1>3 DEF Message, Feed, NoMoreInput, TryResize, CloseAll, Returns
<1>4. ASSUME NEW g \in Out, OutStep(g) PROVE GroupInv'
  <2>1. CASE Read(g)
    BY <1>2, <2>1 DEF Read
  <2>2. CASE Wipe(g) \/ ReadEnds(g) \/ Write(g)
    BY <1>2, <2>2 DEF Wipe, ReadEnds, Write, Returns
  <2> QED BY <1>4, <2>1, <2>2 DEF OutStep
<1>5. CASE Disconnect \/ CommandEnds \/ (\E e \in {"client", "command"} : StopsReading(e))
             \/ UNCHANGED vars
  BY <1>5 DEF Disconnect, CommandEnds, StopsReading, vars
<1> QED BY <1>1, <1>3, <1>4, <1>5 DEF Next

\* Only Attach opens a connection, and then the closer is at its beginning.
LEMMA StepCloser == GroupInv /\ CloserInv /\ [Next]_vars => CloserInv'
<1> SUFFICES ASSUME GroupInv, CloserInv, [Next]_vars PROVE CloserInv'
  OBVIOUS
<1> USE DEF GroupInv, CloserInv, Goroutine, links
<1>1. CASE Attach
  BY <1>1 DEF Attach, Out
<1>2. CASE CloseAll
  BY <1>2 DEF CloseAll
<1>3. CASE Create \/ ProxyReturns \/ Panic \/ Disconnect \/ CommandEnds
             \/ (\E e \in {"client", "command"} : StopsReading(e)) \/ UNCHANGED vars
  BY <1>3 DEF Create, ProxyReturns, Panic, Disconnect, CommandEnds, StopsReading, vars
<1>4. CASE Message \/ Feed \/ NoMoreInput \/ TryResize
  BY <1>4 DEF Message, Feed, NoMoreInput, TryResize, Returns, Goto
<1>5. ASSUME NEW g \in Out, OutStep(g) PROVE CloserInv'
  <2>1. pc'["closer"] = pc["closer"] /\ UNCHANGED <<conn, hj>>
    BY <1>5 DEF OutStep, Wipe, Read, ReadEnds, Write, Returns, Goto, Out
  <2> QED BY <2>1
<1> QED BY <1>1, <1>2, <1>3, <1>4, <1>5 DEF Next

\* The remaining types are kept.
LEMMA StepLink == LinkInv /\ [Next]_vars => LinkInv'
<1> SUFFICES ASSUME LinkInv, [Next]_vars PROVE LinkInv'
  OBVIOUS
<1> USE DEF LinkInv, links
<1>1. CASE Create \/ Attach \/ CloseAll \/ ProxyReturns \/ Panic \/ Disconnect \/ CommandEnds
             \/ (\E e \in {"client", "command"} : StopsReading(e))
  BY <1>1 DEF Create, Attach, CloseAll, ProxyReturns, Panic, Disconnect, CommandEnds, StopsReading
<1>2. ASSUME UNCHANGED links, cancelled' = cancelled \/ cancelled' = TRUE PROVE LinkInv'
  BY <1>2
<1>3. CASE Message \/ Feed \/ NoMoreInput \/ TryResize
  BY <1>2, <1>3 DEF Message, Feed, NoMoreInput, TryResize, Returns
<1>4. ASSUME NEW g \in Out, OutStep(g) PROVE LinkInv'
  BY <1>2, <1>4 DEF OutStep, Wipe, Read, ReadEnds, Write, Returns
<1>5. CASE UNCHANGED vars
  BY <1>5 DEF vars
<1> QED BY <1>1, <1>3, <1>4, <1>5 DEF Next

\* Messages are used up, and a resize is tried Retries times at most.
LEMMA StepCount == CountInv /\ [Next]_vars => CountInv'
<1> SUFFICES ASSUME CountInv, [Next]_vars PROVE CountInv'
  OBVIOUS
<1> USE CountAssumption DEF CountInv
<1>1. CASE Message \/ Panic
  BY <1>1 DEF Message, Panic
<1>2. CASE TryResize
  <2>1. inbox' = inbox
    BY <1>2 DEF TryResize
  <2>2. tries' = 0 \/ (tries < Retries /\ tries' = tries + 1)
    BY <1>2 DEF TryResize
  <2> QED BY <2>1, <2>2
<1>3. CASE UNCHANGED <<inbox, tries>>
  BY <1>3
<1> QED
  BY <1>1, <1>2, <1>3
     DEF Next, OutStep, vars, Create, Attach, Feed, NoMoreInput, CloseAll, ProxyReturns,
         Disconnect, CommandEnds, StopsReading, Wipe, Read, ReadEnds, Write

\* The proxy never goes back to before the command.
LEMMA StepFresh == GroupInv /\ FreshInv /\ [Next]_vars => FreshInv'
<1> SUFFICES ASSUME GroupInv, FreshInv, [Next]_vars PROVE FreshInv'
  OBVIOUS
<1> USE DEF FreshInv, streams
<1>1. CASE Create \/ Attach \/ ProxyReturns \/ Panic
  BY <1>1 DEF Create, Attach, ProxyReturns, Panic
<1>2. CASE Message \/ Feed \/ NoMoreInput \/ TryResize \/ CloseAll \/ Disconnect \/ CommandEnds
             \/ (\E e \in {"client", "command"} : StopsReading(e)) \/ UNCHANGED vars
  BY <1>2 DEF Message, Feed, NoMoreInput, TryResize, CloseAll, Disconnect, CommandEnds,
              StopsReading, vars
<1>3. ASSUME NEW g \in Out, OutStep(g) PROVE FreshInv'
  <2>1. CASE Read(g)
    BY <2>1 DEF Read, Goto
  <2>2. CASE Wipe(g) \/ ReadEnds(g) \/ Write(g)
    BY <2>2 DEF Wipe, ReadEnds, Write
  <2> QED BY <1>3, <2>1, <2>2 DEF OutStep
<1> QED BY <1>1, <1>2, <1>3 DEF Next

\* A goroutine has a message from the read that makes it to the end of the write.
LEMMA StepToken == DataInv /\ GroupInv /\ TokenInv /\ [Next]_vars => TokenInv'
<1> SUFFICES ASSUME DataInv, GroupInv, TokenInv, [Next]_vars PROVE TokenInv'
  OBVIOUS
<1>0. token \in [Out -> Seq(Byte)] /\ pc \in [Goroutine -> Place] /\ Out \subseteq Goroutine
  BY DEF DataInv, GroupInv, Goroutine
<1> USE <1>0 DEF TokenInv, streams
<1>1. CASE Attach
  <2>1. \A g \in Out : token[g] = <<>>
    BY <1>1 DEF Attach, GroupInv
  <2> QED BY <1>1, <2>1 DEF Attach
<1>2. ASSUME UNCHANGED token, \A g \in Out : pc'[g] = pc[g] \/ pc'[g] \notin {"none", "wipe", "read"}
      PROVE  TokenInv'
  BY <1>2
<1>3. CASE Message \/ Feed \/ NoMoreInput \/ TryResize \/ CloseAll
  BY <1>2, <1>3
     DEF Message, Feed, NoMoreInput, TryResize, CloseAll, Returns, Goto, Out, Goroutine
<1>4. CASE Create \/ ProxyReturns \/ Panic \/ Disconnect \/ CommandEnds
             \/ (\E e \in {"client", "command"} : StopsReading(e)) \/ UNCHANGED vars
  BY <1>2, <1>4 DEF Create, ProxyReturns, Panic, Disconnect, CommandEnds, StopsReading, vars
<1>5. ASSUME NEW g \in Out, OutStep(g) PROVE TokenInv'
  <2>1. CASE Wipe(g)
    BY <2>1 DEF Wipe, Returns, Goto
  <2>2. CASE Read(g)
    <3>1. PICK t : token' = [token EXCEPT ![g] = t]
                   /\ Goto(g, "read", IF t = <<>> THEN "read" ELSE "write")
      BY <2>2 DEF Read
    <3> QED BY <3>1 DEF Goto
  <2>3. CASE ReadEnds(g)
    <3>1. \/ pc' = [pc EXCEPT ![g] = "over"] /\ token' = token
          \/ \E t : pc' = [pc EXCEPT ![g] = "write"] /\ token' = [token EXCEPT ![g] = t]
      BY <2>3 DEF ReadEnds, Returns, Goto
    <3> QED BY <3>1
  <2>4. CASE Write(g)
    <3>1. \/ pc' = [pc EXCEPT ![g] = "over"] /\ token' = token
          \/ pc' = [pc EXCEPT ![g] = "read"] /\ token' = [token EXCEPT ![g] = <<>>]
      BY <2>4 DEF Write, Returns, Goto
    <3> QED BY <3>1
  <2> QED BY <1>5, <2>1, <2>2, <2>3, <2>4 DEF OutStep
<1> QED BY <1>1, <1>3, <1>4, <1>5 DEF Next

\* Only the steps of the output goroutines touch the output.
LEMMA OtherSteps ==
  ASSUME [Next]_vars
  PROVE  \/ UNCHANGED <<streams, sent>>
         \/ \E g \in Out : Wipe(g) \/ Read(g) \/ ReadEnds(g) \/ Write(g)
BY DEF Next, OutStep, vars, Create, Attach, Message, Panic, Feed, NoMoreInput, TryResize, CloseAll,
       ProxyReturns, Disconnect, CommandEnds, StopsReading

\* No step loses a byte, doubles it or changes the order of two in one message.
LEMMA StepKept ==
  DataInv /\ DataInv' /\ GroupInv /\ TokenInv /\ Kept /\ [Next]_vars => Kept'
<1> SUFFICES ASSUME DataInv, DataInv', GroupInv, TokenInv, Kept, [Next]_vars PROVE Kept'
  OBVIOUS
<1>0. /\ taken \in Nat /\ taken' \in Nat /\ Byte \subseteq Nat
      /\ buf \in [Out -> Seq(Byte)] /\ token \in [Out -> Seq(Byte)] /\ sent \in Seq(Seq(Byte))
  BY OutputAssumption DEF DataInv, Byte
<1>1. CASE UNCHANGED <<taken, buf, token, sent>>
  <2>1. Holder' = Holder /\ \A h : Held(h)' = Held(h)
    BY <1>1 DEF Holder, Held
  <2> QED BY <1>1, <2>1 DEF Kept, EachOnce, Ordered
<1>2. ASSUME NEW C \in SUBSET Holder, NEW D \in SUBSET Holder',
             Holder \ C = Holder' \ D, \A h \in Holder \ C : Held(h)' = Held(h), taken <= taken',
             UNION {Range(Held(h)') : h \in D} = (UNION {Range(Held(h)) : h \in C}) \cup (taken+1..taken'),
             \A h, k \in D : h # k => Range(Held(h)') \cap Range(Held(k)') = {},
             \A h \in D : Increasing(Held(h)')
      PROVE  Kept'
  <2>1. Ordered'
    <3>1. ASSUME NEW h \in Holder' PROVE Increasing(Held(h)')
      <4>1. CASE h \in D
        BY <1>2, <4>1
      <4>2. CASE h \notin D
        <5>1. Held(h)' = Held(h) /\ h \in Holder
          BY <1>2, <4>2
        <5> QED BY <5>1 DEF Kept, Ordered
      <4> QED BY <4>1, <4>2
    <3> QED BY <3>1 DEF Ordered, Increasing
  <2>2. EachOnce'
    <3> DEFINE r(h) == Range(Held(h))
               s(h) == Range(Held(h)')
    <3>1. /\ UNION {r(h) : h \in Holder} = 1..taken
          /\ \A h, k \in Holder : h # k => r(h) \cap r(k) = {}
      BY DEF Kept, EachOnce
    <3>2. /\ \A h \in Holder \ C : s(h) = r(h)
          /\ UNION {s(h) : h \in D} = (UNION {r(h) : h \in C}) \cup (taken+1..taken')
          /\ \A h, k \in D : h # k => s(h) \cap s(k) = {}
      BY <1>2
    <3> HIDE DEF r, s
    <3>3. 1..taken' = 1..taken \cup (taken+1..taken') /\ 1..taken \cap (taken+1..taken') = {}
      BY <1>0, <1>2
    <3>4. UNION {s(h) : h \in Holder'} = (UNION {s(h) : h \in D}) \cup UNION {r(h) : h \in Holder \ C}
      BY <1>2, <3>2
    <3>5. UNION {r(h) : h \in Holder} = (UNION {r(h) : h \in C}) \cup UNION {r(h) : h \in Holder \ C}
      OBVIOUS
    <3>6. ASSUME NEW h \in D, NEW k \in Holder' \ D, NEW b \in s(h), b \in s(k) PROVE FALSE
      <4>1. k \in Holder \ C /\ b \in r(k) /\ b \in 1..taken
        BY <1>2, <3>1, <3>2, <3>6
      <4>2. b \in UNION {s(x) : x \in D}
        BY <3>6
      <4>3. PICK x \in C : b \in r(x)
        BY <3>2, <3>3, <4>1, <4>2
      <4> QED BY <3>1, <4>1, <4>3
    <3>7. ASSUME NEW h \in Holder' \ D, NEW k \in Holder' \ D, h # k PROVE s(h) \cap s(k) = {}
      BY <1>2, <3>1, <3>2, <3>7
    <3>8. /\ UNION {s(h) : h \in Holder'} = 1..taken'
          /\ \A h, k \in Holder' : h # k => s(h) \cap s(k) = {}
      BY <3>1, <3>2, <3>3, <3>4, <3>5, <3>6, <3>7
    <3> QED BY <3>8 DEF EachOnce, Range, s
  <2> QED BY <2>1, <2>2 DEF Kept
<1>3. ASSUME NEW g \in Out, Wipe(g) PROVE Kept'
  <2> PICK n : n = Len(sent) + 1
    OBVIOUS
  <2> DEFINE new == <<"sent", n>>
  <2>0. streams' = streams /\ taken' = taken /\ (sent' = sent \/ sent' = Append(sent, WIPE))
    BY <1>3 DEF Wipe, streams
  <2>1. CASE sent' = sent
    BY <1>1, <2>0, <2>1 DEF streams
  <2>2. CASE sent' = Append(sent, WIPE)
    <3>1. /\ DOMAIN sent' = DOMAIN sent \cup {n} /\ sent'[n] = <<>>
          /\ \A i \in DOMAIN sent : sent'[i] = sent[i] /\ i # n
      BY <1>0, <2>2 DEF WIPE
    <3>2. Holder' = Holder \cup {new} /\ new \notin Holder
      BY <3>1 DEF Holder
    <3>3. Held(new)' = <<>>
      BY <3>1 DEF Held
    <3>4. \A h \in Holder : Held(h)' = Held(h)
      BY <2>0, <3>1 DEF Holder, Held, streams
    <3>5. Range(Held(new)') = {} /\ Increasing(Held(new)')
      BY <3>3 DEF Range, Increasing
    <3>6. taken + 1..taken' = {}
      BY <1>0, <2>0
    <3> HIDE DEF new
    <3> DEFINE C == {}
               D == {new}
    <3>7. UNION {Range(Held(h)') : h \in D} = (UNION {Range(Held(h)) : h \in C}) \cup (taken+1..taken')
      BY <3>5, <3>6
    <3>8. C \in SUBSET Holder /\ D \in SUBSET Holder' /\ Holder \ C = Holder' \ D
      BY <3>2
    <3>9. /\ \A h \in Holder \ C : Held(h)' = Held(h)
          /\ \A h, k \in D : h # k => Range(Held(h)') \cap Range(Held(k)') = {}
          /\ \A h \in D : Increasing(Held(h)')
      BY <3>4, <3>5
    <3>10. taken <= taken'
      BY <1>0, <2>0
    <3> HIDE DEF C, D
    <3> QED BY <1>2, <3>7, <3>8, <3>9, <3>10
  <2> QED BY <2>0, <2>1, <2>2
\* A scanner reads, or gives up what it has kept.
<1>4. ASSUME NEW g \in Out, Read(g) \/ ReadEnds(g) PROVE Kept'
  <2> DEFINE b == <<"buf", g>>
             t == <<"token", g>>
             C == {b, t}
  <2>0. Holder' = Holder /\ sent' = sent /\ C \in SUBSET Holder /\ b # t
    BY <1>4 DEF Read, ReadEnds, Holder
  <2>1. Held(b) = buf[g] /\ Held(t) = token[g] /\ Held(b)' = buf'[g] /\ Held(t)' = token'[g]
    BY DEF Held
  <2>2. ASSUME \A f \in Out \ {g} : buf'[f] = buf[f] /\ token'[f] = token[f]
        PROVE  \A h \in Holder \ C : Held(h)' = Held(h)
    BY <2>0, <2>2 DEF Holder, Held
  <2>3. ASSUME \A f \in Out \ {g} : buf'[f] = buf[f] /\ token'[f] = token[f], taken <= taken',
               Range(buf'[g]) \cup Range(token'[g])
                 = (Range(buf[g]) \cup Range(token[g])) \cup (taken+1..taken'),
               Range(buf'[g]) \cap Range(token'[g]) = {},
               Increasing(buf'[g]), Increasing(token'[g])
        PROVE  Kept'
    <3>1. UNION {Range(Held(h)') : h \in C} = (UNION {Range(Held(h)) : h \in C}) \cup (taken+1..taken')
      <4>1. UNION {Range(Held(h)') : h \in C} = Range(buf'[g]) \cup Range(token'[g])
        BY <2>1
      <4>2. UNION {Range(Held(h)) : h \in C} = Range(buf[g]) \cup Range(token[g])
        BY <2>1
      <4> QED BY <2>3, <4>1, <4>2
    <3>2. \A h, k \in C : h # k => Range(Held(h)') \cap Range(Held(k)') = {}
      BY <2>1, <2>3
    <3>3. \A h \in C : Increasing(Held(h)')
      BY <2>1, <2>3
    <3>4. Holder \ C = Holder' \ C /\ C \in SUBSET Holder' /\ \A h \in Holder \ C : Held(h)' = Held(h)
      BY <2>0, <2>2, <2>3
    <3> HIDE DEF C
    <3> QED BY <1>2, <2>0, <2>3, <3>1, <3>2, <3>3, <3>4
  <2>4. CASE Read(g)
    <3>1. PICK n, s : Got(g, n, s)
      BY <2>4, ReadGets
    <3>2. n \in Nat /\ n > taken /\ taken' = n
      BY <1>0, <3>1, OutputAssumption DEF Got
    <3>3. Increasing(s) /\ Range(s) = Range(buf[g]) \cup (taken+1..n)
      BY <3>1, GotBytes
    <3>4. buf'[g] = Scanned(s).rest /\ token'[g] = Scanned(s).token
             /\ \A f \in Out \ {g} : buf'[f] = buf[f] /\ token'[f] = token[f]
      BY <1>0, <3>1 DEF Got
    <3>5. token[g] = <<>> /\ Range(token[g]) = {}
      BY <2>4 DEF Read, Goto, TokenInv, Range
    <3>6. /\ Range(Scanned(s).token) \cup Range(Scanned(s).rest) = Range(s)
          /\ Range(Scanned(s).token) \cap Range(Scanned(s).rest) = {}
          /\ Increasing(Scanned(s).token) /\ Increasing(Scanned(s).rest)
      BY <3>1, <3>3, ScannedDivides DEF Got
    <3> QED BY <1>0, <2>3, <3>2, <3>3, <3>4, <3>5, <3>6
  <2>5. CASE ReadEnds(g)
    <3>0. taken' = taken
      BY <2>5 DEF ReadEnds
    <3>1. CASE buf[g] = <<>>
      <4>1. UNCHANGED <<taken, buf, token, sent>>
        BY <2>5, <3>1 DEF ReadEnds
      <4> QED BY <1>1, <4>1
    <3>2. CASE buf[g] # <<>>
      <4>1. token' = [token EXCEPT ![g] = buf[g]] /\ buf' = [buf EXCEPT ![g] = <<>>]
              /\ pc[g] = "read"
        BY <2>5, <3>2 DEF ReadEnds, Goto
      <4>2. token[g] = <<>>
        BY <4>1 DEF TokenInv
      <4>3. /\ token'[g] = buf[g] /\ buf'[g] = <<>>
            /\ \A f \in Out \ {g} : buf'[f] = buf[f] /\ token'[f] = token[f]
        BY <1>0, <4>1
      <4>4. Range(token[g]) = {} /\ Range(buf'[g]) = {} /\ Increasing(buf'[g])
        BY <4>2, <4>3 DEF Range, Increasing
      <4>5. Increasing(buf[g])
        BY <2>0, <2>1 DEF Kept, Ordered
      <4>6. taken+1..taken' = {} /\ taken <= taken'
        BY <1>0, <3>0
      <4> QED BY <2>3, <4>3, <4>4, <4>5, <4>6
    <3> QED BY <3>1, <3>2
  <2> QED BY <1>4, <2>4, <2>5
\* A message that is written moves from the goroutine to the client.
<1>5. ASSUME NEW g \in Out, Write(g) PROVE Kept'
  <2> PICK n : n = Len(sent) + 1
    OBVIOUS
  <2> DEFINE new == <<"sent", n>>
             t == <<"token", g>>
  <2>0. taken' = taken /\ buf' = buf
    BY <1>5 DEF Write
  <2>1. CASE UNCHANGED <<sent, token>>
    BY <1>1, <2>0, <2>1
  <2>2. CASE sent' = Append(sent, token[g]) /\ token' = [token EXCEPT ![g] = <<>>]
    <3>1. /\ DOMAIN sent' = DOMAIN sent \cup {n} /\ sent'[n] = token[g]
          /\ \A i \in DOMAIN sent : sent'[i] = sent[i] /\ i # n
      BY <1>0, <2>2
    <3>2. Holder' = Holder \cup {new} /\ new \notin Holder /\ t \in Holder /\ t # new
      BY <3>1 DEF Holder
    <3>3. token'[g] = <<>> /\ \A f \in Out \ {g} : token'[f] = token[f]
      BY <1>0, <2>2
    <3>4. Held(new)' = token[g] /\ Held(t) = token[g] /\ Held(t)' = <<>>
      BY <3>1, <3>3 DEF Held
    <3>5. \A h \in Holder \ {t} : Held(h)' = Held(h)
      BY <2>0, <3>1, <3>3 DEF Holder, Held
    <3>6. Range(Held(t)') = {} /\ Increasing(Held(t)') /\ Range(Held(new)') = Range(Held(t))
            /\ Increasing(Held(new)')
      BY <3>2, <3>4 DEF Range, Increasing, Kept, Ordered
    <3>7. taken+1..taken' = {} /\ taken <= taken'
      BY <1>0, <2>0
    <3> HIDE DEF new, t
    <3> DEFINE C == {t}
               D == {t, new}
    <3>8. UNION {Range(Held(h)') : h \in D} = (UNION {Range(Held(h)) : h \in C}) \cup (taken+1..taken')
      BY <3>6, <3>7
    <3>9. C \in SUBSET Holder /\ D \in SUBSET Holder' /\ Holder \ C = Holder' \ D
      BY <3>2
    <3>10. /\ \A h \in Holder \ C : Held(h)' = Held(h)
           /\ \A h, k \in D : h # k => Range(Held(h)') \cap Range(Held(k)') = {}
           /\ \A h \in D : Increasing(Held(h)')
      BY <3>5, <3>6
    <3> HIDE DEF C, D
    <3> QED BY <1>2, <3>7, <3>8, <3>9, <3>10
  <2> QED BY <1>5, <2>1, <2>2 DEF Write
<1>6. CASE UNCHANGED <<streams, sent>>
  BY <1>1, <1>6 DEF streams
<1> QED BY <1>3, <1>4, <1>5, <1>6, OtherSteps

\* What is held has been read.
LEMMA HeldRead ==
  ASSUME Kept
  PROVE  /\ \A h \in Holder : Range(Held(h)) \subseteq 1..taken
         /\ \A g \in Out : Range(buf[g]) \subseteq 1..taken /\ Range(token[g]) \subseteq 1..taken
<1>1. \A h \in Holder : Range(Held(h)) \subseteq 1..taken
  BY DEF Kept, EachOnce
<1>2. \A g \in Out : /\ <<"buf", g>> \in Holder /\ Held(<<"buf", g>>) = buf[g]
                     /\ <<"token", g>> \in Holder /\ Held(<<"token", g>>) = token[g]
  BY DEF Holder, Held
<1> QED BY <1>1, <1>2

\* What a scanner with bytes keeps is the last, if that begins a rune.
LEMMA ScannedRest ==
  ASSUME NEW s \in Seq(Byte), s # <<>>
  PROVE  IF Output[s[Len(s)]] = "lead"
         THEN /\ Scanned(s).rest = <<s[Len(s)]>>
              /\ Scanned(s).token = [i \in 1..Len(s) - 1 |-> s[i]]
         ELSE Scanned(s).rest = <<>> /\ Scanned(s).token = s
BY DEF Scanned, Waiting, Front, Last

\* The last byte a scanner gets is the last byte that was read.
LEMMA GotLast ==
  ASSUME DataInv, NEW g \in Out, NEW n, NEW s, Got(g, n, s)
  PROVE  s # <<>> /\ s[Len(s)] = n /\ n \in Byte /\ n \in Nat /\ n > taken
<1>1. /\ taken \in Nat /\ n \in Nat /\ n > taken /\ n - taken \in Nat \ {0}
      /\ Len(Output) \in Nat /\ Byte = 1..Len(Output) /\ n \in Byte
  BY OutputAssumption, SMTT(30) DEF DataInv, Byte, Got
<1>2. Len(buf[g]) \in Nat
  BY DEF DataInv
<1>3. Len(s) = Len(buf[g]) + (n - taken) /\ Len(s) \in Len(buf[g])+1..Len(s)
  BY <1>1, <1>2, SMTT(30) DEF Got
<1>4. s[Len(s)] = taken + (Len(s) - Len(buf[g]))
  BY <1>3 DEF Got
<1>5. s # <<>>
  BY <1>1, <1>2, <1>3
<1> QED BY <1>1, <1>2, <1>3, <1>4, <1>5

\* A reader's buffer and message are bytes it has read.
LEMMA StepBy ==
  DataInv /\ TokenInv /\ Kept /\ ByInv /\ [Next]_vars => ByInv'
<1> SUFFICES ASSUME DataInv, TokenInv, Kept, ByInv, [Next]_vars PROVE ByInv'
  OBVIOUS
<1>0. /\ buf \in [Out -> Seq(Byte)] /\ token \in [Out -> Seq(Byte)] /\ Range(<<>>) = {}
      /\ taken \in Nat
  BY OutputAssumption DEF DataInv, Range
<1>1. CASE UNCHANGED <<by, buf, token>>
  BY <1>1 DEF ByInv
<1>2. ASSUME NEW g \in Out, Read(g) PROVE ByInv'
  <2>1. PICK n, s : Got(g, n, s)
    BY <1>2, ReadGets
  <2>2. Increasing(s) /\ Range(s) = Range(buf[g]) \cup (taken+1..n)
    BY <2>1, GotBytes
  <2>3. Range(Scanned(s).token) \cup Range(Scanned(s).rest) = Range(s)
    BY <2>1, <2>2, ScannedDivides DEF Got
  <2>4. \A i \in 1..taken : i \notin taken+1..n
    BY <1>0
  <2>5. Range(s) \subseteq Byte
    BY <2>1 DEF Got, Range
  <2>6. /\ \A i \in 1..taken : i \in Byte => by'[i] = by[i]
        /\ \A i \in taken+1..n : i \in Byte => by'[i] = g
    BY <2>1, <2>4 DEF Got
  <2>7. ASSUME NEW f \in Out, NEW i \in Range(buf'[f]) \cup Range(token'[f]) PROVE by'[i] = f
    <3>1. CASE f = g
      <4>1. i \in Range(buf[g]) \cup (taken+1..n) /\ i \in Byte
        BY <1>0, <2>1, <2>2, <2>3, <2>5, <3>1 DEF Got
      <4> QED BY <2>6, <3>1, <4>1, HeldRead DEF ByInv
    <3>2. CASE f # g
      <4>1. i \in Range(buf[f]) \cup Range(token[f])
        BY <1>0, <2>1, <3>2 DEF Got
      <4>2. i \in Byte
        BY <1>0, <4>1 DEF Range
      <4>3. i \in 1..taken
        BY <4>1, HeldRead
      <4> QED BY <2>6, <4>1, <4>2, <4>3 DEF ByInv
    <3> QED BY <3>1, <3>2
  <2> QED BY <2>7 DEF ByInv
<1>3. ASSUME NEW g \in Out, ReadEnds(g) PROVE ByInv'
  <2>1. \/ UNCHANGED <<by, buf, token>>
        \/ by' = by /\ token' = [token EXCEPT ![g] = buf[g]] /\ buf' = [buf EXCEPT ![g] = <<>>]
    BY <1>3 DEF ReadEnds
  <2>2. CASE /\ by' = by /\ token' = [token EXCEPT ![g] = buf[g]]
             /\ buf' = [buf EXCEPT ![g] = <<>>]
    <3>1. ASSUME NEW f \in Out
          PROVE  Range(buf'[f]) \cup Range(token'[f])
                   \subseteq Range(buf[f]) \cup Range(token[f])
      BY <1>0, <2>2 DEF Range
    <3> QED BY <2>2, <3>1 DEF ByInv
  <2> QED BY <1>1, <2>1, <2>2 DEF ByInv
<1>4. ASSUME NEW g \in Out, Write(g) PROVE ByInv'
  <2>1. \/ UNCHANGED <<by, buf, token>>
        \/ by' = by /\ token' = [token EXCEPT ![g] = <<>>] /\ buf' = buf
    BY <1>4 DEF Write
  <2> QED BY <1>0, <1>1, <2>1 DEF ByInv
<1>5. (\E g \in Out : Wipe(g)) \/ UNCHANGED <<streams, sent>> => ByInv'
  BY <1>1 DEF Wipe, streams
<1> QED BY <1>2, <1>3, <1>4, <1>5, OtherSteps

\* A scanner keeps no more than the last byte of its reader's last read.
LEMMA StepBuf ==
  DataInv /\ Kept /\ BufInv /\ [Next]_vars => BufInv'
<1> SUFFICES ASSUME DataInv, Kept, BufInv, [Next]_vars PROVE BufInv'
  OBVIOUS
<1>0. buf \in [Out -> Seq(Byte)] /\ taken \in Nat /\ Byte \subseteq Nat
  BY OutputAssumption DEF DataInv, Byte
<1>1. ASSUME UNCHANGED <<taken, by>>, \A f \in Out : buf'[f] = buf[f] \/ buf'[f] = <<>> PROVE BufInv'
  BY <1>1 DEF BufInv
<1>2. ASSUME NEW g \in Out, Read(g) PROVE BufInv'
  <2>1. PICK n, s : Got(g, n, s)
    BY <1>2, ReadGets
  <2>2. s # <<>> /\ s[Len(s)] = n /\ n \in Byte /\ n \in Nat /\ n > taken /\ taken' = n
    <3>1. taken' = n
      BY <2>1 DEF Got
    <3> QED BY <2>1, <3>1, GotLast
  <2>3. Scanned(s).rest = <<>> \/ (Output[n] = "lead" /\ Scanned(s).rest = <<n>>)
    BY <2>1, <2>2, ScannedRest DEF Got
  <2>4. ASSUME NEW f \in Out, buf'[f] # <<>>
        PROVE  \E p \in 1..taken' :
                 buf'[f] = <<p>> /\ Output[p] = "lead" /\ \A q \in p + 1..taken' : by'[q] # f
    <3>1. CASE f = g
      <4>1. buf'[f] = <<n>> /\ Output[n] = "lead" /\ n \in 1..taken'
        BY <1>0, <2>1, <2>2, <2>3, <2>4, <3>1 DEF Got
      <4>2. n + 1..taken' = {}
        BY <2>2
      <4> QED BY <4>1, <4>2
    <3>2. CASE f # g
      <4>1. buf'[f] = buf[f]
        BY <1>0, <2>1, <3>2 DEF Got
      <4>2. PICK p \in 1..taken :
              buf[f] = <<p>> /\ Output[p] = "lead" /\ \A q \in p + 1..taken : by[q] # f
        BY <2>4, <4>1 DEF BufInv
      <4>3. ASSUME NEW q \in p + 1..taken' PROVE by'[q] # f
        <5>1. q \in Byte /\ q \in 1..n
          BY <1>0, <2>1, <2>2, OutputAssumption, SMTT(30) DEF Got, Byte
        <5>2. CASE q \in taken+1..n
          BY <2>1, <3>2, <5>1, <5>2 DEF Got
        <5>3. CASE q \notin taken+1..n
          <6>1. q \in p + 1..taken
            BY <1>0, <2>2, <5>1, <5>3
          <6> QED BY <2>1, <4>2, <5>1, <5>3, <6>1 DEF Got
        <5> QED BY <5>2, <5>3
      <4>4. p \in 1..taken'
        BY <1>0, <2>2
      <4> QED BY <4>1, <4>2, <4>3, <4>4
    <3> QED BY <3>1, <3>2
  <2> QED BY <2>4 DEF BufInv
<1>3. ASSUME NEW g \in Out, ReadEnds(g) PROVE BufInv'
  <2>1. UNCHANGED <<taken, by>> /\ (buf' = buf \/ buf' = [buf EXCEPT ![g] = <<>>])
    BY <1>3 DEF ReadEnds
  <2> QED BY <1>0, <1>1, <2>1
<1>4. ASSUME NEW g \in Out, Wipe(g) \/ Write(g) PROVE BufInv'
  BY <1>1, <1>4 DEF Wipe, Write, streams
<1>5. UNCHANGED <<streams, sent>> => BufInv'
  BY <1>1 DEF streams
<1> QED BY <1>2, <1>3, <1>4, <1>5, OtherSteps

\* The last byte read waits with its reader if it begins a rune and more is to come.
LEMMA StepTail ==
  DataInv /\ LinkInv /\ FreshInv /\ TailInv /\ [Next]_vars => TailInv'
<1> SUFFICES ASSUME DataInv, LinkInv, FreshInv, TailInv, [Next]_vars PROVE TailInv'
  OBVIOUS
<1>0. buf \in [Out -> Seq(Byte)] /\ taken \in Nat /\ hj \in BOOLEAN /\ hj' \in BOOLEAN
  BY StepLink, OutputAssumption DEF DataInv, LinkInv
<1>1. ASSUME UNCHANGED <<taken, by, buf>>, hj' => hj PROVE TailInv'
  BY <1>0, <1>1 DEF TailInv
<1>2. CASE Attach
  BY <1>2 DEF Attach, FreshInv, TailInv, streams
<1>3. CASE Create \/ Message \/ Panic \/ Feed \/ NoMoreInput \/ TryResize \/ CloseAll
           \/ ProxyReturns \/ Disconnect \/ CommandEnds
           \/ (\E e \in {"client", "command"} : StopsReading(e)) \/ UNCHANGED vars
  <2>1. UNCHANGED streams
    BY <1>3 DEF Create, Message, Panic, Feed, NoMoreInput, TryResize, CloseAll, ProxyReturns,
                Disconnect, CommandEnds, StopsReading, vars
  <2>2. hj' = hj \/ hj' = FALSE
    BY <1>3 DEF Create, Message, Panic, Feed, NoMoreInput, TryResize, CloseAll, ProxyReturns,
                Disconnect, CommandEnds, StopsReading, vars, links
  <2> QED BY <1>1, <2>1, <2>2 DEF streams
<1>4. ASSUME NEW g \in Out, Read(g) PROVE TailInv'
  <2>1. PICK n, s : Got(g, n, s)
    BY <1>4, ReadGets
  <2>2. s # <<>> /\ s[Len(s)] = n /\ n \in Byte /\ n \in Nat /\ n > taken /\ taken' = n
    <3>1. taken' = n
      BY <2>1 DEF Got
    <3> QED BY <2>1, <3>1, GotLast
  <2>3. Output[n] = "lead" => Scanned(s).rest = <<n>>
    BY <2>1, <2>2, ScannedRest DEF Got
  <2>4. n \in taken+1..n
    BY <1>0, <2>2
  <2>5. by'[n] = g /\ buf'[g] = Scanned(s).rest
    BY <1>0, <2>1, <2>2, <2>4 DEF Got
  <2> QED BY <2>2, <2>3, <2>5 DEF TailInv
<1>5. ASSUME NEW g \in Out, ReadEnds(g) PROVE TailInv'
  <2>1. UNCHANGED <<taken, by, hj>> /\ (buf' = buf \/ buf' = [buf EXCEPT ![g] = <<>>])
    BY <1>5 DEF ReadEnds, links
  <2>2. CASE buf' = buf
    BY <1>1, <2>1, <2>2
  <2>3. CASE taken = Len(Output) \/ ~hj
    BY <2>1, <2>3 DEF TailInv
  <2> QED BY <1>5, <2>2, <2>3 DEF ReadEnds
<1>6. ASSUME NEW g \in Out, Wipe(g) \/ Write(g) PROVE TailInv'
  BY <1>1, <1>6 DEF Wipe, Write, streams, links
<1> QED BY <1>2, <1>3, <1>4, <1>5, <1>6 DEF Next, OutStep

\* Where a holder comes before another does not depend on the state, and what a step does
\* not touch stays in its order.
LEMMA StepSuccession ==
  /\ DataInv /\ TokenInv /\ Kept /\ ByInv /\ Succession /\ [Next]_vars
  => Succession'
<1> SUFFICES ASSUME DataInv, TokenInv, Kept, ByInv, Succession, [Next]_vars,
                    NEW h \in Holder', NEW k \in Holder', Before(h, k),
                    NEW p \in Range(Held(h)'), NEW q \in Range(Held(k)'), by'[p] = by'[q]
             PROVE  p < q
  BY DEF Succession, Before
<1>0. /\ buf \in [Out -> Seq(Byte)] /\ token \in [Out -> Seq(Byte)] /\ sent \in Seq(Seq(Byte))
      /\ taken \in Nat /\ Range(<<>>) = {}
  BY OutputAssumption DEF DataInv, Range
<1>1. CASE UNCHANGED <<taken, by, buf, token, sent>>
  <2>1. Holder' = Holder /\ Held(h)' = Held(h) /\ Held(k)' = Held(k)
    BY <1>1 DEF Holder, Held
  <2> QED BY <1>1, <2>1 DEF Succession
<1>2. ASSUME NEW g \in Out, Wipe(g) PROVE p < q
  <2>1. UNCHANGED <<taken, by, buf, token>> /\ (sent' = sent \/ sent' = Append(sent, WIPE))
    BY <1>2 DEF Wipe, streams
  <2>2. CASE sent' = Append(sent, WIPE)
    <3>1. /\ DOMAIN sent' = DOMAIN sent \cup {Len(sent) + 1} /\ sent'[Len(sent) + 1] = <<>>
          /\ \A i \in DOMAIN sent : sent'[i] = sent[i]
      BY <1>0, <2>2 DEF WIPE
    <3>2. \A x \in Holder' : Range(Held(x)') # {} => x \in Holder /\ Held(x)' = Held(x)
      BY <1>0, <2>1, <3>1 DEF Holder, Held
    <3> QED BY <2>1, <3>2 DEF Succession
  <2> QED BY <1>1, <2>1, <2>2
\* The new bytes are later than all others; of those in the scanner, the last stays.
<1>3. ASSUME NEW g \in Out, Read(g) PROVE p < q
  <2> DEFINE b == <<"buf", g>>
             t == <<"token", g>>
  <2>0. Holder' = Holder /\ b \in Holder
    BY <1>3 DEF Read, Holder
  <2>1. PICK n, s : Got(g, n, s)
    BY <1>3, ReadGets
  <2>2. s # <<>> /\ s[Len(s)] = n /\ n \in Nat /\ n > taken
    BY <2>1, GotLast
  <2>3. Increasing(s) /\ Range(s) = Range(buf[g]) \cup (taken+1..n)
    BY <2>1, GotBytes
  <2>4. Range(Scanned(s).token) \cup Range(Scanned(s).rest) = Range(s)
    BY <2>1, <2>3, ScannedDivides DEF Got
  <2>5. Held(b)' = Scanned(s).rest /\ Held(t)' = Scanned(s).token /\ Held(b) = buf[g]
    BY <1>0, <2>1 DEF Held, Got
  <2>6. \A x \in Holder \ {b, t} : Held(x)' = Held(x)
    BY <1>0, <1>3, <2>1, SMTT(30) DEF Holder, Held, Got, Read
  <2>7. ASSUME NEW i \in 1..taken PROVE by'[i] = by[i]
    <3>1. i \in Byte /\ i \notin taken+1..n
      BY <1>0, OutputAssumption DEF DataInv, Byte
    <3> QED BY <2>1, <3>1 DEF Got
  <2>8. \A x \in Holder : Range(Held(x)) \subseteq 1..taken
    BY HeldRead
  <2>9. CASE h \notin {b, t} /\ k \notin {b, t}
    BY <2>0, <2>6, <2>7, <2>8, <2>9 DEF Succession
  <2>10. CASE h \notin {b, t} /\ k \in {b, t}
    <3>1. h[1] = "sent" /\ h \in Holder /\ Held(h)' = Held(h) /\ p \in 1..taken
      BY <2>0, <2>6, <2>8, <2>10 DEF Before, Holder
    <3>2. q \in Range(buf[g]) \cup (taken+1..n)
      BY <2>3, <2>4, <2>5, <2>10
    <3>3. CASE q \in Range(buf[g])
      <4>1. Before(h, b)
        BY <3>1 DEF Before
      <4>2. q \in 1..taken
        BY <3>3, HeldRead
      <4>3. by[p] = by[q] /\ p \in Range(Held(h)) /\ q \in Range(Held(b))
        BY <2>5, <2>7, <3>1, <3>3, <4>2
      <4> QED BY <2>0, <3>1, <4>1, <4>3 DEF Succession
    <3>4. CASE q \in taken+1..n
      BY <1>0, <2>2, <3>1, <3>4
    <3> QED BY <3>2, <3>3, <3>4
  <2>11. CASE h \in {b, t}
    <3>1. h = t /\ k = b
      BY <2>0, <2>11 DEF Before, Holder, Out
    <3>2. Scanned(s).rest = <<n>> /\ q = n /\ Scanned(s).token = [i \in 1..Len(s) - 1 |-> s[i]]
      <4>1. Scanned(s).rest # <<>>
        BY <1>0, <2>5, <3>1
      <4>2. Scanned(s).rest = <<n>> /\ Scanned(s).token = [i \in 1..Len(s) - 1 |-> s[i]]
        BY <2>1, <2>2, <4>1, ScannedRest DEF Got
      <4> QED BY <2>5, <3>1, <4>2 DEF Range
    <3>3. PICK i \in 1..Len(s) - 1 : p = s[i]
      BY <2>5, <3>1, <3>2, SMTT(30) DEF Range
    <3>4. i \in DOMAIN s /\ Len(s) \in DOMAIN s /\ i < Len(s)
      BY <2>1, <2>2 DEF Got
    <3> QED BY <2>2, <2>3, <3>2, <3>3, <3>4 DEF Increasing
  <2> QED BY <2>9, <2>10, <2>11
<1>4. ASSUME NEW g \in Out, ReadEnds(g) PROVE p < q
  <2> DEFINE b == <<"buf", g>>
             t == <<"token", g>>
  <2>0. Holder' = Holder /\ b \in Holder /\ UNCHANGED <<taken, by, sent>>
    BY <1>4 DEF ReadEnds, Holder
  <2>1. CASE UNCHANGED <<buf, token>>
    BY <1>1, <2>0, <2>1
  <2>2. CASE token' = [token EXCEPT ![g] = buf[g]] /\ buf' = [buf EXCEPT ![g] = <<>>]
    <3>1. Held(b)' = <<>> /\ Held(t)' = Held(b)
      BY <1>0, <2>2 DEF Held
    <3>2. \A x \in Holder \ {b, t} : Held(x)' = Held(x)
      BY <1>0, <2>0, <2>2 DEF Holder, Held
    <3>3. h # b /\ k # b
      BY <1>0, <3>1
    <3>4. CASE h # t /\ k # t
      BY <2>0, <3>2, <3>3, <3>4 DEF Succession
    <3>5. CASE h = t
      BY <2>0, <3>3, <3>5 DEF Before, Holder, Out
    <3>6. CASE h # t /\ k = t
      <4>1. h[1] = "sent" /\ Before(h, b)
        BY <3>6 DEF Before
      <4>2. Held(h)' = Held(h)
        BY <2>0, <3>2, <3>3, <3>6
      <4> QED BY <2>0, <3>1, <3>6, <4>1, <4>2 DEF Succession
    <3> QED BY <3>4, <3>5, <3>6
  <2> QED BY <1>4, <2>1, <2>2 DEF ReadEnds
<1>5. ASSUME NEW g \in Out, Write(g) PROVE p < q
  <2> PICK m : m = Len(sent) + 1
    OBVIOUS
  <2> DEFINE new == <<"sent", m>>
             t == <<"token", g>>
  <2>0. UNCHANGED <<taken, by, buf>> /\ t \in Holder
    BY <1>5 DEF Write, Holder
  <2>1. CASE UNCHANGED <<sent, token>>
    BY <1>1, <2>0, <2>1
  <2>2. CASE sent' = Append(sent, token[g]) /\ token' = [token EXCEPT ![g] = <<>>]
    <3>1. /\ DOMAIN sent' = DOMAIN sent \cup {m} /\ sent'[m] = token[g] /\ m \in Nat
          /\ \A i \in DOMAIN sent : sent'[i] = sent[i] /\ i < m /\ i \in Nat
      BY <1>0, <2>2
    <3>2. Holder' = Holder \cup {new} /\ new # t
      BY <3>1 DEF Holder
    <3>3. Held(new)' = token[g] /\ Held(t) = token[g] /\ Held(t)' = <<>>
      <4>1. token'[g] = <<>>
        BY <1>0, <2>2
      <4> QED BY <3>1, <4>1 DEF Held
    <3>4. \A x \in Holder \ {t} : x # new /\ Held(x)' = Held(x)
      BY <1>0, <2>0, <2>2, <3>1 DEF Holder, Held
    <3>5. h # t /\ k # t
      BY <1>0, <3>3
    <3>6. CASE h # new /\ k # new
      BY <2>0, <3>2, <3>4, <3>5, <3>6 DEF Succession
    <3>7. CASE h # new /\ k = new
      <4>1. h \in Holder /\ h[1] = "sent"
        BY <3>2, <3>7 DEF Before
      <4>2. Before(h, t)
        BY <4>1 DEF Before
      <4>3. p \in Range(Held(h)) /\ q \in Range(Held(t)) /\ by[p] = by[q]
        BY <2>0, <3>3, <3>4, <3>5, <3>7, <4>1
      <4> QED BY <2>0, <4>1, <4>2, <4>3 DEF Succession
    <3>8. CASE h = new
      <4>1. k # new
        BY <3>1, <3>8 DEF Before
      <4>2. k \in Holder /\ ~(k[1] = "sent")
        BY <3>1, <3>2, <3>8, <4>1 DEF Before, Holder
      <4>3. PICK f \in Out : k = <<"buf", f>> \/ k = <<"token", f>>
        BY <4>2 DEF Holder
      <4>4. p \in Range(token[g]) /\ by[p] = g
        BY <3>3, <3>8 DEF ByInv
      <4>5. q \in Range(buf[f]) \cup Range(token[f]) /\ by[q] = f
        BY <3>4, <3>5, <4>2, <4>3 DEF Held, ByInv
      <4>6. f = g /\ k = <<"buf", g>>
        BY <2>0, <3>5, <4>3, <4>4, <4>5
      <4>7. Before(t, k)
        BY <4>6 DEF Before
      <4>8. p \in Range(Held(t)) /\ q \in Range(Held(k))
        BY <3>3, <3>4, <3>5, <3>8, <4>2
      <4> QED BY <2>0, <4>2, <4>7, <4>8 DEF Succession
    <3> QED BY <3>6, <3>7, <3>8
  <2> QED BY <1>5, <2>1, <2>2 DEF Write
<1>6. UNCHANGED <<streams, sent>> => p < q
  BY <1>1 DEF streams
<1> QED BY <1>2, <1>3, <1>4, <1>5, <1>6, OtherSteps

\* A byte is replaced when it leaves the scanner.
LEMMA StepReplaced ==
  DataInv /\ Kept /\ ReplacedInv /\ [Next]_vars => ReplacedInv'
<1> SUFFICES ASSUME DataInv, Kept, ReplacedInv, [Next]_vars PROVE ReplacedInv'
  OBVIOUS
<1>0. /\ buf \in [Out -> Seq(Byte)] /\ taken \in Nat /\ Range(<<>>) = {}
  BY OutputAssumption DEF DataInv, Range
<1>1. \A f, g \in Out : f # g => Range(buf[f]) \cap Range(buf[g]) = {}
  <2>1. \A g \in Out : <<"buf", g>> \in Holder /\ Held(<<"buf", g>>) = buf[g]
    BY DEF Holder, Held
  <2>2. \A f, g \in Out : f # g => <<"buf", f>> # <<"buf", g>>
    OBVIOUS
  <2> QED BY <2>1, <2>2 DEF Kept, EachOnce
<1>2. CASE UNCHANGED <<taken, replaced, buf>>
  BY <1>2 DEF ReplacedInv
<1>3. ASSUME NEW g \in Out, Read(g) PROVE ReplacedInv'
  <2>1. PICK n, s : Got(g, n, s)
    BY <1>3, ReadGets
  <2>2. Range(s) = Range(buf[g]) \cup (taken+1..n) /\ Increasing(s)
    BY <2>1, GotBytes
  <2>3. /\ s # <<>> /\ s[Len(s)] = n /\ n \in Byte /\ n \in Nat /\ n > taken /\ taken' = n
        /\ s \in Seq(Byte)
    <3>1. taken' = n /\ s \in Seq(Byte)
      BY <2>1 DEF Got
    <3> QED BY <2>1, <3>1, GotLast
  <2>4. replaced' = replaced \cup (Invalid(s) \ Range(Scanned(s).rest)) /\ Invalid(s) \subseteq Range(s)
    BY <2>1, <2>3 DEF Got, Invalid, Range
  <2>5. \A f \in Out : Range(buf[f]) \subseteq 1..taken
    BY HeldRead
  <2>6. replaced \subseteq 1..taken /\ \A i \in 1..taken : i \notin taken+1..n /\ i \in 1..n
    BY <1>0, <2>3 DEF ReplacedInv
  <2>7. replaced' \subseteq 1..taken'
    <3>1. \A i \in taken+1..n : i \in 1..n
      BY <1>0
    <3> QED BY <2>2, <2>3, <2>4, <2>5, <2>6, <3>1
  <2>8. ASSUME NEW f \in Out PROVE Range(buf'[f]) \cap replaced' = {}
    <3>1. CASE f # g
      <4>1. buf'[f] = buf[f]
        BY <1>0, <2>1, <3>1 DEF Got
      <4>2. Range(buf[f]) \cap Range(s) = {}
        BY <1>1, <2>2, <2>5, <2>6, <3>1
      <4> QED BY <2>4, <4>1, <4>2 DEF ReplacedInv
    <3>2. CASE f = g
      <4>1. buf'[f] = Scanned(s).rest
        BY <1>0, <2>1, <3>2 DEF Got
      <4>2. Scanned(s).rest = <<>> \/ Scanned(s).rest = <<n>>
        BY <2>3, ScannedRest
      <4>3. Range(<<n>>) = {n} /\ n \notin 1..taken
        BY <1>0, <2>3 DEF Range
      <4> QED BY <1>0, <2>4, <2>6, <4>1, <4>2, <4>3
    <3> QED BY <3>1, <3>2
  <2> QED BY <2>7, <2>8 DEF ReplacedInv
<1>4. ASSUME NEW g \in Out, ReadEnds(g) PROVE ReplacedInv'
  <2>1. /\ taken' = taken
        /\ \/ UNCHANGED <<replaced, buf>>
           \/ buf' = [buf EXCEPT ![g] = <<>>] /\ replaced' = replaced \cup Invalid(buf[g])
    BY <1>4 DEF ReadEnds
  <2>2. Invalid(buf[g]) \subseteq Range(buf[g]) /\ Range(buf[g]) \subseteq 1..taken
    BY HeldRead DEF Invalid, Range
  <2>3. CASE buf' = [buf EXCEPT ![g] = <<>>] /\ replaced' = replaced \cup Invalid(buf[g])
    <3>1. buf'[g] = <<>> /\ \A f \in Out \ {g} : buf'[f] = buf[f]
      BY <1>0, <2>3
    <3> QED BY <1>0, <1>1, <2>1, <2>2, <2>3, <3>1 DEF ReplacedInv
  <2> QED BY <1>2, <2>1, <2>3
<1>5. ASSUME NEW g \in Out, Wipe(g) \/ Write(g) PROVE ReplacedInv'
  BY <1>2, <1>5 DEF Wipe, Write, streams
<1>6. UNCHANGED <<streams, sent>> => ReplacedInv'
  BY <1>2 DEF streams
<1> QED BY <1>3, <1>4, <1>5, <1>6, OtherSteps

\* A rune whose bytes one reader gets is not torn: its first byte is not given up before the
\* second has come.
LEMMA StepWhole ==
  /\ DataInv /\ TokenInv /\ FreshInv /\ LinkInv /\ Kept /\ BytesInv /\ RunesWhole /\ [Next]_vars
  => RunesWhole'
<1> DEFINE Pair(p) == Output[p] = "lead" /\ Output[p + 1] = "cont"
<1> SUFFICES ASSUME DataInv, TokenInv, FreshInv, LinkInv, Kept, BytesInv, RunesWhole, [Next]_vars,
                    NEW p \in 1..taken' - 1, Pair(p), by'[p] = by'[p + 1]
             PROVE  /\ {p, p + 1} \cap replaced' = {}
                    /\ \E h \in Holder' : {p, p + 1} \subseteq Range(Held(h)')
  BY DEF RunesWhole
<1>0. /\ buf \in [Out -> Seq(Byte)] /\ token \in [Out -> Seq(Byte)] /\ sent \in Seq(Seq(Byte))
      /\ taken \in Nat /\ Range(<<>>) = {} /\ p \in Nat
      /\ Len(Output) \in Nat /\ Byte = 1..Len(Output) /\ taken <= Len(Output)
      /\ taken' \in Nat
  BY StepData, OutputAssumption DEF DataInv, Range, Byte
\* A pair that was there before, and its holder then.
<1>1. ASSUME p \in 1..taken - 1, by[p] = by[p + 1]
      PROVE  /\ {p, p + 1} \cap replaced = {}
             /\ \E h \in Holder : {p, p + 1} \subseteq Range(Held(h))
  BY <1>1 DEF RunesWhole
\* No scanner keeps a byte of such a pair.
<1>2. ASSUME p \in 1..taken - 1, by[p] = by[p + 1], NEW g \in Out
      PROVE  {p, p + 1} \cap Range(buf[g]) = {}
  <2>1. CASE buf[g] = <<>>
    BY <1>0, <2>1
  <2>2. CASE buf[g] # <<>>
    <3>1. PICK m \in 1..taken :
            buf[g] = <<m>> /\ Output[m] = "lead" /\ \A q \in m + 1..taken : by[q] # g
      BY <2>2 DEF BytesInv, BufInv
    <3>2. Range(buf[g]) = {m} /\ by[m] = g
      <4>1. Range(<<m>>) = {m}
        BY DEF Range
      <4> QED BY <3>1, <4>1 DEF BytesInv, ByInv
    <3>3. m # p + 1
      BY <3>1
    <3>4. m # p
      <4>1. p + 1 \in p + 1..taken
        BY <1>0, <1>2
      <4> QED BY <1>2, <3>1, <3>2, <4>1
    <3> QED BY <3>2, <3>3, <3>4
  <2> QED BY <2>1, <2>2
<1>3. ASSUME UNCHANGED <<taken, by, replaced>>,
             \A h \in Holder : {p, p + 1} \subseteq Range(Held(h)) =>
               \E k \in Holder' : Range(Held(h)) \subseteq Range(Held(k)')
      PROVE  /\ {p, p + 1} \cap replaced' = {}
             /\ \E h \in Holder' : {p, p + 1} \subseteq Range(Held(h)')
  BY <1>1, <1>3
<1>4. ASSUME UNCHANGED <<taken, by, replaced, buf, token, sent>>
      PROVE  /\ {p, p + 1} \cap replaced' = {}
             /\ \E h \in Holder' : {p, p + 1} \subseteq Range(Held(h)')
  <2>1. Holder' = Holder /\ \A h : Held(h)' = Held(h)
    BY <1>4 DEF Holder, Held
  <2> QED BY <1>3, <1>4, <2>1
<1>5. ASSUME NEW g \in Out, Wipe(g)
      PROVE  /\ {p, p + 1} \cap replaced' = {}
             /\ \E h \in Holder' : {p, p + 1} \subseteq Range(Held(h)')
  <2>1. UNCHANGED <<taken, by, replaced, buf, token>> /\ (sent' = sent \/ sent' = Append(sent, WIPE))
    BY <1>5 DEF Wipe, streams
  <2>2. CASE sent' = Append(sent, WIPE)
    <3> PICK m : m = Len(sent) + 1
      OBVIOUS
    <3>0. WIPE \in Seq(Nat) /\ WIPE = <<>>
      BY DEF WIPE
    <3>1. /\ DOMAIN sent' = DOMAIN sent \cup {m} /\ sent'[m] = WIPE
          /\ \A i \in DOMAIN sent : sent'[i] = sent[i] /\ i # m
      BY <1>0, <2>2, SMTT(30)
    <3>2. \A h \in Holder : h \in Holder' /\ Held(h)' = Held(h)
      BY <2>1, <3>1 DEF Holder, Held
    <3> QED BY <1>3, <2>1, <3>2
  <2> QED BY <1>4, <2>1, <2>2
<1>6. ASSUME NEW g \in Out, Read(g)
      PROVE  /\ {p, p + 1} \cap replaced' = {}
             /\ \E h \in Holder' : {p, p + 1} \subseteq Range(Held(h)')
  <2>0. Holder' = Holder /\ sent' = sent /\ token[g] = <<>> /\ hj
    BY <1>6 DEF Read, Holder, Goto, TokenInv
  <2>1. PICK n, s : Got(g, n, s)
    BY <1>6, ReadGets
  <2>2. Increasing(s) /\ Range(s) = Range(buf[g]) \cup (taken+1..n)
    BY <2>1, GotBytes
  <2>3. /\ s # <<>> /\ s[Len(s)] = n /\ n \in Byte /\ n \in Nat /\ n > taken /\ taken' = n
        /\ s \in Seq(Byte) /\ DOMAIN s = 1..Len(s) /\ Len(s) \in Nat
    <3>1. taken' = n /\ s \in Seq(Byte)
      BY <2>1 DEF Got
    <3> QED BY <2>1, <3>1, GotLast
  <2>4. /\ \A i \in 1..taken : by'[i] = by[i]
        /\ \A i \in taken+1..n : by'[i] = g
    <3>1. \A i \in 1..taken : i \in Byte /\ i \notin taken+1..n
      BY <1>0
    <3>2. \A i \in taken+1..n : i \in Byte
      BY <1>0, <2>3
    <3> QED BY <2>1, <3>1, <3>2 DEF Got
  <2>5. replaced' = replaced \cup (Invalid(s) \ Range(Scanned(s).rest)) /\ Invalid(s) \subseteq Range(s)
    BY <2>1, <2>3 DEF Got, Invalid, Range
  \* A pair read before is where it was.
  <2>6. CASE p + 1 <= taken
    <3>1. p \in 1..taken - 1 /\ p \in 1..taken /\ p + 1 \in 1..taken
      BY <1>0, <2>6
    <3>2. by[p] = by[p + 1]
      BY <2>4, <3>1
    <3>3. {p, p + 1} \cap Range(s) = {}
      <4>1. {p, p + 1} \cap (taken+1..n) = {}
        BY <1>0, <3>1
      <4> QED BY <1>2, <2>2, <3>1, <3>2, <4>1
    <3>4. PICK h \in Holder : {p, p + 1} \subseteq Range(Held(h))
      BY <1>1, <3>1, <3>2
    <3>5. h # <<"token", g>> /\ h # <<"buf", g>>
      <4>1. Held(<<"token", g>>) = <<>> /\ Held(<<"buf", g>>) = buf[g]
        BY <2>0 DEF Held
      <4>2. {p, p + 1} \cap Range(buf[g]) = {}
        BY <1>2, <3>1, <3>2
      <4> QED BY <1>0, <3>4, <4>1, <4>2
    <3>6. Held(h)' = Held(h)
      <4>1. \A f \in Out \ {g} : buf'[f] = buf[f] /\ token'[f] = token[f]
        BY <1>0, <2>1 DEF Got
      <4> QED BY <2>0, <3>5, <4>1 DEF Holder, Held
    <3> QED BY <1>1, <2>0, <2>5, <3>1, <3>2, <3>3, <3>4, <3>6
  \* One whose second byte is new: both are in the scanner, one after the other.
  <2>7. CASE p + 1 > taken
    <3> DEFINE m == Len(buf[g])
    <3>0. m \in Nat /\ Len(s) = m + (n - taken)
      BY <1>0, <2>1 DEF Got
    <3>1. p + 1 \in taken+1..n /\ by'[p + 1] = g /\ p \in Byte
      BY <1>0, <2>3, <2>4, <2>7, SMTT(30)
    <3>2. \E j \in 1..Len(s) - 1 : s[j] = p /\ s[j + 1] = p + 1
      <4>1. CASE p = taken
        <5>1. by[taken] = g /\ taken > 0
          <6>1. p \in 1..taken /\ by'[p] = by[p]
            BY <1>0, <2>4, <4>1
          <6> QED BY <1>0, <3>1, <4>1, <6>1
        <5>2. buf[g] = <<taken>>
          <6>1. taken # Len(Output)
            BY <1>0, <2>3
          <6> QED BY <2>0, <4>1, <5>1, <6>1 DEF BytesInv, TailInv
        <5>3. m = 1 /\ buf[g][1] = taken
          BY <5>2
        <5>4. s[1] = buf[g][1]
          <6>1. 1 \in 1..Len(buf[g])
            BY <5>3
          <6> QED BY <2>1, <6>1 DEF Got
        <5>5. s[2] = taken + (2 - m)
          <6>1. 2 \in m+1..Len(s)
            BY <1>0, <2>3, <3>0, <5>3
          <6> QED BY <2>1, <6>1 DEF Got
        <5>6. 1 \in 1..Len(s) - 1 /\ taken + (2 - m) = p + 1
          BY <1>0, <2>3, <3>0, <4>1, <5>3
        <5>7. s[1] = p /\ s[1 + 1] = p + 1
          BY <4>1, <5>3, <5>4, <5>5, <5>6
        <5> QED BY <5>6, <5>7
      <4>2. CASE p > taken
        <5> DEFINE j == m + (p - taken)
        <5>1. j \in 1..Len(s) - 1 /\ j \in m+1..Len(s) /\ j + 1 \in m+1..Len(s)
          BY <1>0, <2>3, <3>0, <3>1, <4>2, SMTT(30)
        <5>2. s[j] = taken + (j - m) /\ s[j + 1] = taken + ((j + 1) - m)
          BY <2>1, <5>1 DEF Got
        <5>3. taken + (j - m) = p /\ taken + ((j + 1) - m) = p + 1
          BY <1>0, <3>0
        <5> QED BY <5>1, <5>2, <5>3
      <4> QED BY <1>0, <2>7, <4>1, <4>2
    <3>3. PICK j \in 1..Len(s) - 1 : s[j] = p /\ s[j + 1] = p + 1
      BY <3>2
    <3>4. j \in Nat /\ j \in DOMAIN s /\ j + 1 \in DOMAIN s /\ j < Len(s) /\ j + 1 > 1
      BY <2>3, <3>3
    <3>5. Whole(s, j) /\ Whole(s, j + 1)
      <4>1. Whole(s, j)
        BY <3>3, <3>4 DEF Whole
      <4>2. (j + 1) - 1 = j
        BY <3>4
      <4>3. Whole(s, j + 1)
        BY <3>3, <3>4, <4>2 DEF Whole
      <4> QED BY <4>1, <4>3
    <3>6. p \notin Invalid(s) /\ p + 1 \notin Invalid(s)
      <4>1. ASSUME NEW k \in DOMAIN s, NEW i \in DOMAIN s, s[k] = s[i] PROVE k = i
        <5>0. s[k] \in Byte /\ s[i] \in Byte
          BY <2>3
        <5>1. s[k] \in Nat /\ s[i] \in Nat /\ k \in Nat /\ i \in Nat
          <6>1. Byte \subseteq Nat /\ DOMAIN s \subseteq Nat
            BY <1>0, <2>3, SMTT(30)
          <6> QED BY <5>0, <6>1
        <5>2. ~(k < i) /\ ~(i < k)
          BY <2>2, <4>1, <5>1 DEF Increasing
        <5> QED BY <5>1, <5>2
      <4> QED BY <3>3, <3>4, <3>5, <4>1 DEF Invalid
    <3>7. p \notin replaced /\ p + 1 \notin replaced
      <4>1. replaced \subseteq 1..taken /\ Range(buf[g]) \cap replaced = {}
        BY DEF BytesInv, ReplacedInv
      <4>2. p + 1 \notin 1..taken
        BY <1>0, <2>7
      <4>3. p \in Range(s)
        BY <3>3, <3>4 DEF Range
      <4>4. p \in Range(buf[g]) \/ p \notin 1..taken
        BY <1>0, <2>2, <2>3, <4>3
      <4> QED BY <4>1, <4>2, <4>4
    <3>8. {p, p + 1} \subseteq Range(Scanned(s).token)
      <4>1. CASE Output[n] = "lead"
        <5>1. Scanned(s).token = [i \in 1..Len(s) - 1 |-> s[i]]
          BY <2>1, <2>3, <4>1, ScannedRest
        <5>2. j + 1 # Len(s)
          BY <2>3, <3>3, <4>1
        <5>3. j \in 1..Len(s) - 1 /\ j + 1 \in 1..Len(s) - 1
          <6> PICK l : l = Len(s)
            OBVIOUS
          <6>1. l \in Nat /\ j + 1 \in 1..l /\ j + 1 # l
            BY <2>3, <3>4, <5>2
          <6>2. j \in 1..l - 1 /\ j + 1 \in 1..l - 1
            BY <3>4, <6>1
          <6> QED BY <6>2
        <5> QED BY <3>3, <5>1, <5>3 DEF Range
      <4>2. CASE Output[n] # "lead"
        <5>1. Scanned(s).token = s
          BY <2>1, <2>3, <4>2, ScannedRest
        <5> QED BY <3>3, <3>4, <5>1 DEF Range
      <4> QED BY <4>1, <4>2
    <3>9. <<"token", g>> \in Holder' /\ Held(<<"token", g>>)' = Scanned(s).token
      BY <1>0, <2>1 DEF Got, Holder, Held
    <3> QED BY <2>5, <3>6, <3>7, <3>8, <3>9
  <2> QED BY <1>0, <2>6, <2>7<1>7. ASSUME NEW g \in Out, ReadEnds(g)
      PROVE  /\ {p, p + 1} \cap replaced' = {}
             /\ \E h \in Holder' : {p, p + 1} \subseteq Range(Held(h)')
  <2>0. Holder' = Holder /\ UNCHANGED <<taken, by, sent>>
    BY <1>7 DEF ReadEnds, Holder
  <2>1. CASE UNCHANGED <<buf, token, replaced>>
    BY <1>4, <2>0, <2>1
  <2>2. CASE /\ token' = [token EXCEPT ![g] = buf[g]] /\ buf' = [buf EXCEPT ![g] = <<>>]
             /\ replaced' = replaced \cup Invalid(buf[g])
             /\ pc[g] = "read"
    <3>1. p \in 1..taken - 1 /\ by[p] = by[p + 1]
      BY <2>0
    <3>2. {p, p + 1} \cap Range(buf[g]) = {} /\ Invalid(buf[g]) \subseteq Range(buf[g])
      BY <1>2, <3>1 DEF Invalid, Range
    <3>3. PICK h \in Holder : {p, p + 1} \subseteq Range(Held(h))
      BY <1>1, <3>1
    <3>4. Held(<<"token", g>>) = <<>> /\ Held(<<"buf", g>>) = buf[g]
      BY <2>2 DEF Held, TokenInv
    <3>5. h # <<"token", g>> /\ h # <<"buf", g>>
      BY <1>0, <3>2, <3>3, <3>4
    <3>6. Held(h)' = Held(h)
      BY <1>0, <2>0, <2>2, <3>5 DEF Holder, Held
    <3> QED BY <1>1, <2>0, <2>2, <3>1, <3>2, <3>3, <3>6
  <2> QED BY <1>7, <2>1, <2>2 DEF ReadEnds, Goto, Returns
<1>8. ASSUME NEW g \in Out, Write(g)
      PROVE  /\ {p, p + 1} \cap replaced' = {}
             /\ \E h \in Holder' : {p, p + 1} \subseteq Range(Held(h)')
  <2> PICK m : m = Len(sent) + 1
    OBVIOUS
  <2> DEFINE new == <<"sent", m>>
             t == <<"token", g>>
  <2>0. UNCHANGED <<taken, by, replaced, buf>>
    BY <1>8 DEF Write
  <2>1. CASE UNCHANGED <<sent, token>>
    BY <1>4, <2>0, <2>1
  <2>2. CASE sent' = Append(sent, token[g]) /\ token' = [token EXCEPT ![g] = <<>>]
    <3>1. /\ DOMAIN sent' = DOMAIN sent \cup {m} /\ sent'[m] = token[g]
          /\ \A i \in DOMAIN sent : sent'[i] = sent[i]
      BY <1>0, <2>2, SMTT(30)
    <3>2. new \in Holder' /\ Held(new)' = token[g] /\ Held(t) = token[g]
      BY <3>1 DEF Holder, Held
    <3>3. \A h \in Holder \ {t} : h \in Holder' /\ Held(h)' = Held(h)
      BY <1>0, <2>0, <2>2, <3>1, SMTT(30) DEF Holder, Held
    <3> QED BY <1>3, <2>0, <3>2, <3>3
  <2> QED BY <1>8, <2>1, <2>2 DEF Write
<1>9. CASE UNCHANGED <<streams, sent>>
  BY <1>4, <1>9 DEF streams
<1> QED BY <1>5, <1>6, <1>7, <1>8, <1>9, OtherSteps

\* The invariant holds in every reachable state.
THEOREM Invariance == Spec => []IndInv
<1>1. TypesInv /\ [Next]_vars => TypesInv'
  BY StepData, StepGroup, StepCloser, StepLink, StepCount, StepToken, StepFresh DEF TypesInv
<1>2. TypesInv /\ TypesInv' /\ Kept /\ [Next]_vars => Kept'
  BY StepKept DEF TypesInv
<1>3. TypesInv /\ Kept /\ BytesInv /\ [Next]_vars => BytesInv'
  BY StepBy, StepBuf, StepTail, StepReplaced DEF TypesInv, BytesInv
<1>4. TypesInv /\ Kept /\ BytesInv /\ Succession /\ [Next]_vars => Succession'
  BY StepSuccession DEF TypesInv, BytesInv
<1>5. TypesInv /\ Kept /\ BytesInv /\ RunesWhole /\ [Next]_vars => RunesWhole'
  BY StepWhole DEF TypesInv
<1>6. IndInv /\ [Next]_vars => IndInv'
  BY <1>1, <1>2, <1>3, <1>4, <1>5 DEF IndInv
<1> QED BY <1>6, InitInv, PTL DEF Spec

\* The types of goroutines, connections and buffers.
THEOREM TypeCorrect == Spec => []TypeOK
<1>1. IndInv => TypeOK
  <2> SUFFICES ASSUME IndInv PROVE TypeOK
    OBVIOUS
  <2>1. \A g \in Out : Range(buf[g]) \cup Range(token[g]) \subseteq Byte
    BY DEF IndInv, TypesInv, DataInv, Range
  <2>2. \A i \in DOMAIN sent : Range(sent[i]) \subseteq Byte
    BY DEF IndInv, TypesInv, DataInv, Range
  <2> QED
    BY <2>1, <2>2
       DEF TypeOK, IndInv, TypesInv, DataInv, GroupInv, LinkInv, CountInv, Byte, Place
<1> QED BY <1>1, Invariance, PTL

\* Every byte that was read is with exactly one holder; each reader passes its bytes on in
\* the command's order; and a rune that one reader got is passed on whole.
THEOREM OutputKeptHolds == Spec => []OutputKept
<1>1. IndInv => OutputKept
  <2> SUFFICES ASSUME IndInv PROVE OutputKept
    OBVIOUS
  <2>1. InOrder
    BY DEF IndInv, Kept, Ordered, Increasing, Succession, InOrder
  <2> QED BY <2>1 DEF IndInv, Kept, OutputKept
<1> QED BY <1>1, Invariance, PTL

\* A proxy that ran and returned has left no goroutine and no open connection.
THEOREM NothingRunsAfterHolds == Spec => []NothingRunsAfter
<1>1. IndInv => NothingRunsAfter
  BY DEF IndInv, TypesInv, GroupInv, CloserInv, NothingRunsAfter, Goroutine
<1> QED BY <1>1, Invariance, PTL
=============================================================================
