------------------------------- MODULE Proxy --------------------------------
(***************************************************************************)
(* The terminal proxy (pkg/docker/proxy): a websocket on one side, a       *)
(* command run by Docker with a TTY on the other.                          *)
(*                                                                         *)
(* Proxy starts four goroutines in an errgroup: one copies messages of the *)
(* client to the command, two copy the command's output to the client, and *)
(* one closes both connections once the group's context is cancelled,      *)
(* which the first goroutine that returns does.  The two output goroutines *)
(* read from hj.Conn and from hj.Reader, which is a buffer over the same   *)
(* connection: each read takes what has arrived, whoever makes it.         *)
(*                                                                         *)
(* The command writes the bytes of Output: a byte is a rune by itself      *)
(* ("ascii"), or the first or second of two ("lead", "cont").  It may run  *)
(* on after its output, and it may be killed.  Either end may stop reading *)
(* (deaf): once the buffers between are full, a write to it blocks.        *)
(***************************************************************************)
EXTENDS Naturals, Sequences, SequencesExt

CONSTANTS Output,     \* the bytes the command writes
          Messages,   \* how many messages the client sends
          Retries     \* how often a resize is tried

ASSUME OutputAssumption ==
  Output \in Seq({"ascii", "lead", "cont"})
ASSUME CountAssumption == Messages \in Nat /\ Retries \in Nat \ {0}

Out == {"stdout", "stderr"}
Goroutine == Out \cup {"stdin", "closer"}

VARIABLES
  pc,            \* where the goroutines are
  proxy,         \* where Proxy is: create, attach, running, returned (or panicked)
  cancelled,     \* the group's context
  conn, hj,      \* the two connections are open
  command,       \* the command: running or over
  deaf,          \* ends that have stopped reading
  taken, by,     \* how many bytes of Output have been read, and by whom
  replaced,      \* bytes that reach the client as U+FFFD
  buf, token,    \* a scanner's bytes, and those of the message being written
  sent,          \* the messages written to the client; WIPE is a wipe
  inbox, tries   \* messages the client may still send, tries of a resize

streams == <<taken, by, replaced, buf, token>>
links   == <<conn, hj, command, deaf>>
vars    == <<pc, proxy, cancelled, links, streams, sent, inbox, tries>>

WIPE == <<>>     \* a message without bytes

TypeOK ==
  /\ pc \in [Goroutine -> {"none", "wipe", "read", "write", "feed", "resize", "wait", "over"}]
  /\ proxy \in {"create", "attach", "running", "returned", "panicked"}
  /\ cancelled \in BOOLEAN /\ conn \in BOOLEAN /\ hj \in BOOLEAN
  /\ command \in {"none", "running", "over"} /\ deaf \subseteq {"client", "command"}
  /\ by \in [DOMAIN Output -> Out \cup {"nobody"}] /\ replaced \subseteq DOMAIN Output
  /\ taken \in 0..Len(Output) /\ inbox \in 0..Messages /\ tries \in 0..Retries
  /\ \A g \in Out : Range(buf[g]) \cup Range(token[g]) \subseteq DOMAIN Output
  /\ \A i \in DOMAIN sent : Range(sent[i]) \subseteq DOMAIN Output

Init ==
  /\ pc = [g \in Goroutine |-> "none"]
  /\ proxy = "create" /\ cancelled = FALSE
  /\ conn = TRUE /\ hj = FALSE /\ command = "none" /\ deaf = {}
  /\ taken = 0 /\ by = [i \in DOMAIN Output |-> "nobody"] /\ replaced = {}
  /\ buf = [g \in Out |-> <<>>] /\ token = [g \in Out |-> <<>>]
  /\ sent = <<>> /\ inbox = Messages /\ tries = 0
-----------------------------------------------------------------------------
\* ContainerExecCreate, then ContainerExecAttach.  If one fails Proxy returns and
\* leaves the websocket open.
Create ==
  /\ proxy = "create"
  /\ proxy' \in {"attach", "returned"}
  /\ UNCHANGED <<pc, cancelled, links, streams, sent, inbox, tries>>

Attach ==
  /\ proxy = "attach"
  /\ \/ /\ proxy' = "running" /\ hj' = TRUE /\ command' = "running"
        /\ pc' = [g \in Goroutine |->
                    CASE g \in Out -> "wipe" [] g = "stdin" -> "read" [] OTHER -> "wait"]
     \/ proxy' = "returned" /\ UNCHANGED <<hj, command, pc>>
  /\ UNCHANGED <<cancelled, conn, deaf, streams, sent, inbox, tries>>
-----------------------------------------------------------------------------
Goto(g, from, to) == proxy = "running" /\ pc[g] = from /\ pc' = [pc EXCEPT ![g] = to]

Returns_Nil(g, from) ==       \* mutant: the goroutine returns nil, the context stays
  Goto(g, from, "over") /\ UNCHANGED cancelled

\* Every goroutine returns an error, io.EOF at least, and that cancels the context.
Returns(g, from) == Goto(g, from, "over") /\ cancelled' = TRUE

\* WriteJSON: blocks, with the connection's mutex, while the client does not read.
Accepts == conn /\ "client" \notin deaf

\* proxyOutputFunc: a wipe, before anything this goroutine reads.
Wipe(g) ==
  /\ g \in Out
  /\ \/ Accepts /\ Goto(g, "wipe", "read") /\ sent' = Append(sent, WIPE) /\ UNCHANGED cancelled
     \/ ~conn /\ Returns(g, "wipe") /\ UNCHANGED sent
  /\ UNCHANGED <<proxy, links, streams, inbox, tries>>

\* What ScanRunesGreedy takes from the bytes s (given by their places in Output): all
\* of them, but not an incomplete rune at the end, which waits for the next read.
Waiting(s) == s # <<>> /\ Output[Last(s)] = "lead"
Scanned_Dropping(s) ==        \* mutant: does not keep what it does not take
  [token |-> IF Waiting(s) THEN Front(s) ELSE s, rest |-> <<>>]
Scanned(s) ==
  IF Waiting(s) THEN [token |-> Front(s), rest |-> <<Last(s)>>] ELSE [token |-> s, rest |-> <<>>]

\* A byte that is not part of a whole rune where the scanner meets it is replaced; what
\* follows the first byte of a rune is taken for its second if it can be one.
Whole(s, k) ==
  \/ Output[s[k]] = "ascii"
  \/ Output[s[k]] = "lead" /\ k < Len(s) /\ Output[s[k + 1]] = "cont"
  \/ Output[s[k]] = "cont" /\ k > 1 /\ Output[s[k - 1]] = "lead"
Invalid(s) == {s[k] : k \in {j \in DOMAIN s : ~Whole(s, j)}}

\* A read returns some of the bytes that have arrived, and a token if there is one.
Read(g) ==
  /\ g \in Out /\ hj
  /\ \E n \in taken+1..Len(Output) :
       LET bytes == buf[g] \o [i \in 1..n - taken |-> taken + i]
           scan  == Scanned(bytes)
       IN /\ taken' = n
          /\ by' = [i \in DOMAIN Output |-> IF i \in taken+1..n THEN g ELSE by[i]]
          /\ replaced' = replaced \cup (Invalid(bytes) \ Range(scan.rest))
          /\ buf' = [buf EXCEPT ![g] = scan.rest]
          /\ token' = [token EXCEPT ![g] = scan.token]
          /\ Goto(g, "read", IF scan.token = <<>> THEN "read" ELSE "write")
  /\ UNCHANGED <<proxy, cancelled, links, sent, inbox, tries>>

\* The read fails, or is at the end: what is left, half a rune, is replaced and written,
\* then io.EOF returned.
ReadEnds(g) ==
  /\ g \in Out
  /\ ~hj \/ (command = "over" /\ taken = Len(Output))
  /\ IF buf[g] = <<>>
     THEN Returns(g, "read") /\ UNCHANGED <<buf, token, replaced>>
     ELSE /\ Goto(g, "read", "write")
          /\ token' = [token EXCEPT ![g] = buf[g]]
          /\ buf' = [buf EXCEPT ![g] = <<>>]
          /\ replaced' = replaced \cup Invalid(buf[g])
          /\ UNCHANGED cancelled
  /\ UNCHANGED <<proxy, links, taken, by, sent, inbox, tries>>

Write(g) ==
  /\ g \in Out
  /\ \/ /\ Accepts /\ Goto(g, "write", "read")
        /\ sent' = Append(sent, token[g])
        /\ token' = [token EXCEPT ![g] = <<>>]
        /\ UNCHANGED cancelled
     \/ ~conn /\ Returns(g, "write") /\ UNCHANGED <<sent, token>>
  /\ UNCHANGED <<proxy, links, taken, by, replaced, buf, inbox, tries>>
-----------------------------------------------------------------------------
\* proxyInputFunc: a message is to be written to the command, asks for a resize, makes no
\* sense and is ignored, or is no JSON and ends the goroutine.
Message ==
  /\ conn /\ inbox > 0 /\ inbox' = inbox - 1
  /\ \/ \E to \in {"feed", "resize", "read"} : Goto("stdin", "read", to) /\ UNCHANGED cancelled
     \/ Returns("stdin", "read")
  /\ tries' = 0
  /\ UNCHANGED <<proxy, links, streams, sent>>

\* A message of another shape makes it panic, which ends the process.
Panic ==
  /\ conn /\ inbox > 0 /\ inbox' = inbox - 1
  /\ proxy = "running" /\ pc["stdin"] = "read"
  /\ proxy' = "panicked"
  /\ UNCHANGED <<pc, cancelled, links, streams, sent, tries>>

\* The write to the command blocks while the command does not read.
Feed ==
  /\ \/ hj /\ "command" \notin deaf /\ Goto("stdin", "feed", "read") /\ UNCHANGED cancelled
     \/ (~hj \/ command = "over") /\ Returns("stdin", "feed")
  /\ UNCHANGED <<proxy, links, streams, sent, inbox, tries>>

NoMoreInput ==
  /\ ~conn /\ Returns("stdin", "read")
  /\ UNCHANGED <<proxy, links, streams, sent, inbox, tries>>

TryResize ==
  /\ \/ Goto("stdin", "resize", "read") /\ tries' = 0             \* done
     \/ /\ tries < Retries
        /\ tries' = tries + 1
        /\ Goto("stdin", "resize", IF tries' = Retries THEN "read" ELSE "resize")
  /\ UNCHANGED <<proxy, cancelled, links, streams, sent, inbox>>

CloseAll_Docker ==            \* mutant: closes the command's side only
  /\ cancelled
  /\ Goto("closer", "wait", "over")
  /\ hj' = FALSE
  /\ UNCHANGED <<proxy, cancelled, conn, command, deaf, streams, sent, inbox, tries>>

\* The fourth goroutine.
CloseAll ==
  /\ cancelled
  /\ Goto("closer", "wait", "over")
  /\ hj' = FALSE /\ conn' = FALSE
  /\ UNCHANGED <<proxy, cancelled, command, deaf, streams, sent, inbox, tries>>

ProxyReturns_First ==         \* mutant: waits for one goroutine, not for all
  /\ proxy = "running" /\ cancelled
  /\ proxy' = "returned" /\ hj' = FALSE
  /\ UNCHANGED <<pc, cancelled, conn, command, deaf, streams, sent, inbox, tries>>

ProxyReturns ==
  /\ proxy = "running" /\ \A g \in Goroutine : pc[g] = "over"
  /\ proxy' = "returned" /\ hj' = FALSE
  /\ UNCHANGED <<pc, cancelled, conn, command, deaf, streams, sent, inbox, tries>>
-----------------------------------------------------------------------------
\* The user leaves, or the session's onExpire closes the websocket.
Disconnect ==
  /\ proxy = "running" /\ conn
  /\ conn' = FALSE
  /\ UNCHANGED <<pc, proxy, cancelled, hj, command, deaf, streams, sent, inbox, tries>>

\* The command exits by itself, is killed, or hangs up with its terminal.
CommandEnds ==
  /\ proxy # "panicked" /\ command = "running"
  /\ command' = "over"
  /\ UNCHANGED <<pc, proxy, cancelled, conn, hj, deaf, streams, sent, inbox, tries>>

\* One of them reads no more, and the buffers on the way to it fill up.
StopsReading(e) ==
  /\ proxy = "running" /\ e \notin deaf
  /\ deaf' = deaf \cup {e}
  /\ UNCHANGED <<pc, proxy, cancelled, conn, hj, command, streams, sent, inbox, tries>>
-----------------------------------------------------------------------------
OutStep(g) == Wipe(g) \/ Read(g) \/ ReadEnds(g) \/ Write(g)

Next ==
  \/ Create \/ Attach \/ Message \/ Panic \/ Feed \/ NoMoreInput \/ TryResize \/ CloseAll
  \/ ProxyReturns \/ Disconnect \/ CommandEnds
  \/ \E e \in {"client", "command"} : StopsReading(e)
  \/ \E g \in Out : OutStep(g)

Spec == Init /\ [][Next]_vars

\* Goroutines run, calls to Docker return, and a write ends unless the end it goes to has
\* stopped reading.  The client need not send and need not leave; the command need not end.
Fairness ==
  /\ WF_vars(Create) /\ WF_vars(Attach) /\ WF_vars(ProxyReturns)
  /\ WF_vars(Feed) /\ WF_vars(NoMoreInput) /\ WF_vars(TryResize) /\ WF_vars(CloseAll)
  /\ \A g \in Out : WF_vars(OutStep(g))

FairSpec == Spec /\ Fairness
-----------------------------------------------------------------------------
\* Where bytes are: a scanner, a message being written, a message sent.
Holder == ({"buf", "token"} \X Out) \cup ({"sent"} \X DOMAIN sent)
Held(h) ==
  CASE h[1] = "buf" -> buf[h[2]] [] h[1] = "token" -> token[h[2]] [] OTHER -> sent[h[2]]

\* What h has goes to the client before what k has.
Before(h, k) ==
  \/ h[1] = "sent" /\ k[1] = "sent" /\ h[2] < k[2]
  \/ h[1] = "sent" /\ k[1] \in {"token", "buf"}
  \/ h[1] = "token" /\ k[1] = "buf" /\ h[2] = k[2]

\* Every byte that was read is in one place, however the two readers share them.
EachOnce ==
  /\ UNION {Range(Held(h)) : h \in Holder} = 1..taken
  /\ \A h, k \in Holder : h # k => Range(Held(h)) \cap Range(Held(k)) = {}

\* Each reader passes on what it has read in the order in which the command wrote it, in
\* a message and from one to the next.  (Between the readers there is no order.)
InOrder ==
  /\ \A h \in Holder : \A i, j \in DOMAIN Held(h) : i < j => Held(h)[i] < Held(h)[j]
  /\ \A h, k \in Holder : Before(h, k) =>
       \A p \in Range(Held(h)), q \in Range(Held(k)) : by[p] = by[q] => p < q

\* A rune is torn, its bytes replaced or parted, only when one reader got its first byte
\* and the other its second.
RunesWhole ==
  \A p \in 1..taken - 1 :
    Output[p] = "lead" /\ Output[p + 1] = "cont" /\ by[p] = by[p + 1] =>
      /\ {p, p + 1} \cap replaced = {}
      /\ \E h \in Holder : {p, p + 1} \subseteq Range(Held(h))

\* What the client gets of the output.
OutputKept == EachOnce /\ InOrder /\ RunesWhole

\* When a proxy that ran returns, its goroutines are over and both connections closed:
\* the next session has the container for itself.
NothingRunsAfter ==
  proxy = "returned" /\ pc["closer"] # "none" =>
    ~conn /\ ~hj /\ \A g \in Goroutine : pc[g] = "over"

\* Nobody notices that one end has gone, because the other does not read: the goroutine
\* that would see the client leave is in a write to the command, or both that would see the
\* output's end are in a write to the client.  (No proxy returns then; the first lasts until
\* the command reads, writes or ends, the second until the client is found idle.)
Unnoticed ==
  \/ /\ ~conn /\ command = "running" /\ "command" \in deaf
     /\ pc["stdin"] = "feed" /\ \A g \in Out : pc[g] = "read"
  \/ /\ conn /\ command = "over" /\ "client" \in deaf
     /\ pc["stdin"] = "read" /\ \A g \in Out : pc[g] \in {"wipe", "write"}

\* When either end goes, Proxy returns, or one of those two situations lasts: a command
\* that ends frees the goroutine that waits for a silent client, and a client that leaves
\* frees those that wait for a silent command.
EitherEndReturns ==
  proxy = "running" /\ (~conn \/ command = "over") ~> proxy # "running" \/ []Unnoticed
=============================================================================
