------------------------- MODULE RedisClientProofs -------------------------
(***************************************************************************)
(* Proofs about RedisClient, for any number of calls in progress.          *)
(***************************************************************************)
EXTENDS RedisClient, SequenceTheorems, TLAPS

(***************************************************************************)
(* The inductive invariant: the commands that the client has, and who      *)
(* waits for which of them.                                                *)
(***************************************************************************)

Senders == Calls \cup {Boot}
Awaited == {"get", "ping", "stats", "quit"}

\* What each sender waits for, if it is a command.
Waiting == [b \in Senders |-> IF b = Boot THEN proc ELSE calls[b]]

\* With w what the senders wait for: each has its command among q, once, and
\* nothing else but SETs of the calls.
QueueOK(q, w) ==
    /\ q \in Seq(Command)
    /\ \A b \in Senders : w[b] \in Awaited =>
           \E i \in 1..Len(q) : q[i].by = b /\ q[i].name = w[b]
    /\ \A i \in 1..Len(q) :
           \/ q[i].name = "set" /\ q[i].by # Boot
           \/ q[i].name # "set" /\ q[i].name = w[q[i].by]
    /\ \A i, j \in 1..Len(q) :
           q[i].by = q[j].by /\ q[i].name = q[j].name /\ i # j => q[i].name = "set"

\* A client that has not been asked to connect, or has ended, has nothing and makes
\* nobody wait; what a connected one has, it has sent.  It is stranded only in a
\* process that Redis has not answered, or that is over; a process that Redis has not
\* answered is still booting, or has no connection and never will.
LinkOK ==
    /\ link = "wait" <=> proc = "connect"
    /\ link \in {"wait", "end"} => sent = <<>> /\ offline = <<>> /\ calls = NobodyWaits
    /\ link = "ready" => offline = <<>>
    /\ proc = "stopped" => link \in {"end", "stranded"}
    /\ proc \in {"connect", "ping"} => ~met
    /\ link \in {"end", "stranded"} => ~met \/ proc = "stopped"
    /\ ~met => \/ calls = NobodyWaits /\ proc \in {"connect", "ping"}
               \/ link \in {"end", "stranded"}

RedisInv == RedisTypeOK /\ LinkOK /\ QueueOK(AllCommands, Waiting)

-----------------------------------------------------------------------------
(* The queue, whatever the senders w wait for.                             *)

\* What a command is made of.
LEMMA CmdType ==
  /\ \A b \in Senders : \A n \in {"get", "set", "ping", "stats", "quit"} :
         /\ Cmd(b, n) \in Command /\ Cmd(b, n).by = b /\ Cmd(b, n).name = n
  /\ \A cmd \in Command : cmd.by \in Senders /\ (cmd.name = "set" \/ cmd.name \in Awaited)
  /\ "set" \notin Awaited
  BY DEF Cmd, Command, Senders, Awaited

\* What is asked last comes last, whatever has been sent already.
LEMMA ConcatAppend ==
  ASSUME NEW s \in Seq(Command), NEW o \in Seq(Command), NEW cmd \in Command
  PROVE  Append(o, cmd) \in Seq(Command) /\ s \o Append(o, cmd) = Append(s \o o, cmd)
<1>1. <<cmd>> \in Seq(Command) /\ s \o o \in Seq(Command)
  BY ConcatProperties
<1>2. Append(o, cmd) = o \o <<cmd>> /\ Append(s \o o, cmd) = (s \o o) \o <<cmd>>
  BY <1>1, AppendIsConcat
<1>3. QED BY <1>1, <1>2, ConcatAssociative, AppendProperties

\* With nothing asked, nobody waits.
LEMMA QueueEmpty ==
  ASSUME NEW w, \A b \in Senders : w[b] \notin Awaited
  PROVE  QueueOK(<< >>, w)
<1>1. << >> \in Seq(Command) /\ Len(<< >>) = 0
  BY EmptySeq
<1>2. QED BY <1>1 DEF QueueOK

\* Whoever waits for no command may do as he likes.
LEMMA QueueStays ==
  ASSUME NEW q, NEW w, NEW v, QueueOK(q, w),
         \A b \in Senders : w[b] \in Awaited \/ v[b] \in Awaited => v[b] = w[b]
  PROVE  QueueOK(q, v)
<1>1. \A i \in 1..Len(q) : q[i] \in Command
  BY ElementOfSeq DEF QueueOK
<1>2. QED BY <1>1, CmdType DEF QueueOK

\* Whoever waits for nothing may ask for a command, and waits for it.
LEMMA QueueAsked ==
  ASSUME NEW q, NEW w, NEW v, QueueOK(q, w), NEW b \in Senders, NEW n \in Awaited,
         w[b] \notin Awaited, v[b] = n, \A d \in Senders \ {b} : v[d] = w[d]
  PROVE  QueueOK(Append(q, Cmd(b, n)), v)
<1> DEFINE cmd == Cmd(b, n)
<1>1. cmd \in Command /\ cmd.by = b /\ cmd.name = n /\ n # "set"
  BY CmdType DEF Awaited
<1> HIDE DEF cmd
<1>2. \A i \in 1..Len(q) : q[i] \in Command
  BY ElementOfSeq DEF QueueOK
<1>3. /\ Append(q, cmd) \in Seq(Command) /\ Len(Append(q, cmd)) = Len(q) + 1 /\ Len(q) \in Nat
      /\ \A i \in 1..Len(q) : Append(q, cmd)[i] = q[i]
      /\ Append(q, cmd)[Len(q) + 1] = cmd
  BY <1>1, AppendProperties, LenProperties DEF QueueOK
<1> DEFINE p == Append(q, cmd)
           N == Len(q)
<1> HIDE DEF p, N
<1>4. N \in Nat /\ Len(p) = N + 1 /\ (\A i \in 1..N : p[i] = q[i]) /\ p[N + 1] = cmd
  BY <1>3 DEF p, N
<1>5. \A i \in 1..N : q[i].by = b => q[i].name = "set"
  BY <1>2, CmdType DEF QueueOK, N
<1>6. ASSUME NEW d \in Senders, v[d] \in Awaited
      PROVE  \E i \in 1..Len(p) : p[i].by = d /\ p[i].name = v[d]
  <2>1. CASE d = b
    BY <1>1, <1>4, <2>1
  <2>2. CASE d # b
    <3>1. PICK i \in 1..N : q[i].by = d /\ q[i].name = v[d]
      BY <1>6, <2>2 DEF QueueOK, N
    <3>2. QED BY <1>4, <3>1
  <2>3. QED BY <2>1, <2>2
<1>7. ASSUME NEW i \in 1..Len(p)
      PROVE  \/ p[i].name = "set" /\ p[i].by # Boot
             \/ p[i].name # "set" /\ p[i].name = v[p[i].by]
  <2>1. CASE i = N + 1
    BY <1>1, <1>4, <2>1
  <2>2. CASE i \in 1..N
    <3>1. q[i].by \in Senders
      BY <1>2, <2>2, CmdType DEF N
    <3>2. QED BY <1>4, <1>5, <2>2, <3>1 DEF QueueOK, N
  <2>3. QED BY <1>4, <2>1, <2>2
<1>8. ASSUME NEW i \in 1..Len(p), NEW j \in 1..Len(p), p[i].by = p[j].by, p[i].name = p[j].name, i # j
      PROVE  p[i].name = "set"
  <2>1. CASE i \in 1..N /\ j \in 1..N
    BY <1>4, <1>8, <2>1 DEF QueueOK, N
  <2>2. CASE i = N + 1 /\ j \in 1..N
    BY <1>1, <1>4, <1>5, <1>8, <2>2
  <2>3. CASE j = N + 1 /\ i \in 1..N
    BY <1>1, <1>4, <1>5, <1>8, <2>3
  <2>4. QED BY <1>4, <1>8, <2>1, <2>2, <2>3
<1>9. QED BY <1>3, <1>6, <1>7, <1>8 DEF QueueOK, p, cmd

\* A SET may always be asked; nobody waits for it.
LEMMA QueueSets ==
  ASSUME NEW q, NEW w, QueueOK(q, w), NEW c \in Calls, c # Boot
  PROVE  QueueOK(Append(q, Cmd(c, "set")), w)
<1> DEFINE cmd == Cmd(c, "set")
           p == Append(q, cmd)
           N == Len(q)
<1>1. cmd \in Command /\ cmd.by = c /\ cmd.name = "set"
  BY CmdType DEF Senders
<1> HIDE DEF cmd
<1>2. /\ p \in Seq(Command) /\ Len(p) = N + 1 /\ N \in Nat
      /\ \A i \in 1..N : p[i] = q[i]
      /\ p[N + 1] = cmd
  BY <1>1, AppendProperties, LenProperties DEF QueueOK
<1> HIDE DEF p
<1>3. ASSUME NEW i \in 1..Len(p) PROVE i = N + 1 \/ i \in 1..N
  BY <1>2
<1>4. ASSUME NEW i \in 1..Len(p)
      PROVE  \/ p[i].name = "set" /\ p[i].by # Boot
             \/ p[i].name # "set" /\ p[i].name = w[p[i].by]
  BY <1>1, <1>2, <1>3 DEF QueueOK
<1>5. ASSUME NEW i \in 1..Len(p), NEW j \in 1..Len(p), p[i].by = p[j].by, p[i].name = p[j].name, i # j
      PROVE  p[i].name = "set"
  <2>1. CASE i \in 1..N /\ j \in 1..N
    BY <1>2, <1>5, <2>1 DEF QueueOK
  <2>2. CASE i = N + 1 \/ j = N + 1
    BY <1>1, <1>2, <1>5, <2>2
  <2>3. QED BY <1>3, <2>1, <2>2
<1>6. ASSUME NEW d \in Senders, w[d] \in Awaited
      PROVE  \E i \in 1..Len(p) : p[i].by = d /\ p[i].name = w[d]
  <2>1. PICK i \in 1..N : q[i].by = d /\ q[i].name = w[d]
    BY <1>6 DEF QueueOK
  <2>2. QED BY <1>2, <2>1
<1>7. QED BY <1>2, <1>4, <1>5, <1>6 DEF QueueOK, p, cmd

\* An answer to a command takes it from the queue and makes nobody else wait less;
\* that of a SET makes nobody.
LEMMA QueueAnswered ==
  ASSUME NEW q, NEW w, NEW v, QueueOK(q, w), q # << >>,
         \A d \in Senders : Head(q).name = "set" \/ d # Head(q).by => v[d] = w[d],
         Head(q).name # "set" => v[Head(q).by] \notin Awaited
  PROVE  QueueOK(Tail(q), v)
<1> DEFINE h == Head(q)
           p == Tail(q)
           N == Len(q)
<1>1. /\ p \in Seq(Command) /\ N \in Nat \ {0} /\ Len(p) = N - 1 /\ h \in Command
      /\ \A i \in 1..Len(p) : p[i] = q[i + 1]
  BY HeadTailProperties, EmptySeq DEF QueueOK
<1>2. h = q[1]
  BY <1>1 DEF QueueOK
<1>3. \A i \in 1..N : q[i] \in Command
  BY ElementOfSeq DEF QueueOK
<1> HIDE DEF p, h
<1>4. ASSUME NEW i \in 1..Len(p)
      PROVE  /\ i + 1 \in 1..N /\ i + 1 # 1 /\ p[i] = q[i + 1]
             /\ p[i].name # "set" /\ h.name # "set" => p[i].by # h.by
  <2>1. i + 1 \in 1..N /\ i + 1 # 1 /\ 1 \in 1..N /\ p[i] = q[i + 1]
    BY <1>1
  <2>2. ASSUME p[i].name # "set", h.name # "set", p[i].by = h.by PROVE FALSE
    <3>1. p[i].name = w[p[i].by] /\ h.name = w[h.by]
      BY <1>2, <2>1, <2>2 DEF QueueOK
    <3>2. QED BY <1>2, <2>1, <2>2, <3>1 DEF QueueOK
  <2>3. QED BY <2>1, <2>2
<1>5. ASSUME NEW i \in 1..Len(p)
      PROVE  \/ p[i].name = "set" /\ p[i].by # Boot
             \/ p[i].name # "set" /\ p[i].name = v[p[i].by]
  <2>1. p[i].by \in Senders
    BY <1>3, <1>4, CmdType
  <2>2. QED BY <1>4, <2>1 DEF QueueOK, h
<1>6. ASSUME NEW i \in 1..Len(p), NEW j \in 1..Len(p), p[i].by = p[j].by, p[i].name = p[j].name, i # j
      PROVE  p[i].name = "set"
  <2>1. i + 1 \in 1..N /\ j + 1 \in 1..N /\ i + 1 # j + 1
    BY <1>4, <1>6
  <2>2. QED BY <1>4, <1>6, <2>1 DEF QueueOK
<1>7. ASSUME NEW d \in Senders, v[d] \in Awaited
      PROVE  \E i \in 1..Len(p) : p[i].by = d /\ p[i].name = v[d]
  <2>1. (h.name = "set" \/ d # h.by) /\ v[d] = w[d]
    BY <1>7 DEF h
  <2>2. PICK k \in 1..N : q[k].by = d /\ q[k].name = v[d]
    BY <1>7, <2>1 DEF QueueOK
  <2>3. k # 1
    BY <1>2, <1>7, <2>1, <2>2, CmdType
  <2>4. k - 1 \in 1..Len(p) /\ (k - 1) + 1 = k
    BY <1>1, <2>3
  <2>5. p[k - 1] = q[k]
    BY <1>4, <2>4
  <2>6. QED BY <2>2, <2>4, <2>5
<1>8. QED BY <1>1, <1>5, <1>6, <1>7 DEF QueueOK, p

-----------------------------------------------------------------------------
(* What the steps do to the queue.                                         *)

\* What the senders wait for, one by one.
LEMMA WaitingAt ==
  ASSUME RedisTypeOK
  PROVE  /\ Waiting[Boot] = proc /\ \A c \in Calls : Waiting[c] = calls[c] /\ c # Boot
         /\ Waiting'[Boot] = proc' /\ \A c \in Calls : Waiting'[c] = calls'[c]
         /\ Calls \subseteq Senders /\ Boot \in Senders /\ Senders \ {Boot} \subseteq Calls
  BY RedisAssumption DEF Waiting, Senders

\* What a connected client has, it has sent.
LEMMA Connected ==
  ASSUME RedisInv, link = "ready"
  PROVE  /\ AllCommands = sent /\ QueueOK(sent, Waiting) /\ sent \in Seq(Command)
         /\ offline' = << >> /\ sent' \in Seq(Command) => AllCommands' = sent'
<1>1. sent \in Seq(Command) /\ offline = << >> /\ QueueOK(AllCommands, Waiting)
  BY DEF RedisInv, RedisTypeOK, LinkOK
<1>2. AllCommands = sent
  BY <1>1, ConcatEmptySeq DEF AllCommands
<1>3. ASSUME offline' = << >>, sent' \in Seq(Command) PROVE AllCommands' = sent'
  BY <1>3, ConcatEmptySeq DEF AllCommands
<1>4. QED BY <1>1, <1>2, <1>3

\* A client that ends drops all, and nobody waits: the invariant holds.
LEMMA Disconnected ==
  ASSUME RedisInv, Disconnect, proc' \in {"serving", "stopped"}, met' \in BOOLEAN, up' \in BOOLEAN,
         proc' = "stopped" \/ ~met'
  PROVE  RedisInv'
<1>1. /\ link' = "end" /\ sent' = << >> /\ offline' = << >> /\ calls' = NobodyWaits
  BY DEF Disconnect
<1>2. << >> \in Seq(Command) /\ << >> \o << >> = << >>
  BY EmptySeq, ConcatEmptySeq
<1>3. RedisTypeOK'
  BY <1>1, <1>2 DEF RedisTypeOK, NobodyWaits
<1>4. LinkOK'
  BY <1>1 DEF LinkOK
<1>5. \A b \in Senders : Waiting'[b] \notin Awaited
  BY <1>1 DEF Waiting, Senders, NobodyWaits, Awaited
<1>6. QueueOK(AllCommands', Waiting')
  BY <1>1, <1>2, <1>5, QueueEmpty DEF AllCommands
<1>7. QED BY <1>3, <1>4, <1>6 DEF RedisInv

\* The end of an answer, or of a request, on a connected client that stays so.
LEMMA Proceeds ==
  ASSUME RedisInv, link = "ready", UNCHANGED <<link, offline>>, QueueOK(sent', Waiting'),
         calls' \in [Calls -> {"idle", "get", "ping", "stats"}],
         proc' \in {"ping", "serving", "quit"}, met' \in BOOLEAN, up' \in BOOLEAN,
         ~met' => calls' = NobodyWaits /\ proc' = "ping", proc' = "ping" => ~met'
  PROVE  RedisInv'
<1>1. sent' \in Seq(Command) /\ offline = << >>
  BY DEF QueueOK, RedisInv, LinkOK
<1>2. RedisTypeOK'
  BY <1>1 DEF RedisInv, RedisTypeOK
<1>3. LinkOK'
  BY <1>1 DEF LinkOK
<1>4. AllCommands' = sent'
  BY <1>1, Connected
<1>5. QED BY <1>2, <1>3, <1>4 DEF RedisInv

\* Booting: the client that connects sends its ping; one that cannot ends.
LEMMA BootConnectKeeps ==
  ASSUME RedisInv, BootConnect
  PROVE  RedisInv'
<1>1. RedisTypeOK /\ LinkOK /\ QueueOK(AllCommands, Waiting) /\ proc = "connect"
  BY DEF RedisInv, BootConnect
<1>2. link = "wait" /\ sent = << >> /\ offline = << >> /\ calls = NobodyWaits
  BY <1>1 DEF LinkOK
<1>3. CASE up
  <2>1. /\ proc' = "ping" /\ link' = "ready" /\ sent' = <<Cmd(Boot, "ping")>>
        /\ UNCHANGED <<offline, calls, up, met>>
    BY <1>3 DEF BootConnect
  <2>2. Boot \in Senders /\ "ping" \in Awaited /\ Cmd(Boot, "ping") \in Command
    BY CmdType DEF Senders, Awaited
  <2>3. \A b \in Senders : Waiting[b] \notin Awaited
    BY <1>1, <1>2 DEF Waiting, Senders, NobodyWaits, Awaited
  <2>4. QueueOK(<< >>, Waiting)
    BY <2>3, QueueEmpty
  <2>5. /\ Waiting'[Boot] = "ping" /\ \A d \in Senders \ {Boot} : Waiting'[d] = Waiting[d]
    BY <1>1, <2>1, WaitingAt
  <2>6. QueueOK(Append(<< >>, Cmd(Boot, "ping")), Waiting')
    BY <2>2, <2>3, <2>4, <2>5, QueueAsked
  <2>7. Append(<< >>, Cmd(Boot, "ping")) = sent'
    BY <2>1
  <2>8. sent' \in Seq(Command) /\ offline' = << >>
    BY <1>2, <2>1, <2>6, <2>7 DEF QueueOK
  <2>9. AllCommands' = sent'
    BY <2>8, ConcatEmptySeq DEF AllCommands
  <2>10. RedisTypeOK'
    BY <1>1, <2>1, <2>8 DEF RedisTypeOK
  <2>11. LinkOK'
    BY <1>1, <1>2, <2>1 DEF LinkOK
  <2>12. QED BY <2>6, <2>7, <2>9, <2>10, <2>11 DEF RedisInv
<1>4. CASE ~up
  <2>1. proc' = "serving" /\ link' = "stranded" /\ UNCHANGED <<sent, offline, calls, up, met>>
    BY <1>4 DEF BootConnect
  <2>2. AllCommands' = AllCommands
    BY <2>1 DEF AllCommands
  <2>3. \A b \in Senders : Waiting[b] \in Awaited \/ Waiting'[b] \in Awaited => Waiting'[b] = Waiting[b]
    BY <1>1, <2>1, WaitingAt DEF Awaited
  <2>4. QueueOK(AllCommands', Waiting')
    BY <1>1, <2>2, <2>3, QueueStays
  <2>5. ~met
    BY <1>1, <1>2 DEF LinkOK
  <2>6. RedisTypeOK' /\ LinkOK'
    BY <1>1, <1>2, <2>1, <2>5 DEF RedisTypeOK, LinkOK
  <2>7. QED BY <2>4, <2>6 DEF RedisInv
<1>5. QED BY <1>3, <1>4

\* A call asks for a command, and waits for it.
LEMMA StartCallKeeps ==
  ASSUME RedisInv, NEW c \in Calls, NEW name \in {"get", "ping"}, StartCall(c, name)
  PROVE  RedisInv'
<1>1. RedisTypeOK /\ LinkOK /\ QueueOK(AllCommands, Waiting)
  BY DEF RedisInv
<1>2. /\ proc \in {"serving", "quit"} /\ calls[c] = "idle" /\ link # "end"
      /\ calls' = [calls EXCEPT ![c] = name] /\ UNCHANGED <<up, link, proc, met>>
  BY DEF StartCall, Await
<1>3. calls \in [Calls -> {"idle", "get", "ping", "stats"}] /\ sent \in Seq(Command) /\ offline \in Seq(Command)
  BY <1>1 DEF RedisTypeOK
<1>4. link \notin {"wait", "end"} /\ (link # "stranded" => met)
  BY <1>1, <1>2 DEF LinkOK, RedisTypeOK
<1>5. /\ c \in Senders /\ Waiting[c] \notin Awaited /\ Waiting'[c] = name /\ name \in Awaited
      /\ \A d \in Senders \ {c} : Waiting'[d] = Waiting[d]
  BY <1>1, <1>2, <1>3, WaitingAt DEF Awaited
<1>6. Cmd(c, name) \in Command
  BY <1>5, CmdType
<1>7. QueueOK(Append(AllCommands, Cmd(c, name)), Waiting')
  BY <1>1, <1>5, QueueAsked
<1>8. CASE link = "ready"
  <2>1. sent' = Append(sent, Cmd(c, name)) /\ UNCHANGED offline
    BY <1>8 DEF StartCall
  <2>2. QueueOK(sent', Waiting')
    BY <1>7, <1>8, <2>1, Connected
  <2>3. calls' \in [Calls -> {"idle", "get", "ping", "stats"}]
    BY <1>2, <1>3
  <2>4. QED BY <1>1, <1>2, <1>4, <1>8, <2>1, <2>2, <2>3, Proceeds DEF RedisTypeOK
<1>9. CASE link # "ready"
  <2>1. offline' = Append(offline, Cmd(c, name)) /\ UNCHANGED sent
    BY <1>9 DEF StartCall
  <2>2. offline' \in Seq(Command) /\ AllCommands' = Append(AllCommands, Cmd(c, name))
    BY <1>3, <1>6, <2>1, ConcatAppend DEF AllCommands
  <2>3. RedisTypeOK'
    BY <1>1, <1>2, <1>3, <2>1, <2>2 DEF RedisTypeOK
  <2>4. LinkOK'
    BY <1>1, <1>2, <1>4, <1>9 DEF LinkOK
  <2>5. QED BY <1>7, <2>2, <2>3, <2>4 DEF RedisInv
<1>10. QED BY <1>8, <1>9

\* SIGTERM: QUIT waits behind what the client has, or the client ends.
LEMMA TerminateKeeps ==
  ASSUME RedisInv, Terminate
  PROVE  RedisInv'
<1>1. RedisTypeOK /\ LinkOK /\ QueueOK(AllCommands, Waiting)
  BY DEF RedisInv
<1>2. proc = "serving" /\ UNCHANGED <<up, met>>
  BY DEF Terminate
<1>3. ASSUME proc' = "stopped", link' \in {"end", "stranded"}, UNCHANGED <<sent, offline, calls>>,
             link' = "end" => link = "end"
      PROVE  RedisInv'
  <2>1. \A b \in Senders : Waiting[b] \in Awaited \/ Waiting'[b] \in Awaited => Waiting'[b] = Waiting[b]
    BY <1>1, <1>2, <1>3, WaitingAt DEF Awaited
  <2>2. QueueOK(AllCommands', Waiting')
    BY <1>1, <1>3, <2>1, QueueStays DEF AllCommands
  <2>3. RedisTypeOK' /\ LinkOK'
    BY <1>1, <1>2, <1>3 DEF RedisTypeOK, LinkOK
  <2>4. QED BY <2>2, <2>3 DEF RedisInv
<1>4. CASE \/ link = "end" /\ proc' = "stopped" /\ UNCHANGED <<link, sent, offline, calls>>
           \/ /\ link \in {"reconnecting", "stranded"} /\ offline = << >> /\ proc' = "stopped"
              /\ link' = "stranded" /\ UNCHANGED <<sent, offline, calls>>
  BY <1>3, <1>4
<1>5. ASSUME proc' = "quit", UNCHANGED <<link, calls>>
      PROVE  /\ QueueOK(Append(AllCommands, Cmd(Boot, "quit")), Waiting')
             /\ Cmd(Boot, "quit") \in Command /\ (link \in {"ready", "reconnecting"} => met)
  <2>1. Boot \in Senders /\ "quit" \in Awaited /\ Cmd(Boot, "quit") \in Command
    BY CmdType DEF Senders, Awaited
  <2>2. Waiting[Boot] \notin Awaited /\ Waiting'[Boot] = "quit"
        /\ \A d \in Senders \ {Boot} : Waiting'[d] = Waiting[d]
    BY <1>1, <1>2, <1>5, WaitingAt DEF Awaited
  <2>3. QueueOK(Append(AllCommands, Cmd(Boot, "quit")), Waiting')
    BY <1>1, <2>1, <2>2, QueueAsked
  <2>4. link \in {"ready", "reconnecting"} => met
    BY <1>1, <1>2 DEF LinkOK
  <2>5. QED BY <2>1, <2>3, <2>4
<1>6. CASE /\ link = "ready" /\ proc' = "quit" /\ sent' = Append(sent, Cmd(Boot, "quit"))
           /\ UNCHANGED <<link, offline, calls>>
  BY <1>1, <1>2, <1>5, <1>6, Connected, Proceeds DEF RedisTypeOK
<1>7. CASE /\ link \in {"reconnecting", "stranded"} /\ proc' = "quit" /\ offline' = Append(offline, Cmd(Boot, "quit"))
           /\ UNCHANGED <<link, sent, calls>>
  <2>1. /\ Cmd(Boot, "quit") \in Command /\ (link \in {"ready", "reconnecting"} => met)
        /\ QueueOK(Append(AllCommands, Cmd(Boot, "quit")), Waiting')
    BY <1>5, <1>7
  <2>2. offline' \in Seq(Command) /\ AllCommands' = Append(AllCommands, Cmd(Boot, "quit"))
    BY <1>1, <1>7, <2>1, ConcatAppend DEF AllCommands, RedisTypeOK
  <2>3. RedisTypeOK' /\ LinkOK'
    BY <1>1, <1>2, <1>7, <2>1, <2>2 DEF RedisTypeOK, LinkOK
  <2>4. QED BY <2>1, <2>2, <2>3 DEF RedisInv
<1>8. QED BY <1>4, <1>6, <1>7 DEF Terminate

\* The connection is lost, or found: the client keeps what it has, or ends.
LEMMA ConnectionKeeps ==
  ASSUME RedisInv, ConnectionLost \/ RedisChanges \/ Reconnect
  PROVE  RedisInv'
<1>1. RedisTypeOK /\ LinkOK /\ QueueOK(AllCommands, Waiting)
  BY DEF RedisInv
<1>2. CASE ConnectionLost /\ ~Disconnect
  <2>1. /\ link = "ready" /\ link' = "reconnecting"
        /\ UNCHANGED <<sent, offline, proc, calls, met>> /\ up' \in BOOLEAN
    BY <1>1, <1>2 DEF ConnectionLost, Drop, RedisTypeOK
  <2>2. QueueOK(AllCommands', Waiting')
    BY <1>1, <2>1 DEF AllCommands, Waiting
  <2>3. RedisTypeOK' /\ LinkOK'
    BY <1>1, <2>1 DEF RedisTypeOK, LinkOK
  <2>4. QED BY <2>2, <2>3 DEF RedisInv
<1>3. CASE ConnectionLost /\ Disconnect
  <2>1. proc' = "stopped" /\ met' \in BOOLEAN /\ up' \in BOOLEAN
    BY <1>1, <1>3 DEF ConnectionLost, Drop, Disconnect, RedisTypeOK
  <2>2. QED BY <1>3, <2>1, Disconnected
<1>4. CASE RedisChanges
  <2>1. UNCHANGED <<link, sent, offline, proc, met, calls>> /\ up' \in BOOLEAN
    BY <1>4 DEF RedisChanges
  <2>2. QueueOK(AllCommands', Waiting')
    BY <1>1, <2>1 DEF AllCommands, Waiting
  <2>3. RedisTypeOK' /\ LinkOK'
    BY <1>1, <2>1 DEF RedisTypeOK, LinkOK
  <2>4. QED BY <2>2, <2>3 DEF RedisInv
<1>5. CASE Reconnect
  <2>1. /\ link = "reconnecting" /\ link' = "ready" /\ sent' = AllCommands /\ offline' = << >>
        /\ UNCHANGED <<up, proc, met, calls>>
    BY <1>5 DEF Reconnect
  <2>2. AllCommands \in Seq(Command) /\ << >> \in Seq(Command)
    BY <1>1, EmptySeq DEF QueueOK
  <2>3. AllCommands' = AllCommands
    BY <2>1, <2>2, ConcatEmptySeq DEF AllCommands
  <2>4. QueueOK(AllCommands', Waiting')
    BY <1>1, <2>1, <2>3 DEF Waiting
  <2>5. RedisTypeOK' /\ LinkOK'
    BY <1>1, <2>1, <2>2 DEF RedisTypeOK, LinkOK
  <2>6. QED BY <2>4, <2>5 DEF RedisInv
<1>6. QED BY <1>2, <1>3, <1>4, <1>5

\* A new process has a client of its own.
LEMMA FreshInv ==
  /\ RedisInit => RedisInv
  /\ RedisInv /\ Restart => RedisInv'
<1>1. << >> \in Seq(Command) /\ << >> \o << >> = << >>
  BY EmptySeq, ConcatEmptySeq
<1>2. ASSUME RedisInit PROVE RedisInv
  <2>1. RedisTypeOK /\ LinkOK /\ AllCommands = << >>
    BY <1>1, <1>2 DEF RedisInit, RedisTypeOK, LinkOK, NobodyWaits, AllCommands
  <2>2. \A b \in Senders : Waiting[b] \notin Awaited
    BY <1>2 DEF RedisInit, Waiting, Senders, NobodyWaits, Awaited
  <2>3. QED BY <2>1, <2>2, QueueEmpty DEF RedisInv
<1>3. ASSUME RedisInv, Restart PROVE RedisInv'
  <2>1. RedisTypeOK' /\ LinkOK' /\ AllCommands' = << >>
    BY <1>1, <1>3 DEF RedisInv, Restart, RedisTypeOK, LinkOK, NobodyWaits, AllCommands
  <2>2. \A b \in Senders : Waiting'[b] \notin Awaited
    BY <1>3 DEF Restart, Waiting, Senders, NobodyWaits, Awaited
  <2>3. QED BY <2>1, <2>2, QueueEmpty DEF RedisInv
<1>4. QED BY <1>2, <1>3

\* Redis answers the first command that was sent.
LEMMA AnsweredKeeps ==
  ASSUME RedisInv, Answered
  PROVE  RedisInv'
<1> DEFINE cmd == Head(sent)
<1>1. /\ RedisTypeOK /\ LinkOK /\ link = "ready" /\ sent # << >> /\ offline = << >> /\ UNCHANGED up
      /\ QueueOK(sent, Waiting) /\ proc \in {"ping", "serving", "quit"}
      /\ ~met => calls = NobodyWaits /\ proc = "ping"
      /\ proc = "ping" => ~met
  BY Connected DEF RedisInv, Answered, LinkOK, RedisTypeOK
<1>2. sent \in Seq(Command) /\ Tail(sent) \in Seq(Command) /\ cmd \in Command /\ cmd = sent[1] /\ 1 \in 1..Len(sent)
  BY <1>1, HeadTailProperties, LenProperties, EmptySeq DEF QueueOK
<1>3. cmd.by \in Senders /\ (cmd.name # "set" => cmd.name = Waiting[cmd.by])
  BY <1>1, <1>2, CmdType DEF QueueOK
<1>4. Answer(<< >>) => sent' = Tail(sent)
  BY <1>2, ConcatEmptySeq DEF Answer
<1>5. \A x \in Command : Answer(<<x>>) => sent' = Append(Tail(sent), x)
  BY <1>2, AppendIsConcat DEF Answer
<1>6. CASE cmd = Cmd(Boot, "ping") /\ BootPong
  <2>1. proc = "ping" /\ cmd.by = Boot /\ cmd.name = "ping"
    BY <1>1, <1>3, <1>6, CmdType, WaitingAt DEF Senders
  <2>2. CASE Disconnect
    <3>1. proc' = "serving" /\ UNCHANGED met /\ ~met
      BY <1>1, <1>6, <2>1, <2>2 DEF BootPong, Disconnect
    <3>2. QED BY <1>1, <2>2, <3>1, Disconnected DEF RedisTypeOK
  <2>3. CASE ~Disconnect
    <3>1. /\ proc' = "serving" /\ met' = TRUE /\ sent' = Tail(sent)
          /\ UNCHANGED <<link, offline, calls>>
      BY <1>4, <1>6, <2>3 DEF BootPong
    <3>2. Waiting'[Boot] \notin Awaited /\ \A d \in Senders \ {Boot} : Waiting'[d] = Waiting[d]
      BY <1>1, <3>1, WaitingAt DEF Awaited
    <3>3. QueueOK(sent', Waiting')
      BY <1>1, <2>1, <3>1, <3>2, QueueAnswered
    <3>4. QED BY <1>1, <3>1, <3>3, Proceeds DEF RedisTypeOK
  <2>4. QED BY <2>2, <2>3
<1>7. CASE cmd = Cmd(Boot, "quit") /\ QuitAnswered
  BY <1>1, <1>7, Disconnected DEF QuitAnswered, RedisTypeOK
<1>8. CASE cmd.name = "set" /\ SetAnswered
  <2>1. sent' = Tail(sent) /\ UNCHANGED <<link, offline, proc, met, calls>>
    BY <1>4, <1>8 DEF SetAnswered
  <2>2. UNCHANGED Waiting
    BY <2>1 DEF Waiting
  <2>3. QueueOK(sent', Waiting')
    BY <1>1, <1>8, <2>1, <2>2, QueueAnswered
  <2>4. QED BY <1>1, <2>1, <2>3, Proceeds DEF RedisTypeOK
<1>9. ASSUME NEW c \in Calls, NEW n \in {"get", "ping", "stats"}, cmd = Cmd(c, n)
      PROVE  /\ cmd.by = c /\ cmd.name = n /\ cmd.name # "set" /\ met
             /\ c \in Senders /\ c # Boot /\ \A x \in {"set", "stats"} : Cmd(c, x) \in Command
  <2>1. cmd.by = c /\ cmd.name = n /\ c \in Senders /\ c # Boot
        /\ \A x \in {"set", "stats"} : Cmd(c, x) \in Command
    BY <1>1, <1>9, CmdType, WaitingAt
  <2>2. calls[c] = n
    BY <1>1, <1>3, <2>1, WaitingAt
  <2>3. met
    BY <1>1, <2>2 DEF NobodyWaits
  <2>4. QED BY <2>1, <2>3
<1>10. ASSUME NEW c \in Calls, NEW n \in {"get", "ping", "stats"}, cmd = Cmd(c, n), Await(c, "idle"),
              UNCHANGED <<link, offline, proc, met>>,
              Answer(<< >>) \/ Answer(<<Cmd(c, "set")>>)
       PROVE  RedisInv'
  <2>1. calls' = [calls EXCEPT ![c] = "idle"] /\ calls' \in [Calls -> {"idle", "get", "ping", "stats"}]
    BY <1>1, <1>10 DEF Await, RedisTypeOK
  <2>2. Waiting'[c] \notin Awaited /\ \A d \in Senders \ {c} : Waiting'[d] = Waiting[d]
    BY <1>1, <1>10, <2>1, WaitingAt DEF Awaited, RedisTypeOK
  <2>3. QueueOK(Tail(sent), Waiting')
    BY <1>1, <1>9, <1>10, <2>2, QueueAnswered
  <2>4. QueueOK(Append(Tail(sent), Cmd(c, "set")), Waiting')
    BY <1>9, <1>10, <2>3, QueueSets
  <2>5. QueueOK(sent', Waiting')
    BY <1>4, <1>5, <1>9, <1>10, <2>3, <2>4
  <2>6. QED BY <1>1, <1>9, <1>10, <2>1, <2>5, Proceeds DEF RedisTypeOK
<1>11. ASSUME NEW c \in Calls, cmd = Cmd(c, "ping"), Await(c, "stats"), Answer(<<Cmd(c, "stats")>>),
              UNCHANGED <<link, offline, proc, met>>
       PROVE  RedisInv'
  <2> DEFINE w == [Waiting EXCEPT ![c] = "idle"]
  <2>1. calls' = [calls EXCEPT ![c] = "stats"] /\ calls' \in [Calls -> {"idle", "get", "ping", "stats"}]
    BY <1>1, <1>11 DEF Await, RedisTypeOK
  <2>2. /\ w[c] = "idle" /\ w[c] \notin Awaited /\ "stats" \in Awaited
        /\ \A d \in Senders \ {c} : w[d] = Waiting[d]
    BY <1>1, WaitingAt DEF Waiting, Awaited
  <2>3. Waiting'[c] = "stats" /\ \A d \in Senders \ {c} : Waiting'[d] = w[d]
    BY <1>1, <1>11, <2>1, <2>2, WaitingAt DEF RedisTypeOK
  <2> HIDE DEF w
  <2>4. QueueOK(Tail(sent), w)
    BY <1>1, <1>9, <1>11, <2>2, QueueAnswered
  <2>5. QueueOK(Append(Tail(sent), Cmd(c, "stats")), Waiting')
    BY <1>9, <1>11, <2>2, <2>3, <2>4, QueueAsked
  <2>6. QueueOK(sent', Waiting')
    BY <1>5, <1>9, <1>11, <2>5
  <2>7. QED BY <1>1, <1>9, <1>11, <2>1, <2>6, Proceeds DEF RedisTypeOK
<1>12. QED
  BY <1>6, <1>7, <1>8, <1>10, <1>11 DEF Answered, GetAnswered, PingAnswered, StatsAnswered

-----------------------------------------------------------------------------
(* The invariant and the theorems.                                         *)

\* Every step of the process, of Redis and of the connection keeps the invariant.
LEMMA NextRedisInv == RedisInv /\ [RedisNext]_redisVars => RedisInv'
<1> SUFFICES ASSUME RedisInv, [RedisNext]_redisVars PROVE RedisInv'
    OBVIOUS
<1>1. CASE UNCHANGED redisVars
  BY <1>1 DEF redisVars, RedisInv, RedisTypeOK, LinkOK, AllCommands, Waiting
<1>2. QED
  BY <1>1, BootConnectKeeps, StartCallKeeps, TerminateKeeps, ConnectionKeeps, FreshInv, AnsweredKeeps
     DEF RedisNext

\* The client keeps what it has in order, through outages and restarts.
THEOREM RedisInvariance == RedisSpec => []RedisInv
<1>1. QED BY FreshInv, NextRedisInv, PTL DEF RedisSpec

\* The client and the process keep their types.
THEOREM RedisTypeCorrect == RedisSpec => []RedisTypeOK
<1>1. RedisInv => RedisTypeOK
  BY DEF RedisInv
<1>2. QED BY <1>1, RedisInvariance, PTL

\* Whoever waits does so for one command that the client still has.
THEOREM NobodyWaitsInVain == RedisSpec => []WaitersAreQueued
<1>1. ASSUME RedisInv PROVE WaitersAreQueued
  <2>1. /\ AllCommands \in Seq(Command) /\ DOMAIN AllCommands = 1..Len(AllCommands)
        /\ QueueOK(AllCommands, Waiting) /\ RedisTypeOK
    BY <1>1, LenProperties DEF RedisInv, QueueOK
  <2>2. \A i \in DOMAIN AllCommands : AllCommands[i] \in Command
    BY <2>1, ElementOfSeq
  <2>3. ASSUME NEW c \in Calls
        PROVE  {AllCommands[i].name : i \in CommandsOf(c)} \ {"set"}
                   = IF calls[c] = "idle" THEN {} ELSE {calls[c]}
    <3>1. /\ Waiting[c] = calls[c] /\ c \in Senders
          /\ calls[c] \in {"idle", "get", "ping", "stats"} /\ (calls[c] # "idle" <=> calls[c] \in Awaited)
      BY <2>1, WaitingAt DEF RedisTypeOK, Awaited
    <3>2. \A i \in CommandsOf(c) : AllCommands[i].name = "set" \/ AllCommands[i].name = calls[c]
      BY <2>1, <3>1 DEF QueueOK, CommandsOf
    <3>3. \A i \in CommandsOf(c) : AllCommands[i].name = "set" \/ AllCommands[i].name \in Awaited
      BY <2>2, CmdType DEF CommandsOf
    <3>4. calls[c] # "idle" => \E i \in CommandsOf(c) : AllCommands[i].name = calls[c]
      BY <2>1, <3>1 DEF QueueOK, CommandsOf
    <3>5. "idle" \notin Awaited /\ "set" \notin Awaited
      BY DEF Awaited
    <3>6. CASE calls[c] = "idle"
      BY <3>2, <3>3, <3>5, <3>6
    <3>7. CASE calls[c] # "idle"
      BY <3>1, <3>2, <3>4, <3>5, <3>7
    <3>8. QED BY <3>6, <3>7
  <2>4. ASSUME NEW c \in Calls, NEW i \in CommandsOf(c), NEW j \in CommandsOf(c),
               AllCommands[i].name = AllCommands[j].name, i # j
        PROVE  AllCommands[i].name = "set"
    BY <2>1, <2>4 DEF QueueOK, CommandsOf
  <2>5. {AllCommands[i].name : i \in CommandsOf(Boot)}
            = IF proc \in {"ping", "quit"} THEN {proc} ELSE {}
    <3>1. Waiting[Boot] = proc /\ Boot \in Senders
      BY <2>1, WaitingAt
    <3>2. \A i \in CommandsOf(Boot) : AllCommands[i].name = proc
      BY <2>1, <3>1 DEF QueueOK, CommandsOf
    <3>3. \A i \in CommandsOf(Boot) : AllCommands[i].name # "set" /\ AllCommands[i].name \in Awaited
      BY <2>1, <2>2, CmdType DEF QueueOK, CommandsOf
    <3>4. proc \in Awaited <=> proc \in {"ping", "quit"}
      BY <2>1 DEF RedisTypeOK, Awaited
    <3>5. proc \in Awaited => \E i \in CommandsOf(Boot) : AllCommands[i].name = proc
      BY <2>1, <3>1 DEF QueueOK, CommandsOf
    <3>6. CASE proc \in {"ping", "quit"}
      BY <3>2, <3>4, <3>5, <3>6
    <3>7. CASE proc \notin {"ping", "quit"}
      BY <3>2, <3>3, <3>4, <3>7
    <3>8. QED BY <3>6, <3>7
  <2>6. link = "end" => AllCommands = << >>
    <3>1. << >> \in Seq(Command)
      BY EmptySeq
    <3>2. QED BY <1>1, <3>1, ConcatEmptySeq DEF RedisInv, LinkOK, AllCommands
  <2>7. QED BY <2>3, <2>4, <2>5, <2>6 DEF WaitersAreQueued
<1>2. QED BY <1>1, RedisInvariance, PTL

\* A process that Redis answered at boot keeps its client, connected or trying to
\* be, through every outage until it stops.
THEOREM ClientOutlivesOutages == RedisSpec => []OutagesAreSurvived
<1>1. ASSUME RedisInv PROVE OutagesAreSurvived
  <2>1. met => proc # "connect"
    BY <1>1 DEF RedisInv, LinkOK
  <2>2. QED BY <1>1, <2>1 DEF RedisInv, RedisTypeOK, LinkOK, OutagesAreSurvived
<1>2. QED BY <1>1, RedisInvariance, PTL
=============================================================================
