---------------------------- MODULE RedisClient ----------------------------
(***************************************************************************)
(* What RedisService and the options in RedisModule make of a Redis that   *)
(* comes and goes: boot, the commands of createStoryReadUrl and of the     *)
(* readiness probe, and shutdown, in one process.                          *)
(*                                                                         *)
(* The client (ioredis, external) answers commands in order.  With         *)
(* maxRetriesPerRequest null it keeps what is unanswered when the          *)
(* connection is lost, and what is asked meanwhile, until it is connected  *)
(* again; once it has ended, by disconnect() while connected or after      *)
(* QUIT, it rejects everything at once.  But disconnect() between two      *)
(* attempts to connect only cancels the next one: the client is left       *)
(* stranded, not connected and not trying to, and keeps what it is asked   *)
(* for ever.  Both last for the life of the process.                       *)
(***************************************************************************)
EXTENDS Naturals, Sequences, SequencesExt

CONSTANTS
    Calls,   \* calls in progress at once: read URLs and readiness probes
    Boot     \* onModuleInit and onModuleDestroy, as the sender of a command

ASSUME RedisAssumption == Boot \notin Calls

VARIABLES
    up,       \* Redis can be reached
    link,     \* status of the client
    sent,     \* commands written to the connection, without an answer yet
    offline,  \* commands given to the client while it was not connected
    proc,     \* where the process is between boot and shutdown
    met,      \* history: Redis has answered the ping of this boot
    calls     \* the command each call waits for

redisVars == <<up, link, sent, offline, proc, met, calls>>

Command == [by : Calls \cup {Boot}, name : {"get", "set", "ping", "stats", "quit"}]
Cmd(by, name) == [by |-> by, name |-> name]
AllCommands == sent \o offline

RedisTypeOK ==
    /\ up \in BOOLEAN /\ met \in BOOLEAN
    /\ link \in {"wait", "ready", "reconnecting", "stranded", "end"}
    /\ sent \in Seq(Command) /\ offline \in Seq(Command)
    /\ proc \in {"connect", "ping", "serving", "quit", "stopped"}
    /\ calls \in [Calls -> {"idle", "get", "ping", "stats"}]

NobodyWaits == [c \in Calls |-> "idle"]

\* lazyConnect: a new process has a client that has not been asked to connect.
RedisInit ==
    /\ up \in BOOLEAN
    /\ link = "wait" /\ sent = <<>> /\ offline = <<>>
    /\ proc = "connect" /\ met = FALSE /\ calls = NobodyWaits

\* The connected client ends, and rejects what it has.  Every caller catches that: a read
\* goes on with the Map or signs a URL, whose SET is rejected at once and only
\* logged, and a probe reports "degraded".
Disconnect ==
    /\ link' = "end" /\ sent' = <<>> /\ offline' = <<>>
    /\ calls' = NobodyWaits

Await(c, name) == calls' = [calls EXCEPT ![c] = name]

\* The first command in `sent' is answered, and `more' are sent in consequence.
Answer(more) == sent' = Tail(sent) \o more

-----------------------------------------------------------------------------
(* onModuleInit; the process listens once it is over. *)

\* A refused connect() rejects once the client has set the timer of its next
\* attempt, which the disconnect() of the catch cancels.
BootConnect ==
    /\ proc = "connect"
    /\ IF up
       THEN proc' = "ping" /\ link' = "ready" /\ sent' = <<Cmd(Boot, "ping")>>
       ELSE proc' = "serving" /\ link' = "stranded" /\ UNCHANGED sent
    /\ UNCHANGED <<up, offline, met, calls>>

\* Mutant: the error is thrown on, and the bootstrap fails.
BootPongThrown ==
    \/ proc' = "serving" /\ met' = TRUE /\ Answer(<<>>) /\ UNCHANGED <<link, offline, calls>>
    \/ proc' = "stopped" /\ Disconnect /\ UNCHANGED met

\* PONG, or an error such as LOADING or NOAUTH.
BootPong ==
    \/ proc' = "serving" /\ met' = TRUE /\ Answer(<<>>) /\ UNCHANGED <<link, offline, calls>>
    \/ proc' = "serving" /\ Disconnect /\ UNCHANGED met

-----------------------------------------------------------------------------
(* The commands of a serving process. *)

\* getCachedReadUrl or getHealthSummary starts.  On a client that has ended they
\* are rejected at once, and the call waits for nothing.
StartCall(c, name) ==
    /\ proc \in {"serving", "quit"} /\ calls[c] = "idle" /\ link # "end"
    /\ IF link = "ready"
       THEN sent' = Append(sent, Cmd(c, name)) /\ UNCHANGED offline
       ELSE offline' = Append(offline, Cmd(c, name)) /\ UNCHANGED sent
    /\ Await(c, name)
    /\ UNCHANGED <<up, link, proc, met>>

\* Mutant: the SET is awaited with the rest of the call.
GetAnsweredSlow(c) ==
    /\ \/ Answer(<<>>) /\ Await(c, "idle")
       \/ Answer(<<Cmd(c, "set")>>) /\ UNCHANGED calls
    /\ UNCHANGED <<link, offline, proc, met>>

\* Mutant: the call goes on to wait for the SET.
GetAnsweredAwaitingSet(c) ==
    /\ \/ Answer(<<>>) /\ Await(c, "idle")
       \/ Answer(<<Cmd(c, "set")>>) /\ Await(c, "set")
    /\ UNCHANGED <<link, offline, proc, met>>

\* A hit; or no value, or an error: after the Map, the URL is signed, and the SET
\* is not waited for.
GetAnswered(c) ==
    /\ \/ Answer(<<>>)
       \/ Answer(<<Cmd(c, "set")>>)
    /\ Await(c, "idle")
    /\ UNCHANGED <<link, offline, proc, met>>

\* Mutant: the probe pings until Redis answers PONG.
PingAnsweredRetried(c) ==
    /\ \/ Answer(<<Cmd(c, "stats")>>) /\ Await(c, "stats")
       \/ Answer(<<Cmd(c, "ping")>>) /\ Await(c, "ping")
    /\ UNCHANGED <<link, offline, proc, met>>

\* PONG: INFO and DBSIZE follow, together; an error: "degraded".
PingAnswered(c) ==
    /\ \/ Answer(<<Cmd(c, "stats")>>) /\ Await(c, "stats")
       \/ Answer(<<>>) /\ Await(c, "idle")
    /\ UNCHANGED <<link, offline, proc, met>>

StatsAnswered(c) ==
    /\ Answer(<<>>) /\ Await(c, "idle")
    /\ UNCHANGED <<link, offline, proc, met>>

SetAnswered == Answer(<<>>) /\ UNCHANGED <<link, offline, proc, met, calls>>

-----------------------------------------------------------------------------
(* onModuleDestroy, while requests are still served. *)

\* quit() on a client that is not connected calls disconnect() if nothing was asked
\* meanwhile, and waits behind what was.
Terminate ==
    /\ proc = "serving"
    /\ \/ link = "end" /\ proc' = "stopped" /\ UNCHANGED <<link, sent, offline, calls>>
       \/ /\ link = "ready" /\ proc' = "quit"
          /\ sent' = Append(sent, Cmd(Boot, "quit"))
          /\ UNCHANGED <<link, offline, calls>>
       \/ /\ link \in {"reconnecting", "stranded"} /\ offline = <<>> /\ proc' = "stopped"
          /\ link' = "stranded" /\ UNCHANGED <<sent, offline, calls>>
       \/ /\ link \in {"reconnecting", "stranded"} /\ offline # <<>> /\ proc' = "quit"
          /\ offline' = Append(offline, Cmd(Boot, "quit"))
          /\ UNCHANGED <<link, sent, calls>>
    /\ UNCHANGED <<up, met>>

QuitAnswered == proc' = "stopped" /\ Disconnect /\ UNCHANGED met

-----------------------------------------------------------------------------
(* Redis and the connection. *)

Answered ==
    /\ up /\ link = "ready" /\ sent # <<>>
    /\ LET cmd == Head(sent) IN
       \/ cmd = Cmd(Boot, "ping") /\ BootPong
       \/ cmd = Cmd(Boot, "quit") /\ QuitAnswered
       \/ cmd.name = "set" /\ SetAnswered
       \/ \E c \in Calls :
              \/ cmd = Cmd(c, "get") /\ GetAnswered(c)
              \/ cmd = Cmd(c, "ping") /\ PingAnswered(c)
              \/ cmd = Cmd(c, "stats") /\ StatsAnswered(c)
    /\ UNCHANGED up

\* Mutant: an 'error' handler of the client disconnects it.
DropDisconnecting == Disconnect /\ UNCHANGED proc

\* A client that has written QUIT does not reconnect: quit() is rejected, and
\* onModuleDestroy disconnects.
Drop ==
    IF Cmd(Boot, "quit") \in ToSet(sent)
    THEN proc' = "stopped" /\ Disconnect
    ELSE link' = "reconnecting" /\ UNCHANGED <<sent, offline, proc, calls>>

ConnectionLost ==
    /\ link = "ready" /\ Drop
    /\ up' \in {up, FALSE}
    /\ UNCHANGED met

RedisChanges ==
    /\ link # "ready" \/ ~up
    /\ up' = ~up
    /\ UNCHANGED <<link, sent, offline, proc, met, calls>>

\* What was sent is sent again, then what was asked meanwhile.
Reconnect ==
    /\ link = "reconnecting" /\ up
    /\ link' = "ready" /\ sent' = AllCommands /\ offline' = <<>>
    /\ UNCHANGED <<up, proc, met, calls>>

\* The process has stopped, or is killed, and is started again.
Restart ==
    /\ link' = "wait" /\ sent' = <<>> /\ offline' = <<>>
    /\ proc' = "connect" /\ met' = FALSE /\ calls' = NobodyWaits
    /\ UNCHANGED up

RedisNext ==
    \/ BootConnect \/ Terminate \/ Restart
    \/ \E c \in Calls : StartCall(c, "get") \/ StartCall(c, "ping")
    \/ Answered \/ ConnectionLost \/ RedisChanges \/ Reconnect

RedisSpec == RedisInit /\ [][RedisNext]_redisVars

(***************************************************************************)
(* Fairness.  The process runs its hooks.  The client retries for ever, at *)
(* most two seconds apart (ioredis' default retryStrategy, which the       *)
(* options leave alone), so it is connected again, and is answered, if     *)
(* Redis is there again and again: strong fairness.  SIGTERM and requests  *)
(* may never come.                                                         *)
(***************************************************************************)
RedisFairSpec ==
    /\ RedisSpec
    /\ WF_redisVars(BootConnect)
    /\ SF_redisVars(Reconnect)
    /\ SF_redisVars(Answered)

-----------------------------------------------------------------------------

CommandsOf(by) == {i \in DOMAIN AllCommands : AllCommands[i].by = by}

\* However the connection is lost and found, whoever waits does so for one
\* command that the client still has, and is the only one it has of him beside
\* the SETs nobody waits for: no command is asked twice, and none is waited for
\* on a client that has ended.
WaitersAreQueued ==
    /\ \A c \in Calls :
           {AllCommands[i].name : i \in CommandsOf(c)} \ {"set"}
               = IF calls[c] = "idle" THEN {} ELSE {calls[c]}
    /\ \A c \in Calls : \A i, j \in CommandsOf(c) :
           AllCommands[i].name = AllCommands[j].name /\ i # j => AllCommands[i].name = "set"
    /\ {AllCommands[i].name : i \in CommandsOf(Boot)}
           = IF proc \in {"ping", "quit"} THEN {proc} ELSE {}
    /\ link = "end" => AllCommands = <<>>

\* A process that Redis answered at boot keeps a client that is connected or
\* tries to be, through every outage, until onModuleDestroy is over: none but the
\* catch of onModuleInit gives the client up in a process that serves.
OutagesAreSurvived ==
    met /\ proc # "stopped" => link \in {"ready", "reconnecting"}

\* A read URL or a probe that waits for Redis is answered once Redis is back,
\* unless it stays away for ever, or the client is stranded.
CallsAnswered ==
    \/ <>[]~up
    \/ \A c \in Calls : calls[c] # "idle" ~> calls[c] = "idle" \/ link = "stranded"

\* Under the same condition the process gets through onModuleInit, and through
\* onModuleDestroy: until then quit() can wait behind the commands of others.
LifecycleMoves ==
    \/ <>[]~up
    \/ []<><<Restart>>_redisVars
    \/ /\ proc \in {"connect", "ping"} ~> proc = "serving"
       /\ proc = "quit" ~> proc # "quit" \/ link = "stranded"

\* "Cache will run degraded": in a process that Redis did not answer at boot a read
\* URL or a probe is answered, at least once Redis is back.
DegradedAnswers ==
    \/ <>[]~up
    \/ \A c \in Calls : ~met /\ calls[c] # "idle" ~> calls[c] = "idle"
=============================================================================
