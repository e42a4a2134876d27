----------------------------- MODULE HostBoard -----------------------------
(***************************************************************************)
(* The host's side of the link: Board (dispatchers/board.py) over          *)
(* ProtocolClient (comms/protocol_client.py), with the updater's use of    *)
(* both (comms/updater.py).                                                *)
(*                                                                         *)
(* Coroutines of one event loop - the poll loop, the debounced save, the   *)
(* updater and one task per write - await an asyncio.Lock, first come      *)
(* first served, and a thread pool of one worker that talks to the board.  *)
(* One action of a coroutine is what it does between two awaits; the       *)
(* worker's steps fall anywhere in between.                                *)
(*                                                                         *)
(* Answers are lost or come late; the transport breaks; the user writes,   *)
(* changes the connection and updates the firmware.  Only what a request   *)
(* does to the board's settings in RAM and flash is kept of the board.     *)
(***************************************************************************)
EXTENDS Integers, Sequences

CONSTANTS
  Writers,    \* the tasks of the user's writes, in their order
  Retries,    \* attempts per command
  MaxReconf,  \* connection changes in any session (a bound)
  ErrorLimit, \* max_errors: failed commands until the client counts as disconnected
  Uses        \* what a session has, all bounds: writes, losses and cuts (how many), diag (the
              \* diagnostics are displayed), raw (a firmware update), reconf (connection changes)

ASSUME WritersAssumption ==
  /\ Writers \in Seq(STRING \ {"poll", "save", "update", "none"})
  /\ \A i, j \in 1..Len(Writers) : Writers[i] = Writers[j] => i = j
ASSUME LimitAssumption == Retries \in Nat \ {0} /\ ErrorLimit \in Nat \ {0}
ASSUME UseAssumption ==
  Uses \subseteq [writes : 0..Len(Writers), losses : Nat, cuts : Nat, reconf : 0..MaxReconf,
                 diag : BOOLEAN, raw : BOOLEAN]

VARIABLES
  use,
  client,  \* the clients made so far: transport, executor, lock queue, jobs, link health
  pipe,    \* the transport of each client: requests and answers under way
  cable,   \* the link can carry data
  task,    \* the coroutines: where each is, and what it awaits
  host,    \* Board: connected, _paused, _settings, was_disconnected, the current client
  device,  \* the board: the settings in RAM and in flash, as the number of the last write
  left,    \* what may still happen of writes, losses, cuts, raw, reconf
  failed,  \* history: a write or a save was given up
  pulled,  \* history: a transport was taken away under commands that were accepted
  overtaken, \* history: resume or reconfigure ran while a poll was suspended
  crossed, \* history: a command began while a request given up was still under way
  revived  \* history: a client that had been replaced came up after all

vars == <<use, client, pipe, cable, task, host, device, left, failed, pulled, overtaken, crossed,
          revived>>

Tasks == {"poll", "save", "update"} \cup {Writers[n] : n \in 1..Len(Writers)}
Gen == 0..use.reconf
Commands == {"sta", "diag.cycles", "diag.interval", "settings", "version", "set", "save", "raw"}
Ops == Commands \cup {"open", "close"}
Jobs == [task : Tasks \cup {"none"}, op : Ops, try : 1..Retries, st : {"ready", "wait"}]
Requests == [op : Commands, by : Tasks \cup {"none"}]
\* aw: lock and exec, the lock and the worker; back, closed and opened, the event loop, with the
\* outcome of the command, of _reset_transport and of open.
Coroutines == [at : Commands \cup {"open", "idle", "sleep", "dead"},
               aw : {"none", "lock", "exec", "back", "close", "closed", "opened"},
               gen : Gen, out : {"none", "ok", "fail", "crash"}]
Idle == [at |-> "idle", aw |-> "none", gen |-> 0, out |-> "none"]
NewClient == [open |-> FALSE, up |-> TRUE, queue |-> <<>>, jobs |-> <<>>,
              errors |-> 0, connected |-> FALSE, broken |-> FALSE]
NewPipe == [dead |-> FALSE, req |-> <<>>, ans |-> <<>>]

Init ==
  /\ use \in Uses
  /\ client = [g \in Gen |-> NewClient]
  /\ pipe = [g \in Gen |-> NewPipe]
  /\ cable = TRUE
  /\ task = [t \in Tasks |-> Idle]
  /\ host = [connected |-> FALSE, paused |-> FALSE, cache |-> FALSE, was |-> FALSE, cur |-> 0]
  /\ device = [ram |-> 0, flash |-> 0]
  /\ left = [writes |-> use.writes, losses |-> use.losses, cuts |-> use.cuts, raw |-> use.raw,
             reconf |-> use.reconf]
  /\ failed = FALSE /\ pulled = FALSE /\ overtaken = FALSE /\ crossed = FALSE
  /\ revived = FALSE

(***************************************************************************)
(* ProtocolClient.  The lock is held by the head of the queue.             *)
(***************************************************************************)
Job(t, op) == [task |-> t, op |-> op, try |-> 1, st |-> "ready"]
Submit(cl, g, j) == [cl EXCEPT ![g].jobs = Append(@, j)]
Release(cl, g) == [cl EXCEPT ![g].queue = Tail(@)]
Awaits(tk, t, op, aw, g) == [tk EXCEPT ![t] = [at |-> op, aw |-> aw, gen |-> g, out |-> "none"]]

\* command and run_blocking, up to the first await, by task t whose clients are now cl; a
\* client that is not open raises ProtocolError.
Refuses(cl) == ~cl[host.cur].open
\* (mutant: the lock serves the last comer first)
Command_Unfair(t, op, cl) ==
  LET g == host.cur
      w == cl[g].queue
      q == [cl EXCEPT ![g].queue = IF w = <<>> THEN <<t>> ELSE <<Head(w), t>> \o Tail(w)]
  IN  /\ client' = IF w = <<>> THEN Submit(q, g, Job(t, op)) ELSE q
      /\ task' = Awaits(task, t, op, IF w = <<>> THEN "exec" ELSE "lock", g)
Command(t, op, cl) ==
  LET g == host.cur
      q == [cl EXCEPT ![g].queue = Append(@, t)]
  IN  /\ client' = IF cl[g].queue = <<>> THEN Submit(q, g, Job(t, op)) ELSE q
      /\ task' = Awaits(task, t, op, IF cl[g].queue = <<>> THEN "exec" ELSE "lock", g)

\* _mark_ok and _mark_error.
Marked(c, ok) ==
  IF ok THEN [c EXCEPT !.errors = 0, !.connected = TRUE]
  ELSE LET n == IF c.errors = ErrorLimit THEN ErrorLimit ELSE c.errors + 1
       IN  [c EXCEPT !.errors = n, !.connected = @ /\ n < ErrorLimit]

(***************************************************************************)
(* What each coroutine does when its command returns, or raises.           *)
(***************************************************************************)
Unhurt == UNCHANGED <<use, pipe, cable, device, left, failed, pulled, overtaken, crossed>>
Keep == Unhurt /\ UNCHANGED revived
End(t, cl) == task' = [task EXCEPT ![t] = Idle] /\ client' = cl

\* run: the next iteration of the poll loop.  The exceptions it catches lead to
\* _handle_link_error; any other one ends it.
Caught(cl) == End("poll", cl) /\ host' = [host EXCEPT !.connected = FALSE]
Dies(cl) == /\ task' = [task EXCEPT !["poll"] = [Idle EXCEPT !.at = "dead"]]
            /\ client' = cl /\ UNCHANGED host

\* (mutant: ProtocolError is not caught)
PollCommand_Uncaught(op, cl) ==
  IF Refuses(cl) THEN Dies(cl) ELSE Command("poll", op, cl) /\ UNCHANGED host
PollCommand(op, cl) == IF Refuses(cl) THEN Caught(cl) ELSE Command("poll", op, cl) /\ UNCHANGED host

\* The end of poll_once.
Polled(cl) == End("poll", cl) /\ host' = [host EXCEPT !.connected = TRUE]
\* _refresh_settings when the board was disconnected.
Refresh(cl) == IF host.was THEN PollCommand("settings", cl) ELSE Polled(cl)

AfterPoll(op, ok, cl) ==
  CASE op = "sta" /\ ok ->
         \/ Refresh(cl)
         \/ use.diag /\ PollCommand("diag.cycles", cl)
    [] op = "sta" /\ ~ok ->
         /\ End("poll", cl)
         /\ host' = [host EXCEPT !.connected = cl[host.cur].connected]
    [] op = "diag.cycles" -> PollCommand("diag.interval", cl)
    [] op = "diag.interval" -> Refresh(cl)
    [] op = "settings" ->
         IF Refuses(cl)
           THEN End("poll", cl) /\ host' = [host EXCEPT !.connected = FALSE, !.cache = @ \/ ok]
           ELSE Command("poll", "version", cl) /\ host' = [host EXCEPT !.cache = @ \/ ok]
    [] op = "version" -> Polled(cl)

\* s without the element at the position in K, if there is one.
Without(s, K) ==
  LET k == CHOOSE k \in K : TRUE
  IN  IF K = {} THEN s ELSE [i \in 1..Len(s) - 1 |-> s[IF i < k THEN i ELSE i + 1]]
Withdrawn(jobs) ==
  IF jobs # <<>> /\ Head(jobs).task = "save" THEN [jobs EXCEPT ![1].task = "none"]
  ELSE Without(jobs, {k \in 1..Len(jobs) : jobs[k].task = "save"})

\* _schedule_save: the pending save is cancelled, wherever it is, and a new one starts its delay.
\* A save on the wire loses the lock, but its job goes on.  (mutant: none is started in place of
\* the one cancelled)
Cancelled(cl) ==
  LET s == task["save"] IN
  IF s.aw = "none" THEN cl
  ELSE [cl EXCEPT ![s.gen].jobs = Withdrawn(@),
                  ![s.gen].queue = Without(@, {k \in 1..Len(@) : @[k] = "save"})]
Sleeping == [Idle EXCEPT !.at = "sleep"]
ScheduleSave_OnlyCancels(t, cl) ==
  /\ client' = Cancelled(cl)
  /\ task' = [task EXCEPT ![t] = Idle, !["save"] = IF @ = Idle THEN Sleeping ELSE Idle]
ScheduleSave(t, cl) ==
  /\ client' = Cancelled(cl)
  /\ task' = [task EXCEPT ![t] = Idle, !["save"] = Sleeping]

\* resume, after the raw flow of the updater.
\* (mutant: the link still counts as connected)
Resume_StillConnected(cl) ==
  /\ End("update", cl)
  /\ host' = [host EXCEPT !.cache = FALSE, !.paused = FALSE]
Resume(cl) ==
  /\ End("update", cl)
  /\ host' = [host EXCEPT !.cache = FALSE, !.connected = FALSE, !.paused = FALSE]

\* The history that goes with it.
Suspended == task["poll"].at \notin {"idle", "dead", "open"}

After(t, ok, cl) ==
  CASE t = "poll" -> AfterPoll(task[t].at, ok, cl)
    [] t = "save" -> End(t, cl) /\ UNCHANGED host
    [] t = "update" -> Resume(cl)
    [] OTHER -> ScheduleSave(t, cl) /\ UNCHANGED host

\* An exception that is not a link error: AttributeError, RuntimeError.
Crashes(t, cl) ==
  CASE t = "poll" -> Dies(cl)
    [] t = "update" -> Resume(cl)
    [] OTHER -> End(t, cl) /\ UNCHANGED host

Histories(t) ==
  /\ overtaken' = (overtaken \/ (t = "update" /\ Suspended))
  /\ UNCHANGED <<use, pipe, cable, device, left, pulled, crossed, revived>>

(***************************************************************************)
(* Steps of the event loop.                                                *)
(***************************************************************************)
\* The lock passes to the next in the queue, which hands its request to the worker, unless the
\* executor was shut down meanwhile (RuntimeError).
Granted(t) ==
  LET g == task[t].gen IN
  /\ task[t].aw = "lock" /\ Head(client[g].queue) = t
  /\ IF client[g].up
       THEN /\ client' = Submit(client, g, Job(t, task[t].at))
            /\ task' = [task EXCEPT ![t].aw = "exec"]
            /\ Keep /\ UNCHANGED host
       ELSE Crashes(t, Release(client, g)) /\ Histories(t) /\ failed' = (failed \/ t # "poll")

\* The worker is done.  A broken transport is dropped, and closed by the worker, before the
\* command returns.
Back(t) ==
  LET g == task[t].gen
      ok == task[t].out = "ok"
      cl == [Release(client, g) EXCEPT ![g] = IF t = "update" THEN @ ELSE Marked(@, ok)]
      \* _reset_transport
      reset == [cl EXCEPT ![g].broken = FALSE, ![g].open = FALSE]
  IN
  /\ task[t].aw = "back"
  /\ failed' = (failed \/ (~ok /\ t # "poll"))
  /\ IF task[t].out = "crash" THEN Crashes(t, Release(client, g)) /\ Histories(t)
     ELSE IF cl[g].broken /\ t # "update"
       THEN /\ client' = IF cl[g].open /\ cl[g].up THEN Submit(reset, g, Job(t, "close")) ELSE reset
            /\ task' = [task EXCEPT ![t].aw = IF cl[g].open /\ cl[g].up THEN "close" ELSE "closed"]
            /\ pulled' = (pulled \/ cl[g].queue # <<>> \/ cl[g].jobs # <<>>)
            /\ UNCHANGED <<use, pipe, cable, host, device, left, overtaken, crossed, revived>>
       ELSE After(t, ok, cl) /\ Histories(t)

Closed(t) ==
  /\ task[t].aw = "closed"
  /\ After(t, task[t].out = "ok", client) /\ Histories(t) /\ UNCHANGED failed

\* run and poll_once, up to the first await.
PollOpen ==
  /\ task["poll"] = Idle /\ ~client[host.cur].open
  /\ client' = Submit(client, host.cur, Job("poll", "open"))
  /\ task' = Awaits(task, "poll", "open", "exec", host.cur)
  /\ Keep /\ UNCHANGED host

PollSta(cl) ==
  IF host.paused THEN End("poll", cl) /\ UNCHANGED host
  ELSE IF Refuses(cl) THEN Caught(cl)
  ELSE Command("poll", "sta", cl) /\ host' = [host EXCEPT !.was = ~host.connected]

PollOnce ==
  /\ task["poll"] = Idle /\ client[host.cur].open /\ ~host.paused
  /\ PollSta(client)
  /\ Keep

\* open returns; the client is the one open was called on.
Opened ==
  LET g == task["poll"].gen
      ok == task["poll"].out = "ok"
      cl == [client EXCEPT ![g].open = @ \/ ok]
  IN
  /\ task["poll"].at = "open" /\ task["poll"].aw = "opened"
  /\ IF ok THEN PollSta(cl) ELSE Caught(client)
  /\ revived' = (revived \/ (ok /\ g # host.cur))
  /\ Unhurt

\* write_persisted: one task per write, dropped when disconnected.
WritePersisted ==
  LET n == Writers[use.writes - left.writes + 1] IN
  /\ host.connected /\ left.writes > 0
  /\ left' = [left EXCEPT !.writes = @ - 1]
  /\ IF Refuses(client) THEN UNCHANGED <<client, task>> ELSE Command(n, "set", client)
  /\ failed' = (failed \/ Refuses(client))
  /\ UNCHANGED <<use, pipe, cable, host, device, pulled, overtaken, crossed, revived>>

\* _debounced_save, after its delay.
DebouncedSave ==
  /\ task["save"].at = "sleep"
  /\ IF Refuses(client) THEN End("save", client) ELSE Command("save", "save", client)
  /\ failed' = (failed \/ Refuses(client))
  /\ UNCHANGED <<use, pipe, cable, host, device, left, pulled, overtaken, crossed, revived>>

\* install: pause, wait, run_blocking, and resume if the client is not open.  The wait blocks
\* the event loop.
Install ==
  /\ left.raw /\ task["update"] = Idle /\ host.connected
  /\ left' = [left EXCEPT !.raw = FALSE]
  /\ overtaken' = (overtaken \/ (Refuses(client) /\ Suspended))
  /\ IF Refuses(client) THEN Resume(client)
     ELSE Command("update", "raw", client) /\ host' = [host EXCEPT !.paused = TRUE]
  /\ UNCHANGED <<use, pipe, cable, device, failed, pulled, crossed, revived>>

\* reconfigure, and the close of the old client that it spawns.
Reconfigure ==
  LET g == host.cur IN
  /\ left.reconf > 0
  /\ left' = [left EXCEPT !.reconf = @ - 1]
  /\ host' = [host EXCEPT !.cur = g + 1, !.cache = FALSE, !.connected = FALSE, !.paused = FALSE]
  /\ client' = [client EXCEPT ![g].open = FALSE, ![g].up = FALSE]
  /\ pipe' = [pipe EXCEPT ![g] = [NewPipe EXCEPT !.dead = TRUE]]
  /\ pulled' = (pulled \/ client[g].queue # <<>> \/ client[g].jobs # <<>>)
  /\ overtaken' = (overtaken \/ Suspended)
  /\ UNCHANGED <<use, cable, task, device, failed, crossed, revived>>

Coroutine(t) ==
  \/ Granted(t) \/ Back(t) \/ Closed(t)
  \/ t = "poll" /\ (PollOpen \/ PollOnce \/ Opened)
  \/ t = "save" /\ DebouncedSave

(***************************************************************************)
(* The worker: the head of the jobs.                                       *)
(***************************************************************************)
Working(g) == client[g].jobs # <<>>
Top(g) == Head(client[g].jobs)
Tail1(cl, g) == [cl EXCEPT ![g].jobs = Tail(@)]
\* The outcome goes back to the coroutine, unless it was cancelled.
Finish(g, cl, aw, out) ==
  /\ client' = Tail1(cl, g)
  /\ task' = IF Top(g).task = "none" THEN task
             ELSE [task EXCEPT ![Top(g).task].aw = aw, ![Top(g).task].out = out]
WireKeeps == UNCHANGED <<use, cable, host, device, left, failed, pulled, overtaken, revived>>
WorkerKeeps == WireKeeps /\ UNCHANGED crossed

OpenTransport(g) ==
  /\ Working(g) /\ Top(g).op = "open"
  /\ Finish(g, client, "opened", IF cable THEN "ok" ELSE "fail")
  /\ pipe' = [pipe EXCEPT ![g] = NewPipe]
  /\ WorkerKeeps

CloseTransport(g) ==
  /\ Working(g) /\ Top(g).op = "close"
  /\ client' = Tail1(client, g)
  /\ task' = IF Top(g).task = "none" THEN task ELSE [task EXCEPT ![Top(g).task].aw = "closed"]
  /\ pipe' = [pipe EXCEPT ![g] = [NewPipe EXCEPT !.dead = TRUE]]
  /\ WorkerKeeps

\* A transaction whose transport fails says so to command; the raw flow of the updater does not.
\* (mutant: the dead transport is kept)
Broken_Kept(g) == client
Broken(g) == [client EXCEPT ![g].broken = @ \/ Top(g).op # "raw"]

\* _transact: the start of an attempt.  The transport may have been taken away
\* (AttributeError) or be broken.
Attempt(g) ==
  /\ Working(g) /\ Top(g).op \notin {"open", "close"} /\ Top(g).st = "ready"
  /\ CASE ~client[g].open ->
            Finish(g, client, "back", "crash") /\ UNCHANGED pipe
       [] client[g].open /\ pipe[g].dead ->
            Finish(g, Broken(g), "back", "fail") /\ UNCHANGED pipe
       [] OTHER ->
            /\ client' = [client EXCEPT ![g].jobs = <<[Top(g) EXCEPT !.st = "wait"]>> \o Tail(@)]
            /\ pipe' = [pipe EXCEPT ![g].ans = <<>>,
                                    ![g].req = Append(@, [op |-> Top(g).op, by |-> Top(g).task])]
            /\ UNCHANGED task
  /\ crossed' = (crossed \/ (Top(g).try = 1 /\ pipe[g].req # <<>>))
  /\ WireKeeps

\* No good answer: the next attempt, or none is left.
\* (mutant: one attempt too many)
Retry_OneMore(g) ==
  IF Top(g).try > Retries \/ Top(g).op = "raw" THEN Finish(g, client, "back", "fail")
  ELSE /\ client' = [client EXCEPT ![g].jobs =
                       <<[Top(g) EXCEPT !.st = "ready", !.try = @ + 1]>> \o Tail(@)]
       /\ UNCHANGED task
Retry(g) ==
  IF Top(g).try = Retries \/ Top(g).op = "raw" THEN Finish(g, client, "back", "fail")
  ELSE /\ client' = [client EXCEPT ![g].jobs =
                       <<[Top(g) EXCEPT !.st = "ready", !.try = @ + 1]>> \o Tail(@)]
       /\ UNCHANGED task

Waiting(g) == Working(g) /\ Top(g).st = "wait"

\* An error the client takes for a glitch of the line is retried; after the last attempt it is
\* returned as an answer, and its command counts as answered.
Answered(g) ==
  LET a == Head(pipe[g].ans)
      taken == a = "ok" \/ (a = "glitch" /\ Top(g).try = Retries)
  IN
  /\ Waiting(g) /\ pipe[g].ans # <<>>
  /\ pipe' = [pipe EXCEPT ![g].ans = Tail(@)]
  /\ IF taken THEN Finish(g, client, "back", "ok") ELSE Retry(g)
  /\ failed' = (failed \/ (taken /\ a = "glitch"))
  /\ UNCHANGED <<use, cable, host, device, left, pulled, overtaken, crossed, revived>>

\* The answer is late, or lost with the transport: a timeout, or an error of the transport.
TimedOut(g) ==
  /\ Waiting(g) /\ pipe[g].ans = <<>>
  /\ pipe[g].dead \/ pipe[g].req = <<>> \/ left.losses > 0
  /\ left' = IF pipe[g].dead \/ pipe[g].req = <<>> THEN left ELSE [left EXCEPT !.losses = @ - 1]
  /\ \/ Retry(g)
     \/ pipe[g].dead /\ Finish(g, Broken(g), "back", "fail")
  /\ UNCHANGED <<use, pipe, cable, host, device, failed, pulled, overtaken, crossed, revived>>

Worker(g) == OpenTransport(g) \/ CloseTransport(g) \/ Attempt(g) \/ Answered(g) \/ TimedOut(g)

(***************************************************************************)
(* The board and the wire (Protocol.c: set, save).                         *)
(***************************************************************************)
Number(t) == CHOOSE n \in 1..Len(Writers) : Writers[n] = t
Handled(r) ==
  CASE r.op = "set" -> [device EXCEPT !.ram = Number(r.by)]
    [] r.op = "save" -> [device EXCEPT !.flash = device.ram]
    [] r.op = "raw" -> [device EXCEPT !.ram = device.flash]
    [] OTHER -> device

\* A request is answered, or its answer garbled ...
BoardAnswers(g) ==
  /\ pipe[g].req # <<>>
  /\ device' = Handled(Head(pipe[g].req))
  /\ \E good \in BOOLEAN :
       /\ good \/ left.losses > 0
       /\ left' = IF good THEN left ELSE [left EXCEPT !.losses = @ - 1]
       /\ pipe' = [pipe EXCEPT ![g].req = Tail(@),
                               ![g].ans = Append(@, IF good THEN "ok" ELSE "garbled")]
  /\ UNCHANGED <<use, client, cable, task, host, failed, pulled, overtaken, crossed, revived>>

\* ... or it is garbled on its way, refused as an unknown command, ...
RequestGarbled(g) ==
  /\ pipe[g].req # <<>> /\ left.losses > 0
  /\ left' = [left EXCEPT !.losses = @ - 1]
  /\ pipe' = [pipe EXCEPT ![g].req = Tail(@), ![g].ans = Append(@, "glitch")]
  /\ UNCHANGED <<use, client, cable, task, host, device, failed, pulled, overtaken, crossed,
                 revived>>

\* ... or it is lost.
RequestLost(g) ==
  /\ pipe[g].req # <<>> /\ left.losses > 0
  /\ left' = [left EXCEPT !.losses = @ - 1]
  /\ pipe' = [pipe EXCEPT ![g].req = Tail(@)]
  /\ UNCHANGED <<use, client, cable, task, host, device, failed, pulled, overtaken, crossed,
                 revived>>

\* The cable is pulled, and put back.
Cut ==
  /\ cable /\ left.cuts > 0
  /\ cable' = FALSE
  /\ left' = [left EXCEPT !.cuts = @ - 1]
  /\ pipe' = [g \in Gen |-> [NewPipe EXCEPT !.dead = TRUE]]
  /\ UNCHANGED <<use, client, task, host, device, failed, pulled, overtaken, crossed, revived>>
Mend ==
  /\ ~cable /\ cable' = TRUE
  /\ UNCHANGED <<use, client, pipe, task, host, device, left, failed, pulled, overtaken, crossed,
                 revived>>

User == WritePersisted \/ Install \/ Reconfigure
Wire == Cut \/ Mend \/ \E g \in Gen : BoardAnswers(g) \/ RequestGarbled(g) \/ RequestLost(g)
Next == (\E t \in Tasks : Coroutine(t)) \/ (\E g \in Gen : Worker(g)) \/ User \/ Wire

\* The loop resumes what is ready in turn, each worker runs its jobs, and the board answers.
Gens == 0..MaxReconf
Fairness ==
  /\ \A t \in Tasks : WF_vars(Coroutine(t))
  /\ \A g \in Gens : WF_vars(g \in Gen /\ Worker(g)) /\ WF_vars(g \in Gen /\ BoardAnswers(g))
Spec == Init /\ [][Next]_vars /\ Fairness

(***************************************************************************)
(* Properties.                                                             *)
(***************************************************************************)
Client == [open : BOOLEAN, up : BOOLEAN, queue : Seq(Tasks), jobs : Seq(Jobs),
           errors : 0..ErrorLimit, connected : BOOLEAN, broken : BOOLEAN]
Pipe == [dead : BOOLEAN, req : Seq(Requests), ans : Seq({"ok", "garbled", "glitch"})]
TypeOK ==
  /\ use \in Uses /\ cable \in BOOLEAN
  /\ client \in [Gen -> Client]
  /\ pipe \in [Gen -> Pipe]
  /\ task \in [Tasks -> Coroutines]
  /\ host \in [connected : BOOLEAN, paused : BOOLEAN, cache : BOOLEAN, was : BOOLEAN, cur : Gen]
  /\ device \in [ram : 0..use.writes, flash : 0..use.writes]
  /\ left \in [writes : 0..use.writes, losses : 0..use.losses, cuts : 0..use.cuts,
               raw : BOOLEAN, reconf : 0..use.reconf]
  /\ {failed, pulled, overtaken, crossed, revived} \subseteq BOOLEAN

\* A retry, a late answer or a new transport never brings an older write back: what the board
\* holds only moves forward, except when an update restarts it from its flash, or when a client
\* that was replaced came up after all (its `open` was under way), with writes of its own.
InOrder ==
  [][device'.ram # device.ram =>
       device'.ram > device.ram \/ device'.ram = device.flash \/ revived]_vars

\* Unless a write or a save was given up, the last write ends up in flash, however writes and
\* saves overtake each other.
SavedInTheEnd ==
  <>[](failed \/ crossed \/ use.raw \/ revived \/ device.flash = use.writes - left.writes)

\* With the cable back, and no transport taken away under a command, the board ends up connected.
Reconnects == <>[]cable => <>(pulled \/ [](host.connected))

\* Where every command is answered within its retries, and no resume or reconfigure overtook a
\* poll, a connected board has its settings read.
CacheBeforeConnected ==
  host.connected /\ use.losses < Retries /\ use.cuts = 0 /\ ~overtaken => host.cache

\* run goes on unless a transport was taken away under commands that were accepted.
PollLivesUnpulled == task["poll"].at = "dead" => pulled

\* board.py: stay down and let run retry, never kill the poll loop.
PollLives == task["poll"].at # "dead"
=============================================================================
