-------------------------- MODULE HostBoardProofs --------------------------
(***************************************************************************)
(* The steps of HostBoard keep its inductive invariant, and what follows   *)
(* from it.                                                                *)
(***************************************************************************)
EXTENDS HostBoardLemmas

\* The record of the board object.
LEMMA HostTyped == ASSUME TypeOK PROVE host \in Hosts
  BY DEF TypeOK, Hosts

\* What follows a command of coroutine t that returned: t stops, the poll asks for its next
\* command, or a writer starts the save.
LEMMA AfterIs ==
  ASSUME TypeOK, NEW cl \in [Gen -> Client], NEW t \in Tasks, NEW ok \in BOOLEAN, Fit(t, task[t]),
         task[t].aw \in {"back", "closed"}, After(t, ok, cl)
  PROVE  /\ host' \in Hosts /\ host'.cur = host.cur
         /\ \/ End(t, cl)
            \/ /\ t = "poll"
               /\ \E op \in Commands \cap Ats("poll") : ~Refuses(cl) /\ Command("poll", op, cl)
            \/ t \notin {"poll", "save", "update"} /\ ScheduleSave(t, cl)
<1>0. host \in Hosts /\ host.cur \in Gen
  BY HostTyped, HostIs
<1>1. CASE t = "poll"
  <2> DEFINE h == host
             Step(op) == ~Refuses(cl) /\ Command("poll", op, cl)
  <2>1. AfterPoll(task["poll"].at, ok, cl)
    BY <1>1 DEF After
  <2>2. task["poll"].at \in {"sta", "diag.cycles", "diag.interval", "settings", "version"}
    BY <1>1, AtsAre DEF Fit
  <2>3. {"sta", "diag.cycles", "diag.interval", "settings", "version"}
          \subseteq Commands \cap Ats("poll")
    BY AtsAre DEF Commands
  <2>4. ASSUME NEW op \in Commands \cap Ats("poll"), PollCommand(op, cl)
        PROVE  /\ host' \in Hosts /\ host'.cur = host.cur
               /\ End("poll", cl) \/ \E o \in Commands \cap Ats("poll") : Step(o)
    BY <1>0, <2>4, HostIs DEF PollCommand, Caught
  <2>5. ASSUME Polled(cl)
        PROVE  host' \in Hosts /\ host'.cur = host.cur /\ End("poll", cl)
    BY <1>0, <2>5, HostIs DEF Polled
  <2>6. ASSUME Refresh(cl)
        PROVE  /\ host' \in Hosts /\ host'.cur = host.cur
               /\ End("poll", cl) \/ \E o \in Commands \cap Ats("poll") : Step(o)
    <3>1. Polled(cl) \/ PollCommand("settings", cl)
      BY <2>6 DEF Refresh
    <3> QED BY <3>1, <2>3, <2>4, <2>5
  <2>7. CASE task["poll"].at = "sta" /\ ok
    <3>1. Refresh(cl) \/ PollCommand("diag.cycles", cl)
      BY <2>1, <2>7 DEF AfterPoll
    <3> QED BY <3>1, <2>3, <2>4, <2>6, <1>1
  <2>8. CASE task["poll"].at = "sta" /\ ~ok
    <3>1. End("poll", cl) /\ host' = [host EXCEPT !.connected = cl[host.cur].connected]
      BY <2>1, <2>8 DEF AfterPoll
    <3>2. cl[host.cur].connected \in BOOLEAN
      BY <1>0, ClientIs
    <3> QED BY <1>0, <1>1, <3>1, <3>2, HostIs
  <2>9. CASE task["poll"].at = "diag.cycles"
    <3>1. PollCommand("diag.interval", cl)
      BY <2>1, <2>9 DEF AfterPoll
    <3> QED BY <3>1, <2>3, <2>4, <1>1
  <2>10. CASE task["poll"].at = "diag.interval"
    <3>1. Refresh(cl)
      BY <2>1, <2>10 DEF AfterPoll
    <3> QED BY <3>1, <2>6, <1>1
  <2>11. CASE task["poll"].at = "settings"
    <3>1. IF Refuses(cl)
          THEN End("poll", cl) /\ host' = [host EXCEPT !.connected = FALSE, !.cache = @ \/ ok]
          ELSE Command("poll", "version", cl) /\ host' = [host EXCEPT !.cache = @ \/ ok]
      BY <2>1, <2>11 DEF AfterPoll
    <3> DEFINE b == host.cache \/ ok
    <3>2. b \in BOOLEAN
      OBVIOUS
    <3>3. \/ host' = [host EXCEPT !.connected = FALSE, !.cache = b]
          \/ host' = [host EXCEPT !.cache = b]
      BY <3>1
    <3> HIDE DEF b
    <3>4. \A a \in BOOLEAN : /\ [host EXCEPT !.connected = a, !.cache = b] \in Hosts
                              /\ [host EXCEPT !.connected = a, !.cache = b].cur = host.cur
                              /\ [host EXCEPT !.cache = b] \in Hosts
                              /\ [host EXCEPT !.cache = b].cur = host.cur
      BY <1>0, <3>2, HostIs
    <3>5. host' \in Hosts /\ host'.cur = host.cur
      BY <3>3, <3>4
    <3> QED BY <1>1, <2>3, <3>1, <3>5
  <2>12. CASE task["poll"].at = "version"
    <3>1. Polled(cl)
      BY <2>1, <2>12 DEF AfterPoll
    <3> QED BY <3>1, <2>5, <1>1
  <2> QED BY <2>2, <2>7, <2>8, <2>9, <2>10, <2>11, <2>12
<1>2. CASE t = "save"
  BY <1>0, <1>2 DEF After
<1>3. CASE t = "update"
  BY <1>0, <1>3, HostIs DEF After, Resume
<1>4. CASE t \notin {"poll", "save", "update"}
  BY <1>0, <1>4 DEF After
<1> QED BY <1>1, <1>2, <1>3, <1>4

\* Coroutine t, done with its command, goes on.
LEMMA Continues ==
  ASSUME TypeOK, NEW cl, NEW t \in Tasks, NEW ok \in BOOLEAN, Fit(t, task[t]),
         task[t].aw \in {"back", "closed"}, After(t, ok, cl),
         Sound(cl, [task EXCEPT ![t] = Idle], Issued)
  PROVE  host' \in Hosts /\ host'.cur = host.cur /\ Sound(client', task', Issued)
<1> DEFINE tk == [task EXCEPT ![t] = Idle]
<1>0. cl \in [Gen -> Client] /\ task \in [Tasks -> Coroutines] /\ Issued \in Nat /\ host.cur \in Gen
  BY StateIs, UseIs DEF Sound, Typed
<1>1. /\ host' \in Hosts /\ host'.cur = host.cur
      /\ \/ End(t, cl)
         \/ /\ t = "poll"
            /\ \E op \in Commands \cap Ats("poll") : ~Refuses(cl) /\ Command("poll", op, cl)
         \/ t \notin {"poll", "save", "update"} /\ ScheduleSave(t, cl)
  BY <1>0, AfterIs
<1>2. CASE End(t, cl)
  BY <1>1, <1>2 DEF End
<1>3. ASSUME t = "poll", NEW op \in Commands \cap Ats("poll"), ~Refuses(cl), Command("poll", op, cl)
      PROVE  Sound(client', task', Issued)
  <2> DEFINE q == cl[host.cur].queue
             jobs == cl[host.cur].jobs
             w == Asked(op, IF q = <<>> THEN "exec" ELSE "lock", host.cur)
  <2>1. /\ Only(client', cl, host.cur, Append(q, t),
               IF q = <<>> THEN Append(jobs, Job(t, op)) ELSE jobs)
        /\ task' = [task EXCEPT ![t] = w]
    BY <1>0, <1>3, CommandIs
  <2>2. tk[t].aw = "none"
    BY <1>0 DEF Idle
  <2>3. \A a \in 1..Len(Writers) : t = Writers[a] => FALSE
    BY <1>3, WritersAre
  <2> HIDE DEF tk
  <2>4. Sound(client', [tk EXCEPT ![t] = w], Issued)
    BY <1>0, <1>3, <2>1, <2>2, <2>3, Enters DEF tk
  <2>5. [tk EXCEPT ![t] = w] = [task EXCEPT ![t] = w]
    BY <1>0 DEF tk
  <2> QED BY <2>1, <2>4, <2>5
<1>4. CASE t \notin {"poll", "save", "update"} /\ ScheduleSave(t, cl)
  <2>1. /\ client' = Cancelled(cl) /\ task' = [tk EXCEPT !["save"] = Sleeping]
        /\ tk["save"] = task["save"]
    BY <1>0, <1>4, TasksAre DEF ScheduleSave
  <2> QED BY <1>0, <1>1, <2>1, Cancels
<1> QED BY <1>1, <1>2, <1>3, <1>4

\* Idle, and the end of the poll, wait for nothing.
LEMMA StopsAre ==
  ASSUME TypeOK, NEW w \in {Idle, [Idle EXCEPT !.at = "dead"]}
  PROVE  /\ w \in Coroutines /\ ~Locks(w) /\ w.aw = "none" /\ w.gen = 0 /\ w.gen <= host.cur
         /\ w.out = "none" /\ Fit("poll", w)
         /\ w = Idle => w.at = "idle" /\ \A t : Fit(t, w)
<1>1. use \in Uses /\ host.cur \in Nat
  BY StateIs
<1>2. w \in Coroutines
  BY <1>1, CoroutineTyped
<1>3. /\ w.aw = "none" /\ w.gen = 0 /\ w.out = "none" /\ w.at \in {"idle", "dead"}
      /\ (w = Idle => w.at = "idle")
  BY DEF Idle
<1>4. Fit("poll", w) /\ ~Locks(w)
  BY <1>3, AtsAre DEF Fit, Locks
<1>5. ASSUME w = Idle, NEW t PROVE Fit(t, w)
  BY <1>3, <1>5, AtsAre DEF Fit
<1> QED BY <1>1, <1>2, <1>3, <1>4, <1>5

\* The first in the queue of client g, for a coroutine that awaits the lock or holds it.
LEMMA FirstIs ==
  ASSUME TypeOK, Sound(client, task, Issued), NEW t \in Tasks, Locks(task[t]),
         task[t].aw # "lock" \/ Head(client[task[t].gen].queue) = t
  PROVE  LET q == client[task[t].gen].queue IN q # <<>> /\ q[1] = t
<1> DEFINE q == client[task[t].gen].queue
<1>1. Typed(client, task) /\ Shape(client, task)
  BY DEF Sound
<1>2. task[t] \in Coroutines /\ client \in [Gen -> Client]
  BY <1>1 DEF Typed
<1>3. task[t].gen \in Gen
  BY <1>2, CoroutineIs
<1>4. q \in Seq(Tasks)
  BY <1>2, <1>3, ClientIs
<1>5. Queued(q, t)
  BY <1>1 DEF Shape, Placed
<1> HIDE DEF q
<1>6. q # <<>>
  BY <1>5, Nothing DEF Queued
<1>7. Head(q) = q[1]
  BY <1>4, <1>6, Elements
<1> QED BY <1>1, <1>6, <1>7, Holder DEF q

\* A coroutine whose command crashes lets the lock go, and stops.
LEMMA CrashKeeps ==
  ASSUME TypeOK, Sound(client, task, Issued), NEW t \in Tasks, pulled,
         LET q == client[task[t].gen].queue IN q # <<>> /\ q[1] = t,
         task[t].aw \notin {"exec", "close"}, Crashes(t, Release(client, task[t].gen))
  PROVE  host' \in Hosts /\ host'.cur = host.cur /\ Sound(client', task', Issued)
<1> DEFINE g == task[t].gen
           cl2 == Release(client, g)
<1>0. client \in [Gen -> Client] /\ task \in [Tasks -> Coroutines] /\ g \in Gen /\ Issued \in Nat
  BY StateIs, UseIs, CoroutineIs DEF Sound, Typed
<1>1. Only(cl2, client, g, Tail(client[g].queue), client[g].jobs)
  BY <1>0, ReleaseIs
<1> HIDE DEF cl2
<1>2. ASSUME NEW w \in {Idle, [Idle EXCEPT !.at = "dead"]}, w = Idle \/ t = "poll"
      PROVE  Sound(cl2, [task EXCEPT ![t] = w], Issued)
  <2>1. /\ w \in Coroutines /\ ~Locks(w) /\ w.aw \notin {"exec", "close"} /\ w.gen <= host.cur
        /\ Fit(t, w) /\ (w.out = "crash" \/ w.at = "dead" => pulled)
    BY <1>2, StopsAre
  <2> HIDE DEF g
  <2> QED BY <1>0, <1>1, <2>1, Releases DEF g
<1>3. \/ client' = cl2 /\ task' = [task EXCEPT ![t] = Idle]
      \/ /\ t = "poll" /\ client' = cl2
         /\ task' = [task EXCEPT !["poll"] = [Idle EXCEPT !.at = "dead"]]
  BY DEF Crashes, Dies, Resume, End, cl2
<1>4. Sound(client', task', Issued)
  BY <1>2, <1>3
<1>5. host' \in Hosts /\ host'.cur = host.cur
  <2>1. \/ UNCHANGED host
        \/ host' = [host EXCEPT !.cache = FALSE, !.connected = FALSE, !.paused = FALSE]
    BY DEF Crashes, Dies, Resume, End
  <2> QED BY <2>1, HostTyped, HostIs
<1> QED BY <1>4, <1>5

\* The histories stay truth values, and the rest what it is.
LEMMA HistoriesAre ==
  ASSUME TypeOK, NEW t \in Tasks, Histories(t)
  PROVE  /\ UNCHANGED <<use, pipe, cable, device, pulled, revived>>
         /\ left' \in [writes : 0..use.writes, losses : 0..use.losses, cuts : 0..use.cuts,
                       raw : BOOLEAN, reconf : 0..use.reconf]
         /\ left'.losses = left.losses /\ left'.reconf = left.reconf
         /\ overtaken' \in BOOLEAN /\ crossed' \in BOOLEAN /\ Issued' = Issued
  BY DEF TypeOK, Histories, Issued

\* What a step that keeps the histories keeps.
LEMMA KeepIs ==
  ASSUME TypeOK, Keep
  PROVE  /\ UNCHANGED <<use, pipe, cable, device, pulled, revived>>
         /\ left' \in [writes : 0..use.writes, losses : 0..use.losses, cuts : 0..use.cuts,
                       raw : BOOLEAN, reconf : 0..use.reconf]
         /\ left'.losses = left.losses /\ left'.reconf = left.reconf
         /\ overtaken' \in BOOLEAN /\ failed' \in BOOLEAN /\ crossed' \in BOOLEAN
         /\ Issued' = Issued
  BY DEF TypeOK, Keep, Unhurt, Issued

\* The lock passes on.
LEMMA GrantedKeeps ==
  ASSUME TypeOK, Sound(client, task, Issued), NEW t \in Tasks, Granted(t)
  PROVE  TypeOK' /\ Sound(client, task, Issued)'
<1> DEFINE g == task[t].gen
<1>0. /\ client \in [Gen -> Client] /\ task \in [Tasks -> Coroutines] /\ Issued \in Nat
      /\ g \in Gen /\ pulled \in BOOLEAN /\ failed \in BOOLEAN
  BY StateIs, UseIs, CoroutineIs DEF Sound, Typed
<1>1. LET q == client[g].queue IN q # <<>> /\ q[1] = t
  BY FirstIs DEF Granted, Locks
<1>2. CASE client[g].up
  <2>1. /\ client' = Submit(client, g, Job(t, task[t].at))
        /\ task' = [task EXCEPT ![t] = [task[t] EXCEPT !.aw = "exec"]]
        /\ Keep /\ UNCHANGED host
    BY <1>0, <1>2 DEF Granted
  <2>2. Sound(client', task', Issued)
    BY <1>0, <1>1, <2>1, Grants DEF Granted
  <2>3. host' \in Hosts /\ host'.cur = host.cur
    BY <2>1, HostTyped
  <2> QED BY <2>1, <2>2, <2>3, KeepIs, Carried
<1>3. CASE ~client[g].up
  <2>1. Crashes(t, Release(client, g)) /\ Histories(t) /\ failed' = (failed \/ t # "poll")
    BY <1>3 DEF Granted
  <2>2. pulled
    BY <1>0, <1>1, <1>3 DEF Sound, Lively, Serves
  <2>3. host' \in Hosts /\ host'.cur = host.cur /\ Sound(client', task', Issued)
    BY <1>1, <2>1, <2>2, CrashKeeps DEF Granted
  <2>4. failed' \in BOOLEAN
    BY <1>0, <2>1
  <2> QED BY <2>1, <2>3, <2>4, HistoriesAre, Carried
<1> QED BY <1>2, <1>3

\* Coroutine t lets the lock go, and the health of the link is marked.
LEMMA ReleasedIs ==
  ASSUME TypeOK, Sound(client, task, Issued), NEW t \in Tasks, task[t].aw = "back"
  PROVE  LET g == task[t].gen
             cl == [Release(client, g) EXCEPT
                      ![g] = IF t = "update" THEN @ ELSE Marked(@, task[t].out = "ok")]
         IN  Only(cl, client, g, Tail(client[g].queue), client[g].jobs)
<1> DEFINE g == task[t].gen
           r == Release(client, g)
           ok == task[t].out = "ok"
           c == IF t = "update" THEN r[g] ELSE Marked(r[g], ok)
<1>0. client \in [Gen -> Client] /\ task \in [Tasks -> Coroutines] /\ g \in Gen
  BY StateIs, CoroutineIs DEF Sound, Typed
<1>1. client[g].queue # <<>>
  BY FirstIs DEF Locks
<1>2. Only(r, client, g, Tail(client[g].queue), client[g].jobs)
  BY <1>0, <1>1, ReleaseIs
<1>3. r \in [Gen -> Client] /\ r[g] \in Client /\ ok \in BOOLEAN
  BY <1>0, <1>2 DEF Only
<1> HIDE DEF r, ok
<1>4. /\ c \in Client /\ c.queue = r[g].queue /\ c.jobs = r[g].jobs
      /\ c.open = r[g].open /\ c.up = r[g].up /\ c.broken = r[g].broken
  BY <1>3, MarkedIs
<1> HIDE DEF c
<1>5. Only([r EXCEPT ![g] = c], client, g, Tail(client[g].queue), client[g].jobs)
  BY <1>0, <1>2, <1>3, <1>4 DEF Only
<1>6. [r EXCEPT ![g] = IF t = "update" THEN @ ELSE Marked(@, ok)] = [r EXCEPT ![g] = c]
  BY <1>0, <1>3 DEF c
<1> QED BY <1>5, <1>6 DEF r, ok, c

\* The coroutine goes on to w, the lock let go.
LEMMA BackReleased ==
  ASSUME TypeOK, Sound(client, task, Issued), NEW t \in Tasks, task[t].aw = "back",
         NEW cl,
         Only(cl, client, task[t].gen, Tail(client[task[t].gen].queue), client[task[t].gen].jobs),
         NEW w \in Coroutines, Fit(t, w), ~Locks(w), w.aw \notin {"exec", "close"},
         w.gen <= host.cur, w.out = "crash" \/ w.at = "dead" => pulled
  PROVE  Sound(cl, [task EXCEPT ![t] = w], Issued)
<1>0. Issued \in Nat
  BY StateIs, UseIs
<1>1. LET q == client[task[t].gen].queue IN q # <<>> /\ q[1] = t
  BY FirstIs DEF Locks
<1> QED BY <1>0, <1>1, Releases

\* The worker is done, and the transport is kept.
LEMMA BackGoesOn ==
  ASSUME TypeOK, Sound(client, task, Issued), NEW t \in Tasks, task[t].aw = "back",
         NEW cl,
         Only(cl, client, task[t].gen, Tail(client[task[t].gen].queue), client[task[t].gen].jobs),
         NEW ok \in BOOLEAN, After(t, ok, cl)
  PROVE  host' \in Hosts /\ host'.cur = host.cur /\ Sound(client', task', Issued)
<1>0. Issued \in Nat /\ task \in [Tasks -> Coroutines] /\ Fit(t, task[t])
  BY StateIs, UseIs DEF Sound, Typed, Shape
<1>2. /\ Idle \in Coroutines /\ ~Locks(Idle) /\ Idle.aw \notin {"exec", "close"}
      /\ Idle.gen <= host.cur /\ Fit(t, Idle) /\ (Idle.out = "crash" \/ Idle.at = "dead" => pulled)
  BY StopsAre
<1>3. Sound(cl, [task EXCEPT ![t] = Idle], Issued)
  BY <1>2, BackReleased
<1> QED BY <1>0, <1>3, Continues

\* The worker is done, and the transport is broken: it is closed.
LEMMA BackResets ==
  ASSUME TypeOK, Sound(client, task, Issued), NEW t \in Tasks, task[t].aw = "back",
         NEW cl,
         Only(cl, client, task[t].gen, Tail(client[task[t].gen].queue), client[task[t].gen].jobs),
         cl[task[t].gen].broken,
         LET g == task[t].gen
             reset == [cl EXCEPT ![g].broken = FALSE, ![g].open = FALSE]
         IN  /\ client' = IF cl[g].open /\ cl[g].up
                          THEN Submit(reset, g, Job(t, "close")) ELSE reset
             /\ task' = [task EXCEPT ![t].aw = IF cl[g].open /\ cl[g].up THEN "close" ELSE "closed"]
             /\ pulled' = (pulled \/ cl[g].queue # <<>> \/ cl[g].jobs # <<>>),
         UNCHANGED <<use, host, left>>
  PROVE  /\ Typed(client', task') /\ Shape(client', task') /\ Fresh(client', task')
         /\ Ordered(client', task', Issued) /\ Past(client') /\ Steady(client')
         /\ pulled' \in BOOLEAN /\ Lively(client, task)'
<1> DEFINE g == task[t].gen
           n == Issued
           reset == [cl EXCEPT ![g].broken = FALSE, ![g].open = FALSE]
           w1 == [task[t] EXCEPT !.aw = "closed"]
           w2 == [task[t] EXCEPT !.aw = "close"]
           tk1 == [task EXCEPT ![t] = w1]
           q == cl[g].queue
           jobs == cl[g].jobs
           close == cl[g].open /\ cl[g].up
           tk2 == [tk1 EXCEPT ![t] = IF close THEN w2 ELSE w1]
           jobs2 == IF close THEN Append(jobs, Job(t, "close")) ELSE jobs
<1>0. /\ client \in [Gen -> Client] /\ task \in [Tasks -> Coroutines] /\ g \in Gen /\ n \in Nat
      /\ task[t] \in Coroutines /\ Fit(t, task[t]) /\ pulled \in BOOLEAN /\ use \in Uses
      /\ Lively(client, task) /\ Fresh(client, task) /\ Steady(client) /\ host.cur \in Gen
      /\ g <= host.cur /\ cl \in [Gen -> Client]
  <2>1. /\ client \in [Gen -> Client] /\ task \in [Tasks -> Coroutines] /\ n \in Nat
        /\ Fit(t, task[t]) /\ pulled \in BOOLEAN /\ use \in Uses /\ host.cur \in Gen
        /\ Lively(client, task) /\ Fresh(client, task) /\ Steady(client)
    BY StateIs, UseIs DEF Sound, Typed, Shape
  <2>2. task[t] \in Coroutines /\ g <= host.cur
    BY <2>1 DEF Fresh
  <2>3. g \in Gen
    BY <2>2, CoroutineIs
  <2>4. cl \in [Gen -> Client]
    BY DEF Only
  <2> QED BY <2>1, <2>2, <2>3, <2>4
<1>2. w1 \in Coroutines /\ w2 \in Coroutines
  BY <1>0, CoroutineTyped
<1>3. /\ w1.at = task[t].at /\ w1.gen = g /\ w1.out = task[t].out /\ w1.aw = "closed"
      /\ w2.at = task[t].at /\ w2.gen = g /\ w2.out = task[t].out /\ w2.aw = "close"
  BY <1>0 DEF Coroutines
<1> HIDE DEF w1, w2
<1>4. Fit(t, w1) /\ Fit(t, w2) /\ ~Locks(w1) /\ ~Locks(w2)
  BY <1>0, <1>3 DEF Fit, Locks
<1>5. /\ w1.gen <= host.cur /\ (w1.out = "crash" \/ w1.at = "dead" => pulled)
      /\ w1.aw \notin {"exec", "close"}
  BY <1>0, <1>3 DEF Lively
<1>6. Sound(cl, tk1, n)
  BY <1>2, <1>4, <1>5, BackReleased
<1>7. cl[g] \in Client /\ q \in Seq(Tasks) /\ jobs \in Seq(Jobs)
  BY <1>0, ClientIs
<1>8. /\ reset \in [Gen -> Client] /\ reset[g].queue = q /\ reset[g].jobs = jobs
      /\ reset[g].up = cl[g].up /\ ~reset[g].open /\ ~reset[g].broken
      /\ \A h \in Gen : h # g => reset[h] = cl[h]
  <2>1. [cl[g] EXCEPT !.broken = FALSE, !.open = FALSE] \in Client
    BY <1>7 DEF Client
  <2> QED BY <1>0, <1>7, <2>1 DEF Client
<1> HIDE DEF reset
<1>9. Typed(cl, tk1) /\ Shape(cl, tk1) /\ tk1 \in [Tasks -> Coroutines] /\ tk1[t] = w1
  BY <1>0, <1>6 DEF Sound, Typed
<1>10. Typed(reset, tk1) /\ Shape(reset, tk1)
  <2>1. \A h \in Gen : reset[h].queue = cl[h].queue /\ reset[h].jobs = cl[h].jobs
    BY <1>8
  <2> HIDE DEF tk1
  <2> QED BY <1>8, <1>9, <2>1, ShapeSame
<1>11. task' = tk2
  BY <1>0 DEF w1, w2
<1>12. client' = IF close THEN Submit(reset, g, Job(t, "close")) ELSE reset
  BY DEF reset
<1>13. Only(client', reset, g, q, jobs2)
  <2>1. "close" \in Ops
    BY DEF Ops
  <2>2. Job(t, "close") \in Jobs
    BY <2>1, JobTyped
  <2>3. Only(Submit(reset, g, Job(t, "close")), reset, g, q, Append(jobs, Job(t, "close")))
    BY <1>0, <1>8, <2>2, SubmitIs
  <2>4. Only(reset, reset, g, q, jobs)
    BY <1>8 DEF Only
  <2> QED BY <1>12, <2>3, <2>4
<1> HIDE DEF tk2
<1>14. Queues(q, g, tk2) /\ Works(jobs2, g, tk2)
  <2>1. Queues(q, g, tk1) /\ Works(jobs, g, tk1) /\ ~Queued(q, t) /\ ~HasJob(jobs, t)
    BY <1>0, <1>3, <1>4, <1>9, Absent DEF Shape
  <2>2. "close" \in Ops /\ Job(t, "close").op = "close"
    BY JobTyped DEF Ops
  <2>3. Served(Job(t, "close"), g, w2)
    BY <1>3, <2>2 DEF Served
  <2> HIDE DEF tk1, g, q, jobs
  <2>4. Queues(q, g, tk2)
    BY <1>7, <1>9, <2>1, QueuesElse DEF tk2
  <2>5. Works(jobs2, g, tk2)
    <3>1. CASE close
      <4>1. Works(Append(jobs, Job(t, "close")), g, [tk1 EXCEPT ![t] = w2])
        BY <1>7, <1>9, <2>1, <2>2, <2>3, WorksApp
      <4> QED BY <3>1, <4>1 DEF tk2
    <3>2. CASE ~close
      <4>1. Works(jobs, g, [tk1 EXCEPT ![t] = w1])
        BY <1>7, <1>9, <2>1, WorksElse
      <4> QED BY <3>2, <4>1 DEF tk2
    <3> QED BY <3>1, <3>2
  <2> QED BY <2>4, <2>5
<1> DEFINE w == IF close THEN w2 ELSE w1
<1>15. /\ w \in Coroutines /\ Fit(t, w) /\ ~Locks(w) /\ tk2 = [tk1 EXCEPT ![t] = w]
       /\ w.gen = g /\ w.out = task[t].out
       /\ w.at = task[t].at /\ w.aw \in {"close", "closed"}
  BY <1>2, <1>3, <1>4 DEF tk2
<1> HIDE DEF w, close, jobs2
<1>16. Typed(client', tk2) /\ Shape(client', tk2)
  <2>1. \A u : u # t /\ Queued(reset[g].queue, u) => Queued(q, u)
    BY <1>8
  <2>2. tk1[t].gen = g
    BY <1>3, <1>9
  <2>3. Queues(q, g, [tk1 EXCEPT ![t] = w]) /\ Works(jobs2, g, [tk1 EXCEPT ![t] = w])
    BY <1>14, <1>15
  <2> HIDE DEF tk1, g, q
  <2>4. /\ Typed(client', [tk1 EXCEPT ![t] = w]) /\ Shape(client', [tk1 EXCEPT ![t] = w])
    BY <1>0, <1>10, <1>13, <1>15, <2>1, <2>2, <2>3, ShapeStep
  <2> QED BY <1>15, <2>4
<1>17. /\ client'[g].queue = q /\ client'[g].jobs = jobs2 /\ ~client'[g].open /\ ~client'[g].broken
       /\ client'[g].up = cl[g].up /\ \A h \in Gen : h # g => client'[h] = cl[h]
  BY <1>8, <1>13 DEF Only
<1>18. tk2[t] = w /\ \A u \in Tasks : u # t => tk2[u] = tk1[u]
  BY <1>9, <1>15
<1>19. Fresh(cl, tk1) /\ Ordered(cl, tk1, n) /\ Past(cl) /\ Steady(cl) /\ Lively(cl, tk1)
  BY <1>6 DEF Sound
<1> HIDE DEF tk1, g
<1>20. Fresh(client', tk2)
  <2>1. \A u \in Tasks : tk2[u].gen <= host.cur
    BY <1>0, <1>15, <1>18, <1>19 DEF Fresh
  <2>2. host.cur \in Nat /\ g \in Nat /\ \A h \in Gen : h \in Nat
    BY <1>0, UseIs
  <2>3. \A h \in Gen : h > host.cur => client'[h] = NewClient
    <3> SUFFICES ASSUME NEW h \in Gen, h > host.cur PROVE client'[h] = NewClient
      OBVIOUS
    <3>1. h # g
      BY <1>0, <2>2
    <3>2. cl[h] = NewClient
      BY <1>19 DEF Fresh
    <3> QED BY <3>1, <3>2, <1>17
  <2> QED BY <1>0, <1>17, <1>19, <2>1, <2>3 DEF Fresh
<1>21. Ordered(client', tk2, n)
  <2>1. \A a \in 1..Len(Writers) : a > n => tk2[Writers[a]] = Idle
    <3> SUFFICES ASSUME NEW a \in 1..Len(Writers), a > n PROVE tk2[Writers[a]] = Idle
      OBVIOUS
    <3>1. Writers[a] \in Tasks /\ tk1[Writers[a]] = Idle
      BY <1>19, WritersAre DEF Ordered
    <3>2. Writers[a] # t
      BY <3>1, <1>3, <1>9 DEF Idle
    <3> QED BY <3>1, <3>2, <1>18
  <2> QED BY <1>17, <1>19, <2>1 DEF Ordered, q
<1>22. Past(client')
  BY <1>0, <1>17, <1>19 DEF Past, q
<1>23. Steady(client')
  <2>1. use.cuts # 0 \/ g # host.cur
    BY <1>19 DEF Steady, Keeps, g
  <2> QED BY <1>0, <1>17, <1>19, <2>1 DEF Steady
<1>24. pulled' = (pulled \/ q # <<>> \/ jobs # <<>>)
  BY DEF g
<1>25. pulled' \in BOOLEAN
  BY <1>0, <1>24
<1>26. Gen' = Gen /\ Tasks' = Tasks
  BY DEF Gen, Tasks
<1>27. pulled' \/ Serves(client'[g])
  <2> SUFFICES ASSUME q = <<>>, jobs = <<>> PROVE Serves(client'[g])
    BY <1>24, <1>0
  <2>1. \A i \in 1..Len(jobs2) : jobs2[i].op \in {"open", "close"}
    BY JobTyped DEF jobs2, Job
  <2> QED BY <1>17, <2>1 DEF Serves
<1>28. pulled' \/ \A h \in Gen : Serves(client'[h])
  BY <1>0, <1>17, <1>19, <1>24, <1>27 DEF Lively
<1>29. \A u \in Tasks : tk2[u].out = "crash" \/ tk2[u].at = "dead" => pulled'
  BY <1>0, <1>15, <1>18, <1>19, <1>24 DEF Lively
<1>30. Lively(client, task)'
  BY <1>11, <1>26, <1>28, <1>29 DEF Lively, Serves
<1> QED BY <1>11, <1>16, <1>20, <1>21, <1>22, <1>23, <1>25, <1>30

\* The same, part by part, where a transport is taken away or a client comes up.
LEMMA CarriedWith ==
  ASSUME TypeOK, UNCHANGED <<use, pipe, cable, device>>, host' \in Hosts, host'.cur = host.cur,
         left' \in [writes : 0..use.writes, losses : 0..use.losses, cuts : 0..use.cuts,
                    raw : BOOLEAN, reconf : 0..use.reconf],
         left'.losses = left.losses, left'.reconf = left.reconf,
         overtaken' \in BOOLEAN, failed' \in BOOLEAN, crossed' \in BOOLEAN,
         pulled' \in BOOLEAN, revived' \in BOOLEAN,
         Typed(client', task'), Shape(client', task'), Fresh(client', task'),
         Ordered(client', task', Issued'), Steady(client'), Past(client)', Lively(client, task)'
  PROVE  TypeOK' /\ Sound(client, task, Issued)'
<1>1. TypeOK'
  BY DEF TypeOK, Typed, Hosts, Gen, Client, Jobs, Coroutines, Pipe, Requests, Tasks
<1>2. Typed(client, task)' /\ Shape(client, task)'
  BY DEF Typed, Shape, Gen, Tasks, Client, Jobs, Coroutines, Placed
<1>3. Fresh(client, task)'
  BY DEF Fresh, Gen, Tasks, NewClient
<1>4. Ordered(client, task, Issued)'
  BY DEF Ordered, Gen, Idle, Issued
<1>5. Steady(client)'
  BY DEF Steady, Gen, Paid, Covered, Spent, Keeps
<1> QED BY <1>1, <1>2, <1>3, <1>4, <1>5 DEF Sound

\* The worker is done.
LEMMA BackKeeps ==
  ASSUME TypeOK, Sound(client, task, Issued), NEW t \in Tasks, Back(t)
  PROVE  TypeOK' /\ Sound(client, task, Issued)'
<1> DEFINE g == task[t].gen
           ok == task[t].out = "ok"
           cl == [Release(client, g) EXCEPT ![g] = IF t = "update" THEN @ ELSE Marked(@, ok)]
           reset == [cl EXCEPT ![g].broken = FALSE, ![g].open = FALSE]
<1>0. /\ task[t].aw = "back" /\ Fit(t, task[t]) /\ failed \in BOOLEAN /\ Lively(client, task)
      /\ ok \in BOOLEAN /\ host.cur \in Gen
  BY StateIs DEF Sound, Shape, Back
<1>1. failed' = (failed \/ (~ok /\ t # "poll")) /\ failed' \in BOOLEAN
  BY <1>0 DEF Back
<1>2. Only(cl, client, g, Tail(client[g].queue), client[g].jobs)
  BY <1>0, ReleasedIs
<1>3. \/ task[t].out = "crash" /\ Crashes(t, Release(client, g)) /\ Histories(t)
      \/ /\ task[t].out # "crash" /\ cl[g].broken
         /\ client' = IF cl[g].open /\ cl[g].up THEN Submit(reset, g, Job(t, "close")) ELSE reset
         /\ task' = [task EXCEPT ![t].aw = IF cl[g].open /\ cl[g].up THEN "close" ELSE "closed"]
         /\ pulled' = (pulled \/ cl[g].queue # <<>> \/ cl[g].jobs # <<>>)
         /\ UNCHANGED <<use, pipe, cable, host, device, left, overtaken, crossed, revived>>
      \/ After(t, ok, cl) /\ Histories(t)
  BY DEF Back
<1>4. CASE task[t].out = "crash" /\ Crashes(t, Release(client, g)) /\ Histories(t)
  <2>1. pulled
    BY <1>0, <1>4 DEF Lively
  <2>2. LET q == client[task[t].gen].queue IN q # <<>> /\ q[1] = t
    BY <1>0, FirstIs DEF Locks
  <2>3. host' \in Hosts /\ host'.cur = host.cur /\ Sound(client', task', Issued)
    BY <1>0, <1>4, <2>1, <2>2, CrashKeeps
  <2> QED BY <1>1, <1>4, <2>3, HistoriesAre, Carried
<1> HIDE DEF cl
<1>5. CASE After(t, ok, cl) /\ Histories(t)
  <2>1. host' \in Hosts /\ host'.cur = host.cur /\ Sound(client', task', Issued)
    BY <1>0, <1>2, <1>5, BackGoesOn
  <2> QED BY <1>1, <1>5, <2>1, HistoriesAre, Carried
<1>6. CASE /\ task[t].out # "crash" /\ cl[g].broken
           /\ client' = IF cl[g].open /\ cl[g].up THEN Submit(reset, g, Job(t, "close")) ELSE reset
           /\ task' = [task EXCEPT ![t].aw = IF cl[g].open /\ cl[g].up THEN "close" ELSE "closed"]
           /\ pulled' = (pulled \/ cl[g].queue # <<>> \/ cl[g].jobs # <<>>)
           /\ UNCHANGED <<use, pipe, cable, host, device, left, overtaken, crossed, revived>>
  <2>1. /\ Typed(client', task') /\ Shape(client', task') /\ Fresh(client', task')
        /\ Ordered(client', task', Issued) /\ Past(client') /\ Steady(client')
        /\ pulled' \in BOOLEAN /\ Lively(client, task)'
    BY <1>0, <1>2, <1>6, BackResets
  <2>2. Past(client)'
    BY <1>6, <2>1 DEF Past, Gen, Floor
  <2>3. /\ left' \in [writes : 0..use.writes, losses : 0..use.losses, cuts : 0..use.cuts,
                      raw : BOOLEAN, reconf : 0..use.reconf]
        /\ Issued' = Issued /\ left'.losses = left.losses /\ left'.reconf = left.reconf
        /\ overtaken' \in BOOLEAN /\ crossed' \in BOOLEAN /\ revived' \in BOOLEAN
    BY <1>6 DEF TypeOK, Issued
  <2>4. host' \in Hosts /\ host'.cur = host.cur /\ Ordered(client', task', Issued')
    BY <1>6, <2>1, <2>3, HostTyped
  <2> QED BY <1>1, <1>6, <2>1, <2>2, <2>3, <2>4, CarriedWith
<1> QED BY <1>3, <1>4, <1>5, <1>6

\* The transport is closed, and the command returns.
LEMMA ClosedKeeps ==
  ASSUME TypeOK, Sound(client, task, Issued), NEW t \in Tasks, Closed(t)
  PROVE  TypeOK' /\ Sound(client, task, Issued)'
<1> DEFINE ok == task[t].out = "ok"
<1>0. /\ task[t].aw = "closed" /\ Fit(t, task[t]) /\ failed \in BOOLEAN /\ ok \in BOOLEAN
      /\ Issued \in Nat /\ After(t, ok, client) /\ Histories(t) /\ failed' = failed
  BY StateIs, UseIs DEF Sound, Shape, Closed
<1>1. /\ Idle \in Coroutines /\ ~Locks(Idle) /\ Idle.aw \notin {"exec", "close"}
      /\ Idle.gen <= host.cur /\ Fit(t, Idle) /\ (Idle.out = "crash" \/ Idle.at = "dead" => pulled)
  BY StopsAre
<1>2. Sound(client, [task EXCEPT ![t] = Idle], Issued)
  BY <1>0, <1>1, Moves
<1> HIDE DEF ok
<1>3. host' \in Hosts /\ host'.cur = host.cur /\ Sound(client', task', Issued)
  BY <1>0, <1>2, Continues
<1> QED BY <1>0, <1>3, HistoriesAre, Carried

\* Coroutine t, which waits for nothing, stops or goes back to its loop.
LEMMA Rests ==
  ASSUME NEW cl, NEW tk, NEW n \in Nat, TypeOK, Sound(cl, tk, n),
         NEW t \in {"poll", "save", "update"},
         tk[t].aw \in {"none", "opened", "closed"}
  PROVE  Sound(cl, [tk EXCEPT ![t] = Idle], n)
<1>1. /\ Idle \in Coroutines /\ ~Locks(Idle) /\ Idle.aw \notin {"exec", "close"}
      /\ Idle.gen <= host.cur /\ Fit(t, Idle) /\ (Idle.out = "crash" \/ Idle.at = "dead" => pulled)
  BY StopsAre
<1>2. t \in Tasks
  BY TasksAre
<1> QED BY <1>1, <1>2, Moves

\* Coroutine t, which waits for nothing, begins a command.
LEMMA Begins ==
  ASSUME NEW cl, NEW tk, NEW n \in Nat, TypeOK, Sound(cl, tk, n),
         NEW t \in {"poll", "save", "update"},
         tk[t].aw = "none", ~Refuses(cl), NEW op \in Commands, op \in Ats(t),
         NEW cl2,
         LET q == cl[host.cur].queue
             jobs == cl[host.cur].jobs
         IN  Only(cl2, cl, host.cur, Append(q, t),
                  IF q = <<>> THEN Append(jobs, Job(t, op)) ELSE jobs)
  PROVE  LET w == Asked(op, IF cl[host.cur].queue = <<>> THEN "exec" ELSE "lock", host.cur)
         IN  Sound(cl2, [tk EXCEPT ![t] = w], n)
<1>1. t \in Tasks /\ \A a \in 1..Len(Writers) : t = Writers[a] => FALSE
  BY TasksAre, WritersAre
<1> QED BY <1>1, Enters

\* The poll finds its client closed.
LEMMA PollOpenKeeps ==
  ASSUME TypeOK, Sound(client, task, Issued), PollOpen
  PROVE  TypeOK' /\ Sound(client, task, Issued)'
<1>1. /\ client' = Submit(client, host.cur, Job("poll", "open")) /\ task["poll"] = Idle
      /\ task' = [task EXCEPT !["poll"] = Asked("open", "exec", host.cur)]
      /\ Keep /\ UNCHANGED host
  BY DEF PollOpen, Awaits, Asked
<1>2. Issued \in Nat
  BY StateIs, UseIs
<1>3. Sound(client', task', Issued)
  BY <1>1, <1>2, Opens
<1>4. host' \in Hosts /\ host'.cur = host.cur
  BY <1>1, HostTyped
<1> QED BY <1>1, <1>3, <1>4, KeepIs, Carried

\* The poll stops, or asks for the status, which makes the clients cl2 of cl.
Stands(cl2, cl) ==
  \/ cl2 = cl /\ task' = [task EXCEPT !["poll"] = Idle]
  \/ LET q == cl[host.cur].queue
         jobs == cl[host.cur].jobs
     IN  /\ ~Refuses(cl)
         /\ Only(cl2, cl, host.cur, Append(q, "poll"),
                 IF q = <<>> THEN Append(jobs, Job("poll", "sta")) ELSE jobs)
         /\ task' = [task EXCEPT !["poll"] =
                       Asked("sta", IF q = <<>> THEN "exec" ELSE "lock", host.cur)]

\* A round of the poll begins: it asks for the status, or stops.
LEMMA PollStaIs ==
  ASSUME TypeOK, NEW cl \in [Gen -> Client], PollSta(cl)
  PROVE  host' \in Hosts /\ host'.cur = host.cur /\ Stands(client', cl)
<1>1. host \in Hosts /\ (~host.connected) \in BOOLEAN /\ host.cur \in Gen /\ "poll" \in Tasks
  BY HostTyped, StateIs, TasksAre
<1>2. CASE host.paused
  BY <1>1, <1>2 DEF PollSta, End, Stands
<1>3. CASE ~host.paused /\ Refuses(cl)
  <2>1. /\ [host EXCEPT !.connected = FALSE] \in Hosts
        /\ [host EXCEPT !.connected = FALSE].cur = host.cur
    BY <1>1, HostIs
  <2> QED BY <1>3, <2>1 DEF PollSta, Caught, End, Stands
<1>4. CASE ~host.paused /\ ~Refuses(cl)
  <2> DEFINE b == ~host.connected
  <2>1. b \in BOOLEAN
    OBVIOUS
  <2>2. host' = [host EXCEPT !.was = b] /\ Command("poll", "sta", cl)
    BY <1>4 DEF PollSta
  <2> HIDE DEF b
  <2>3. [host EXCEPT !.was = b] \in Hosts /\ [host EXCEPT !.was = b].cur = host.cur
    BY <1>1, <2>1, HostIs
  <2>4. "sta" \in Commands
    BY DEF Commands
  <2>5. Stands(client', cl)
    BY <1>1, <1>4, <2>2, <2>4, CommandIs DEF Stands
  <2> QED BY <2>2, <2>3, <2>5
<1> QED BY <1>2, <1>3, <1>4

\* Either way the invariant stands.
LEMMA StandsSound ==
  ASSUME NEW cl, NEW cl2, TypeOK, Sound(cl, task, Issued), task["poll"].aw \in {"none", "opened"},
         Stands(cl2, cl)
  PROVE  Sound(cl2, task', Issued)
<1> DEFINE ti == [task EXCEPT !["poll"] = Idle]
           q == cl[host.cur].queue
           jobs == cl[host.cur].jobs
           w == Asked("sta", IF q = <<>> THEN "exec" ELSE "lock", host.cur)
<1>0. Issued \in Nat /\ "poll" \in Tasks /\ task \in [Tasks -> Coroutines]
  BY StateIs, UseIs, TasksAre DEF Sound, Typed
<1>1. Sound(cl, ti, Issued)
  BY <1>0, Rests
<1>2. CASE cl2 = cl /\ task' = ti
  BY <1>1, <1>2
<1>3. CASE /\ ~Refuses(cl) /\ task' = [task EXCEPT !["poll"] = w]
           /\ Only(cl2, cl, host.cur, Append(q, "poll"),
                   IF q = <<>> THEN Append(jobs, Job("poll", "sta")) ELSE jobs)
  <2>1. "sta" \in Commands /\ "sta" \in Ats("poll")
    BY AtsAre DEF Commands
  <2>2. ti["poll"].aw = "none"
    BY <1>0 DEF Idle
  <2> HIDE DEF ti
  <2>3. Sound(cl2, [ti EXCEPT !["poll"] = w], Issued)
    BY <1>0, <1>1, <1>3, <2>1, <2>2, Begins
  <2>4. [ti EXCEPT !["poll"] = w] = [task EXCEPT !["poll"] = w]
    BY <1>0 DEF ti
  <2> QED BY <1>3, <2>3, <2>4
<1> QED BY <1>2, <1>3 DEF Stands

\* The poll begins a round.
LEMMA PollOnceKeeps ==
  ASSUME TypeOK, Sound(client, task, Issued), PollOnce
  PROVE  TypeOK' /\ Sound(client, task, Issued)'
<1>1. PollSta(client) /\ Keep /\ task["poll"].aw = "none" /\ client \in [Gen -> Client]
  BY StateIs DEF PollOnce, Idle, Typed
<1>2. host' \in Hosts /\ host'.cur = host.cur /\ Stands(client', client)
  BY <1>1, PollStaIs
<1>3. Sound(client', task', Issued)
  BY <1>1, <1>2, StandsSound
<1> QED BY <1>1, <1>2, <1>3, KeepIs, Carried

\* A client comes up: the current one, or one that had been replaced.
LEMMA ComesUp ==
  ASSUME NEW cl, NEW tk, NEW n \in Nat, TypeOK, Sound(cl, tk, n), NEW g \in Gen, g <= host.cur,
         NEW cl2 \in [Gen -> Client], cl2[g].open, cl2[g].queue = cl[g].queue,
         cl2[g].jobs = cl[g].jobs,
         cl2[g].up = cl[g].up, cl2[g].broken = cl[g].broken, \A h \in Gen : h # g => cl2[h] = cl[h]
  PROVE  /\ Typed(cl2, tk) /\ Shape(cl2, tk) /\ Lively(cl2, tk) /\ Fresh(cl2, tk)
         /\ Ordered(cl2, tk, n) /\ Steady(cl2)
         /\ g = host.cur => Past(cl2)
<1>0. /\ Typed(cl, tk) /\ Shape(cl, tk) /\ Lively(cl, tk) /\ Fresh(cl, tk) /\ Ordered(cl, tk, n)
      /\ Past(cl) /\ Steady(cl) /\ host.cur \in Gen /\ host.cur \in Nat /\ \A h \in Gen : h \in Nat
  BY StateIs, UseIs DEF Sound
<1>1. \A h \in Gen : cl2[h].queue = cl[h].queue /\ cl2[h].jobs = cl[h].jobs
  OBVIOUS
<1>2. Typed(cl2, tk) /\ Shape(cl2, tk)
  BY <1>0, <1>1, ShapeSame
<1>3. \A h \in Gen : Serves(cl[h]) => Serves(cl2[h])
  BY <1>1 DEF Serves
<1>4. Lively(cl2, tk)
  BY <1>0, <1>3 DEF Lively
<1>5. Fresh(cl2, tk)
  BY <1>0 DEF Fresh
<1>6. Ordered(cl2, tk, n)
  BY <1>0, <1>1 DEF Ordered
<1>7. Steady(cl2)
  <2>1. Keeps(cl[host.cur]) => Keeps(cl2[host.cur])
    BY <1>0, <1>1, <1>3 DEF Keeps
  <2>2. Paid(cl[host.cur], pipe[host.cur]) => Paid(cl2[host.cur], pipe[host.cur])
    BY <1>0, <1>1 DEF Paid
  <2> QED BY <1>0, <2>1, <2>2 DEF Steady
<1>8. g = host.cur => Past(cl2)
  BY <1>0, <1>1 DEF Past
<1> QED BY <1>2, <1>4, <1>5, <1>6, <1>7, <1>8

\* open returns to the poll.
LEMMA OpenedKeeps ==
  ASSUME TypeOK, Sound(client, task, Issued), Opened
  PROVE  TypeOK' /\ Sound(client, task, Issued)'
<1> DEFINE g == task["poll"].gen
           ok == task["poll"].out = "ok"
           cl == [client EXCEPT ![g].open = @ \/ ok]
           n == Issued
<1>0. /\ client \in [Gen -> Client] /\ task \in [Tasks -> Coroutines] /\ n \in Nat
      /\ "poll" \in Tasks /\ host.cur \in Gen /\ revived \in BOOLEAN
      /\ task["poll"].aw = "opened" /\ Fresh(client, task)
  BY StateIs, UseIs, TasksAre DEF Sound, Typed, Opened
<1>1. g \in Gen /\ g <= host.cur /\ client[g] \in Client
  BY <1>0, CoroutineIs DEF Fresh
<1>2. /\ IF ok THEN PollSta(cl) ELSE Caught(client)
      /\ revived' = (revived \/ (ok /\ g # host.cur)) /\ Unhurt
  BY DEF Opened
<1>3. /\ UNCHANGED <<use, pipe, cable, device, pulled>>
      /\ left' \in [writes : 0..use.writes, losses : 0..use.losses, cuts : 0..use.cuts,
                    raw : BOOLEAN, reconf : 0..use.reconf]
      /\ left'.losses = left.losses /\ left'.reconf = left.reconf
      /\ overtaken' \in BOOLEAN /\ failed' \in BOOLEAN /\ crossed' \in BOOLEAN /\ Issued' = n
      /\ pulled' \in BOOLEAN
  BY <1>2 DEF TypeOK, Unhurt, Issued
<1>4. revived' \in BOOLEAN /\ (~ok \/ g = host.cur => revived' = revived)
  BY <1>0, <1>2
<1> HIDE DEF n
<1>5. CASE ~ok
  <2>1. /\ [host EXCEPT !.connected = FALSE] \in Hosts
        /\ [host EXCEPT !.connected = FALSE].cur = host.cur
    BY HostTyped, HostIs
  <2>2. host' \in Hosts /\ host'.cur = host.cur /\ Stands(client', client)
    BY <1>2, <1>5, <2>1 DEF Caught, End, Stands
  <2>3. Sound(client', task', Issued)
    BY <1>0, <2>2, StandsSound DEF n
  <2> QED BY <1>3, <1>4, <1>5, <2>2, <2>3, Carried DEF n
<1>6. CASE ok
  <2>1. [client[g] EXCEPT !.open = TRUE] \in Client
    BY <1>1 DEF Client
  <2>2. /\ cl \in [Gen -> Client] /\ cl[g].open /\ cl[g].queue = client[g].queue
        /\ cl[g].jobs = client[g].jobs /\ cl[g].up = client[g].up /\ cl[g].broken = client[g].broken
        /\ \A h \in Gen : h # g => cl[h] = client[h]
    BY <1>0, <1>1, <1>6, <2>1 DEF Client
  <2>3. PollSta(cl)
    BY <1>2, <1>6
  <2> HIDE DEF cl
  <2>4. host' \in Hosts /\ host'.cur = host.cur /\ Stands(client', cl)
    BY <2>2, <2>3, PollStaIs
  <2>5. CASE g = host.cur
    <3>1. Sound(cl, task, n)
      <4>1. Sound(client, task, n)
        BY DEF n
      <4> HIDE DEF g
      <4>2. /\ Typed(cl, task) /\ Shape(cl, task) /\ Lively(cl, task) /\ Fresh(cl, task)
            /\ Ordered(cl, task, n) /\ Steady(cl) /\ Past(cl)
        BY <1>0, <1>1, <2>2, <2>5, <4>1, ComesUp
      <4> QED BY <4>2 DEF Sound
    <3>2. Sound(client', task', Issued)
      BY <1>0, <2>4, <3>1, StandsSound DEF n
    <3> QED BY <1>3, <1>4, <2>4, <2>5, <3>2, Carried DEF n
  <2>6. CASE g # host.cur
    <3> DEFINE cl3 == [client' EXCEPT ![g] = client[g]]
    <3>1. cl[host.cur] = client[host.cur]
      BY <1>0, <2>2, <2>6
    <3>2. client' \in [Gen -> Client]
      BY <2>2, <2>4 DEF Stands, Only
    <3>3. /\ cl3 \in [Gen -> Client] /\ cl3[g] = client[g]
          /\ \A h \in Gen : h # g => cl3[h] = client'[h]
      BY <1>1, <3>2
    <3>4. client'[g] = cl[g]
      BY <1>1, <2>4, <2>6 DEF Stands, Only
    <3>5. Stands(cl3, client)
      <4>1. CASE client' = cl /\ task' = [task EXCEPT !["poll"] = Idle]
        <5>1. \A h \in Gen : cl3[h] = client[h]
          BY <2>2, <3>3, <4>1
        <5> HIDE DEF cl3
        <5>2. cl3 = client
          BY <1>0, <3>3, <5>1
        <5> QED BY <4>1, <5>2 DEF Stands
      <4>2. CASE ~(client' = cl /\ task' = [task EXCEPT !["poll"] = Idle])
        <5> DEFINE q == client[host.cur].queue
                   jobs == client[host.cur].jobs
                   jobs2 == IF q = <<>> THEN Append(jobs, Job("poll", "sta")) ELSE jobs
        <5>1. /\ ~Refuses(cl) /\ Only(client', cl, host.cur, Append(q, "poll"), jobs2)
              /\ task' = [task EXCEPT !["poll"] =
                            Asked("sta", IF q = <<>> THEN "exec" ELSE "lock", host.cur)]
          BY <2>4, <3>1, <4>2 DEF Stands
        <5>2. ~Refuses(client)
          BY <3>1, <5>1 DEF Refuses
        <5> HIDE DEF cl3, q, jobs2, g
        <5>3. Only(cl3, client, host.cur, Append(q, "poll"), jobs2)
          BY <1>0, <2>2, <2>6, <3>1, <3>3, <5>1 DEF Only
        <5> QED BY <5>1, <5>2, <5>3 DEF Stands, q, jobs2
      <4> QED BY <4>1, <4>2
    <3> HIDE DEF cl3
    <3>6. Sound(cl3, task', n)
      BY <1>0, <3>5, StandsSound DEF n
    <3>7. /\ client'[g].open /\ client'[g].queue = cl3[g].queue /\ client'[g].jobs = cl3[g].jobs
          /\ client'[g].up = cl3[g].up /\ client'[g].broken = cl3[g].broken
          /\ \A h \in Gen : h # g => client'[h] = cl3[h]
      BY <2>2, <3>3, <3>4
    <3> HIDE DEF g
    <3>8. /\ Typed(client', task') /\ Shape(client', task') /\ Lively(client', task')
          /\ Fresh(client', task') /\ Ordered(client', task', n) /\ Steady(client')
      BY <1>0, <1>1, <3>2, <3>6, <3>7, ComesUp
    <3>9. Past(client)'
      BY <1>2, <1>6, <2>6 DEF Past, g
    <3>10. Lively(client, task)'
      BY <1>3, <3>8 DEF Lively, Gen, Tasks
    <3> QED BY <1>3, <1>4, <2>4, <3>8, <3>9, <3>10, CarriedWith
  <2> QED BY <2>5, <2>6
<1> QED BY <1>5, <1>6

\* The save begins.
LEMMA DebouncedSaveKeeps ==
  ASSUME TypeOK, Sound(client, task, Issued), DebouncedSave
  PROVE  TypeOK' /\ Sound(client, task, Issued)'
<1> DEFINE q == client[host.cur].queue
           jobs == client[host.cur].jobs
<1>0. /\ client \in [Gen -> Client] /\ task \in [Tasks -> Coroutines] /\ Issued \in Nat
      /\ "save" \in Tasks /\ host.cur \in Gen /\ failed \in BOOLEAN /\ Shape(client, task)
      /\ task["save"].at = "sleep" /\ host \in Hosts
  BY StateIs, UseIs, TasksAre, HostTyped DEF Sound, Typed, DebouncedSave
<1>1. task["save"].aw = "none"
  BY <1>0 DEF Shape, Fit
<1>2. /\ IF Refuses(client) THEN End("save", client) ELSE Command("save", "save", client)
      /\ failed' = (failed \/ Refuses(client))
      /\ UNCHANGED <<use, pipe, cable, host, device, left, pulled, overtaken, crossed, revived>>
  BY DEF DebouncedSave
<1>3. Sound(client', task', Issued)
  <2>1. CASE Refuses(client)
    <3>1. Sound(client, [task EXCEPT !["save"] = Idle], Issued)
      BY <1>0, <1>1, Rests
    <3> QED BY <1>2, <2>1, <3>1 DEF End
  <2>2. CASE ~Refuses(client)
    <3>1. "save" \in Commands /\ "save" \in Ats("save") /\ Command("save", "save", client)
      BY <1>2, <2>2, AtsAre DEF Commands
    <3>2. /\ Only(client', client, host.cur, Append(q, "save"),
                  IF q = <<>> THEN Append(jobs, Job("save", "save")) ELSE jobs)
          /\ task' = [task EXCEPT !["save"] =
                        Asked("save", IF q = <<>> THEN "exec" ELSE "lock", host.cur)]
      BY <1>0, <3>1, CommandIs
    <3> QED BY <1>0, <1>1, <2>2, <3>1, <3>2, Begins
  <2> QED BY <2>1, <2>2
<1>4. /\ left' \in [writes : 0..use.writes, losses : 0..use.losses, cuts : 0..use.cuts,
                    raw : BOOLEAN, reconf : 0..use.reconf]
      /\ Issued' = Issued /\ left'.losses = left.losses /\ left'.reconf = left.reconf
      /\ overtaken' \in BOOLEAN /\ crossed' \in BOOLEAN /\ failed' \in BOOLEAN
  BY <1>0, <1>2 DEF TypeOK, Issued
<1> QED BY <1>0, <1>2, <1>3, <1>4, Carried

\* A write that is issued changes nothing else.
LEMMA IssuedMore ==
  ASSUME NEW cl, NEW tk, NEW n \in Nat, TypeOK, Sound(cl, tk, n)
  PROVE  Sound(cl, tk, n + 1)
<1>0. /\ Ordered(cl, tk, n) /\ device.ram \in Nat /\ device.flash \in Nat
  BY StateIs, UseIs DEF Sound
<1>1. ASSUME NEW h \in Gen PROVE Sent(pipe[h].req, cl[h].queue, n + 1)
  <2>1. Sent(pipe[h].req, cl[h].queue, n) /\ 1..n \subseteq 1..n + 1
    BY <1>0 DEF Ordered
  <2> QED BY <2>1 DEF Sent
<1>2. \A a \in 1..Len(Writers) : a > n + 1 => tk[Writers[a]] = Idle
  BY <1>0, WritersAre DEF Ordered
<1>3. device.ram <= n + 1 /\ device.flash <= n + 1
  BY <1>0 DEF Ordered
<1>4. Ordered(cl, tk, n + 1)
  BY <1>0, <1>1, <1>2, <1>3 DEF Ordered
<1> QED BY <1>4 DEF Sound

\* A write begins, each by its own coroutine.
LEMMA WriteKeeps ==
  ASSUME TypeOK, Sound(client, task, Issued), WritePersisted
  PROVE  TypeOK' /\ Sound(client, task, Issued)'
<1> DEFINE n == Issued
           t == Writers[n + 1]
           q == client[host.cur].queue
           jobs == client[host.cur].jobs
<1>0. /\ client \in [Gen -> Client] /\ task \in [Tasks -> Coroutines]
      /\ n \in Nat /\ use.writes \in 0..Len(Writers) /\ left.writes \in 0..use.writes
      /\ host.cur \in Gen /\ failed \in BOOLEAN /\ host \in Hosts /\ Len(Writers) \in Nat
      /\ Ordered(client, task, n)
  BY StateIs, UseIs, HostTyped, WritersAre DEF Sound, Typed
<1>1. /\ left.writes > 0 /\ left' = [left EXCEPT !.writes = @ - 1]
      /\ IF Refuses(client) THEN UNCHANGED <<client, task>> ELSE Command(t, "set", client)
      /\ failed' = (failed \/ Refuses(client))
      /\ UNCHANGED <<use, pipe, cable, host, device, pulled, overtaken, crossed, revived>>
  BY DEF WritePersisted, Issued
<1>2. left.writes - 1 \in 0..use.writes
  BY <1>0, <1>1
<1>3. /\ left' \in [writes : 0..use.writes, losses : 0..use.losses, cuts : 0..use.cuts,
                    raw : BOOLEAN, reconf : 0..use.reconf]
      /\ left'.writes = left.writes - 1 /\ left'.losses = left.losses /\ left'.reconf = left.reconf
  <2> DEFINE k == left.writes - 1
  <2>1. left' = [left EXCEPT !.writes = k] /\ k \in 0..use.writes
    BY <1>1, <1>2
  <2> HIDE DEF k
  <2>2. left' \in [writes : 0..use.writes, losses : 0..use.losses, cuts : 0..use.cuts,
                    raw : BOOLEAN, reconf : 0..use.reconf]
        /\ left'.writes = k /\ left'.losses = left.losses /\ left'.reconf = left.reconf
    BY <2>1 DEF TypeOK
  <2> QED BY <2>2 DEF k
<1>4. Issued' = n + 1 /\ n + 1 \in 1..Len(Writers)
  BY <1>0, <1>1, <1>3 DEF Issued
<1>5. /\ t \in Tasks /\ t \notin {"poll", "save", "update"}
      /\ \A a \in 1..Len(Writers) : t = Writers[a] => a = n + 1
  BY <1>4, WritersAre
<1> HIDE DEF n
<1>6. Sound(client', task', n + 1)
  <2>1. Sound(client, task, n)
    BY DEF n
  <2>2. CASE Refuses(client)
    BY <1>0, <1>1, <2>1, <2>2, IssuedMore
  <2>3. CASE ~Refuses(client)
    <3>1. "set" \in Commands /\ "set" \in Ats(t) /\ Command(t, "set", client)
      BY <1>1, <1>5, <2>3, AtsAre DEF Commands
    <3>2. task[t].aw = "none"
      BY <1>0, <1>4 DEF Ordered, Idle
    <3> HIDE DEF t
    <3>3. /\ Only(client', client, host.cur, Append(q, t),
                  IF q = <<>> THEN Append(jobs, Job(t, "set")) ELSE jobs)
          /\ task' = [task EXCEPT
                         ![t] = Asked("set", IF q = <<>> THEN "exec" ELSE "lock", host.cur)]
      BY <1>0, <1>5, <3>1, CommandIs
    <3>4. \A a \in 1..Len(Writers) : t = Writers[a] => n + 1 = n + 1 /\ a = n + 1
      BY <1>5
    <3>5. n + 1 \in {n, n + 1}
      OBVIOUS
    <3> QED BY <1>0, <1>5, <2>1, <2>3, <3>1, <3>2, <3>3, <3>4, <3>5, Enters
  <2> QED BY <2>2, <2>3
<1>7. overtaken' \in BOOLEAN /\ crossed' \in BOOLEAN /\ failed' \in BOOLEAN
  BY <1>0, <1>1 DEF TypeOK
<1> QED BY <1>0, <1>1, <1>3, <1>4, <1>6, <1>7, Carried

\* The update begins, or finds the client closed.
LEMMA InstallKeeps ==
  ASSUME TypeOK, Sound(client, task, Issued), Install
  PROVE  TypeOK' /\ Sound(client, task, Issued)'
<1> DEFINE q == client[host.cur].queue
           jobs == client[host.cur].jobs
<1>0. /\ client \in [Gen -> Client] /\ task \in [Tasks -> Coroutines] /\ Issued \in Nat
      /\ "update" \in Tasks /\ host.cur \in Gen /\ overtaken \in BOOLEAN /\ host \in Hosts
  BY StateIs, UseIs, TasksAre, HostTyped DEF Sound, Typed
<1>1. /\ task["update"].aw = "none" /\ left' = [left EXCEPT !.raw = FALSE]
      /\ overtaken' = (overtaken \/ (Refuses(client) /\ Suspended))
      /\ IF Refuses(client) THEN Resume(client)
         ELSE Command("update", "raw", client) /\ host' = [host EXCEPT !.paused = TRUE]
      /\ UNCHANGED <<use, pipe, cable, device, failed, pulled, crossed, revived>>
  BY DEF Install, Idle
<1>2. /\ left' \in [writes : 0..use.writes, losses : 0..use.losses, cuts : 0..use.cuts,
                    raw : BOOLEAN, reconf : 0..use.reconf]
      /\ Issued' = Issued /\ left'.losses = left.losses /\ left'.reconf = left.reconf
      /\ overtaken' \in BOOLEAN /\ crossed' \in BOOLEAN /\ failed' \in BOOLEAN
  BY <1>0, <1>1 DEF TypeOK, Issued
<1>3. CASE Refuses(client)
  <2>1. Sound(client', task', Issued)
    <3>1. Sound(client, [task EXCEPT !["update"] = Idle], Issued)
      BY <1>0, <1>1, Rests
    <3> QED BY <1>1, <1>3, <3>1 DEF Resume, End
  <2>2. host' \in Hosts /\ host'.cur = host.cur
    BY <1>0, <1>1, <1>3, HostIs DEF Resume
  <2> QED BY <1>1, <1>2, <2>1, <2>2, Carried
<1>4. CASE ~Refuses(client)
  <2>1. "raw" \in Commands /\ "raw" \in Ats("update") /\ Command("update", "raw", client)
    BY <1>1, <1>4, AtsAre DEF Commands
  <2>2. /\ Only(client', client, host.cur, Append(q, "update"),
                IF q = <<>> THEN Append(jobs, Job("update", "raw")) ELSE jobs)
        /\ task' = [task EXCEPT !["update"] =
                      Asked("raw", IF q = <<>> THEN "exec" ELSE "lock", host.cur)]
    BY <1>0, <2>1, CommandIs
  <2>3. Sound(client', task', Issued)
    BY <1>0, <1>1, <1>4, <2>1, <2>2, Begins
  <2>4. [host EXCEPT !.paused = TRUE] \in Hosts /\ [host EXCEPT !.paused = TRUE].cur = host.cur
    BY <1>0, HostIs
  <2>5. host' \in Hosts /\ host'.cur = host.cur
    BY <1>1, <1>4, <2>4
  <2> QED BY <1>1, <1>2, <2>3, <2>5, Carried
<1> QED BY <1>3, <1>4

\* The client is replaced.
LEMMA ReconfigureKeeps ==
  ASSUME TypeOK, Sound(client, task, Issued), Reconfigure
  PROVE  TypeOK' /\ Sound(client, task, Issued)'
<1> DEFINE g == host.cur
           c == [client[g] EXCEPT !.open = FALSE, !.up = FALSE]
           dead == [NewPipe EXCEPT !.dead = TRUE]
           n == Issued
<1>0. /\ client \in [Gen -> Client] /\ task \in [Tasks -> Coroutines] /\ n \in Nat
      /\ g \in Gen /\ g \in Nat /\ (\A h \in Gen : h \in Nat) /\ pulled \in BOOLEAN
      /\ host \in Hosts /\ pipe \in [Gen -> Pipe] /\ use.reconf \in Nat
      /\ left.reconf \in 0..use.reconf /\ overtaken \in BOOLEAN
      /\ Shape(client, task) /\ Lively(client, task) /\ Fresh(client, task)
      /\ Ordered(client, task, n) /\ Past(client) /\ Steady(client)
  BY StateIs, UseIs, HostTyped DEF Sound, Typed
<1>1. /\ left.reconf > 0 /\ left' = [left EXCEPT !.reconf = @ - 1]
      /\ host' = [host EXCEPT !.cur = g + 1, !.cache = FALSE, !.connected = FALSE, !.paused = FALSE]
      /\ client' = [client EXCEPT ![g].open = FALSE, ![g].up = FALSE]
      /\ pipe' = [pipe EXCEPT ![g] = dead]
      /\ pulled' = (pulled \/ client[g].queue # <<>> \/ client[g].jobs # <<>>)
      /\ overtaken' = (overtaken \/ Suspended)
      /\ UNCHANGED <<use, cable, task, device, failed, crossed, revived>>
  BY DEF Reconfigure
<1>2. Gen' = Gen /\ Tasks' = Tasks
  BY <1>1 DEF Gen, Tasks
<1>3. g + 1 \in Gen /\ g + left.reconf = use.reconf
  <2>1. g + left.reconf = use.reconf
    BY <1>0 DEF Fresh
  <2> QED BY <1>0, <1>1, <2>1 DEF Gen
<1>4. host' \in Hosts /\ host'.cur = g + 1
  BY <1>0, <1>1, <1>2, <1>3 DEF Hosts
<1>5. /\ left' \in [writes : 0..use.writes, losses : 0..use.losses, cuts : 0..use.cuts,
                    raw : BOOLEAN, reconf : 0..use.reconf]
      /\ left'.writes = left.writes /\ left'.losses = left.losses /\ left'.cuts = left.cuts
      /\ left'.reconf = left.reconf - 1
  <2> DEFINE k == left.reconf - 1
  <2>1. k \in 0..use.reconf
    BY <1>0, <1>1
  <2>2. left' = [left EXCEPT !.reconf = k]
    BY <1>1
  <2> HIDE DEF k
  <2>3. /\ left' \in [writes : 0..use.writes, losses : 0..use.losses, cuts : 0..use.cuts,
                    raw : BOOLEAN, reconf : 0..use.reconf]
        /\ left'.writes = left.writes /\ left'.losses = left.losses /\ left'.cuts = left.cuts
        /\ left'.reconf = k
    BY <2>1, <2>2 DEF TypeOK
  <2> QED BY <2>3 DEF k
<1>6. /\ client' \in [Gen -> Client] /\ client'[g].queue = client[g].queue
      /\ client'[g].jobs = client[g].jobs /\ client'[g].broken = client[g].broken
      /\ ~client'[g].open /\ \A h \in Gen : h # g => client'[h] = client[h]
  <2>1. client[g] \in Client
    BY <1>0
  <2>2. c \in Client
    BY <2>1 DEF Client
  <2>3. client' = [client EXCEPT ![g] = c]
    BY <1>0, <1>1
  <2>4. /\ c.queue = client[g].queue /\ c.jobs = client[g].jobs
        /\ c.broken = client[g].broken /\ ~c.open
    BY <2>1 DEF Client
  <2> HIDE DEF c
  <2> QED BY <1>0, <2>2, <2>3, <2>4
<1>7. /\ pipe' \in [Gen -> Pipe] /\ pipe'[g].req = <<>>
      /\ \A h \in Gen : h # g => pipe'[h] = pipe[h]
  BY <1>0, <1>1, NewTyped
<1>8. pulled' \in BOOLEAN /\ overtaken' \in BOOLEAN
  BY <1>0, <1>1
<1> HIDE DEF g, c, dead
<1>9. TypeOK'
  <2>1. /\ client' \in [Gen' -> Client'] /\ pipe' \in [Gen' -> Pipe']
        /\ task' \in [Tasks' -> Coroutines']
        /\ Client' = Client /\ Pipe' = Pipe
    BY <1>0, <1>1, <1>2, <1>6, <1>7 DEF Client, Pipe, Jobs, Requests, Coroutines
  <2>2. host' \in [connected : BOOLEAN, paused : BOOLEAN, cache : BOOLEAN, was : BOOLEAN,
                   cur : Gen']
    BY <1>2, <1>4 DEF Hosts
  <2> QED BY <1>1, <1>5, <1>8, <2>1, <2>2 DEF TypeOK
<1>10. \A h \in Gen : client'[h].queue = client[h].queue /\ client'[h].jobs = client[h].jobs
  BY <1>6
<1>11. Typed(client, task)' /\ Shape(client, task)'
  <2>1. Typed(client', task) /\ Shape(client', task)
    <3>1. Typed(client, task)
      BY StateIs
    <3> QED BY <1>0, <1>6, <1>10, <3>1, ShapeSame
  <2> QED BY <1>1, <1>2, <2>1 DEF Typed, Shape, Placed, Client, Jobs, Coroutines
<1>12. client[g + 1] = NewClient /\ g + 1 # g /\ client'[g + 1] = NewClient
  <2>1. g + 1 > g /\ g + 1 # g
    BY <1>0
  <2>2. client[g + 1] = NewClient
    BY <1>0, <1>3, <2>1 DEF Fresh, g
  <2> QED BY <1>3, <1>6, <2>1, <2>2
<1>13. Lively(client, task)'
  <2>1. pulled' \/ Serves(client'[g])
    <3> SUFFICES ASSUME client[g].queue = <<>>, client[g].jobs = <<>>, ~pulled'
                 PROVE  Serves(client'[g])
      BY <1>1, <1>8
    <3>1. Len(client'[g].jobs) = 0
      BY <1>6, Nothing
    <3> QED BY <1>6, <3>1 DEF Serves
  <2>2. pulled' \/ \A h \in Gen : Serves(client'[h])
    BY <1>0, <1>1, <1>6, <2>1 DEF Lively
  <2> QED BY <1>0, <1>1, <1>2, <2>2 DEF Lively, Serves
<1>14. Fresh(client, task)'
  <2>1. \A t \in Tasks : task[t].gen <= g + 1
    <3> SUFFICES ASSUME NEW t \in Tasks PROVE task[t].gen <= g + 1
      OBVIOUS
    <3>1. task[t].gen \in Gen /\ task[t].gen <= g
      BY <1>0, CoroutineIs DEF Fresh, g
    <3>2. task[t].gen \in Nat /\ g \in Nat
      BY <1>0, <3>1
    <3> QED BY <3>1, <3>2
  <2>2. \A h \in Gen : h > g + 1 => client'[h] = NewClient
    <3> SUFFICES ASSUME NEW h \in Gen, h > g + 1 PROVE client'[h] = NewClient
      OBVIOUS
    <3>1. h > g /\ h # g
      BY <1>0
    <3> QED BY <1>0, <1>6, <3>1 DEF Fresh, g
  <2>3. client'[g + 1].up
    BY <1>12, NewTyped
  <2>4. (g + 1) + left'.reconf = use.reconf
    BY <1>0, <1>3, <1>5
  <2> QED BY <1>1, <1>2, <1>4, <2>1, <2>2, <2>3, <2>4 DEF Fresh, NewClient
<1>15. Ordered(client, task, Issued)'
  <2>1. Issued' = n
    BY <1>1, <1>5 DEF Issued
  <2>2. ASSUME NEW h \in Gen
        PROVE  Ascending(client'[h].queue) /\ Sent(pipe'[h].req, client'[h].queue, n)
    <3>1. Ascending(client[h].queue) /\ Sent(pipe[h].req, client[h].queue, n)
      BY <1>0 DEF Ordered
    <3>2. Sent(<<>>, client[h].queue, n)
      BY Nothing DEF Sent
    <3> QED BY <1>7, <1>10, <3>1, <3>2
  <2> HIDE DEF n
  <2>3. Ordered(client, task, n)
    BY <1>0
  <2> QED BY <1>1, <1>2, <2>1, <2>2, <2>3 DEF Ordered, Idle, Ascending, Sent, Sets
<1>16. Past(client)'
  <2> SUFFICES ASSUME ~revived PROVE Past(client)'
    BY <1>1 DEF Past
  <2>1. /\ device.flash <= device.ram
        /\ \A h \in Gen : h # g => ~client[h].open /\ pipe[h].req = <<>>
    BY <1>0 DEF Past, g
  <2>2. \A h \in Gen : h # g + 1 => ~client'[h].open /\ pipe'[h].req = <<>>
    BY <1>6, <1>7, <2>1
  <2>3. pipe'[g + 1].req = <<>> /\ client'[g + 1].queue = <<>>
    BY <1>3, <1>7, <1>12, <2>1, NewTyped
  <2>4. Len(pipe'[g + 1].req) = 0 /\ Len(client'[g + 1].queue) = 0
    BY <2>3, Nothing
  <2>5. Floor(pipe[host.cur].req, client[host.cur].queue)'
    BY <1>4, <2>4 DEF Floor
  <2>6. (\A h \in Gen : h # host.cur => ~client[h].open /\ pipe[h].req = <<>>)'
    BY <1>2, <1>4, <2>2
  <2>7. (device.flash <= device.ram)'
    BY <1>1, <2>1
  <2> QED BY <2>5, <2>6, <2>7 DEF Past
<1>17. Steady(client)'
  <2> SUFFICES ASSUME use.cuts = 0 PROVE Steady(client)'
    BY <1>1 DEF Steady
  <2>1. cable /\ \A h \in Gen : h >= g => ~pipe[h].dead
    BY <1>0 DEF Steady, g
  <2>2. \A h \in Gen : h >= g + 1 => ~pipe'[h].dead
    <3> SUFFICES ASSUME NEW h \in Gen, h >= g + 1 PROVE ~pipe'[h].dead
      OBVIOUS
    <3>1. h >= g /\ h # g
      BY <1>0
    <3> QED BY <1>7, <2>1, <3>1
  <2>3. client'[g + 1].jobs = <<>> /\ client'[g + 1].queue = <<>> /\ ~client'[g + 1].broken
        /\ Len(client'[g + 1].jobs) = 0
    BY <1>12, NewTyped, Nothing
  <2>4. Keeps(client[host.cur])'
    BY <1>4, <2>3 DEF Keeps, Serves
  <2>5. Paid(client[host.cur], pipe[host.cur])'
    BY <1>4, <2>3 DEF Paid
  <2>6. (cable /\ \A h \in Gen : h >= host.cur => ~pipe[h].dead)'
    BY <1>1, <1>2, <1>4, <2>1, <2>2
  <2> QED BY <2>4, <2>5, <2>6 DEF Steady
<1> QED BY <1>9, <1>11, <1>13, <1>14, <1>15, <1>16, <1>17 DEF Sound

(***************************************************************************)
(* Steps of the worker.                                                    *)
(***************************************************************************)
\* What the first job of a worker says.
LEMMA TopAre ==
  ASSUME TypeOK, Sound(client, task, Issued), NEW g \in Gen, Working(g)
  PROVE  /\ client \in [Gen -> Client] /\ task \in [Tasks -> Coroutines] /\ g <= host.cur
         /\ client[g].jobs \in Seq(Jobs) /\ client[g].jobs # <<>> /\ Top(g) = client[g].jobs[1]
         /\ Top(g) \in Jobs /\ JobOK(Top(g), g, task) /\ Works(client[g].jobs, g, task)
         /\ 1 \in 1..Len(client[g].jobs)
         /\ Top(g).task \in Tasks \cup {"none"}
<1> DEFINE jobs == client[g].jobs
<1>0. /\ Typed(client, task) /\ Shape(client, task) /\ Fresh(client, task)
      /\ client \in [Gen -> Client]
  BY DEF Sound, Typed
<1>1. jobs \in Seq(Jobs) /\ jobs # <<>>
  BY <1>0, ClientIs DEF Working
<1>2. g <= host.cur
  BY <1>0, <1>1, NotFuture
<1>3. Works(jobs, g, task)
  BY <1>0 DEF Shape
<1>4. Top(g) = Head(jobs)
  BY DEF Top
<1> HIDE DEF jobs
<1>5. Top(g) = jobs[1] /\ 1 \in 1..Len(jobs) /\ jobs[1] \in Jobs
  BY <1>1, <1>4, Elements
<1>6. JobOK(jobs[1], g, task)
  BY <1>3, <1>5 DEF Works
<1>7. jobs[1].task \in Tasks \cup {"none"}
  BY <1>5, JobIs
<1> QED BY <1>0, <1>1, <1>2, <1>3, <1>5, <1>6, <1>7 DEF jobs, Typed

\* A link found broken says nothing of the rest.
LEMMA SetsBroken ==
  ASSUME NEW cl, NEW tk, NEW n \in Nat, TypeOK, Sound(cl, tk, n), NEW g \in Gen, g <= host.cur,
         use.cuts # 0 \/ g # host.cur, NEW b \in BOOLEAN
  PROVE  /\ Sound([cl EXCEPT ![g].broken = b], tk, n)
         /\ LET cl2 == [cl EXCEPT ![g].broken = b]
            IN  /\ cl2[g].queue = cl[g].queue /\ cl2[g].jobs = cl[g].jobs
                /\ \A h \in Gen : h # g => cl2[h] = cl[h]
<1> DEFINE cl2 == [cl EXCEPT ![g].broken = b]
<1>0. /\ Typed(cl, tk) /\ Shape(cl, tk) /\ Lively(cl, tk) /\ Fresh(cl, tk) /\ Ordered(cl, tk, n)
      /\ Past(cl) /\ Steady(cl) /\ host.cur \in Gen /\ host.cur \in Nat /\ \A h \in Gen : h \in Nat
      /\ cl \in [Gen -> Client]
  BY StateIs, UseIs DEF Sound, Typed
<1>1. /\ cl2 \in [Gen -> Client] /\ cl2[g].queue = cl[g].queue /\ cl2[g].jobs = cl[g].jobs
      /\ cl2[g].up = cl[g].up /\ cl2[g].open = cl[g].open
      /\ \A h \in Gen : h # g => cl2[h] = cl[h]
  <2>1. cl[g] \in Client
    BY <1>0
  <2>2. [cl[g] EXCEPT !.broken = b] \in Client
    BY <2>1 DEF Client
  <2> QED BY <1>0, <2>1, <2>2 DEF Client
<1> HIDE DEF cl2
<1>2. \A h \in Gen : /\ cl2[h].queue = cl[h].queue /\ cl2[h].jobs = cl[h].jobs
                     /\ cl2[h].up = cl[h].up /\ cl2[h].open = cl[h].open
  BY <1>1
<1>3. Typed(cl2, tk) /\ Shape(cl2, tk)
  BY <1>0, <1>1, <1>2, ShapeSame
<1>4. \A h \in Gen : Serves(cl[h]) => Serves(cl2[h])
  BY <1>2 DEF Serves
<1>5. Lively(cl2, tk)
  BY <1>0, <1>4 DEF Lively
<1>6. Fresh(cl2, tk)
  BY <1>0, <1>1 DEF Fresh
<1>7. Ordered(cl2, tk, n)
  BY <1>0, <1>2 DEF Ordered
<1>8. Steady(cl2)
  BY <1>0, <1>1 DEF Steady
<1>9. Past(cl2)
  BY <1>0, <1>2 DEF Past
<1> QED BY <1>1, <1>3, <1>5, <1>6, <1>7, <1>8, <1>9 DEF Sound, cl2

\* w is what becomes of v when the job it waits for is done.
Outcome(w, v, op) ==
  /\ w \in Coroutines /\ w.at = v.at /\ w.gen = v.gen /\ (w.out = "crash" => pulled)
  /\ w.aw = CASE op = "open" -> "opened" [] op = "close" -> "closed" [] OTHER -> "back"

\* The worker is done with its first job, and the coroutine that waits for it, if any, with w.
LEMMA WorkerDone ==
  ASSUME TypeOK, NEW cl, Sound(cl, task, Issued), NEW g \in Gen, cl[g].jobs # <<>>,
         NEW j, j = cl[g].jobs[1], NEW w,
         task' = IF j.task = "none" THEN task ELSE [task EXCEPT ![j.task] = w],
         j.task # "none" => Outcome(w, task[j.task], j.op),
         client' = Tail1(cl, g)
  PROVE  /\ Sound(client', task', Issued)
         /\ client'[g].queue = cl[g].queue
         /\ client'[g].jobs # <<>> => Untried(client'[g].jobs[1])
         /\ \A h \in Gen : h # g => client'[h] = cl[h]
<1> DEFINE jobs == cl[g].jobs
<1>0. /\ cl \in [Gen -> Client] /\ Issued \in Nat /\ jobs \in Seq(Jobs) /\ jobs # <<>>
      /\ Works(jobs, g, task)
  BY StateIs, UseIs, ClientIs DEF Sound, Typed, Shape
<1>1. Only(client', cl, g, cl[g].queue, Tail(jobs))
  BY <1>0, Tail1Is
<1>2. Tail(jobs) # <<>> => Untried(Tail(jobs)[1])
  <2> HIDE DEF jobs
  <2> SUFFICES ASSUME Tail(jobs) # <<>> PROVE Untried(Tail(jobs)[1])
    OBVIOUS
  <2>1. Tail(jobs) \in Seq(Jobs)
    BY <1>0, Rest
  <2>2. 1 \in 1..Len(Tail(jobs))
    BY <2>1, Elements
  <2> QED BY <1>0, <2>2, WorksTail
<1>3. Sound(client', task', Issued)
  <2>1. CASE j.task = "none"
    <3>1. Works(Tail(jobs), g, task) /\ Grows(Tail(jobs), jobs, cl[g].open)
      <4> HIDE DEF jobs
      <4> QED BY <1>0, WorksTail, GrowsTail
    <3>2. Offers(Tail(jobs), jobs, cl[g].open) /\ task' = task
      BY <2>1, <3>1 DEF Grows
    <3>3. Sound(client', task, Issued)
      BY <1>0, <1>1, <3>1, <3>2, Unwaited
    <3> QED BY <3>2, <3>3
  <2>2. CASE j.task # "none"
    <3> DEFINE t == j.task
    <3>1. /\ task' = [task EXCEPT ![t] = w] /\ w \in Coroutines /\ w.at = task[t].at
          /\ w.gen = task[t].gen /\ (w.out = "crash" => pulled)
          /\ w.aw = CASE j.op = "open" -> "opened" [] j.op = "close" -> "closed" [] OTHER -> "back"
      BY <2>2 DEF Outcome
    <3>2. t = cl[g].jobs[1].task /\ t # "none"
      BY <2>2
    <3> HIDE DEF t
    <3>3. Sound(client', [task EXCEPT ![t] = w], Issued)
      BY <1>0, <1>1, <3>1, <3>2, Finishes
    <3> QED BY <3>1, <3>3
  <2> QED BY <2>1, <2>2
<1> QED BY <1>1, <1>2, <1>3 DEF Only

\* What a session may still do.
Lefts == [writes : 0..use.writes, losses : 0..use.losses, cuts : 0..use.cuts,
          raw : BOOLEAN, reconf : 0..use.reconf]

\* A step at the transport of client g keeps the invariant when it keeps these parts of it.
LEMMA WireCarried ==
  ASSUME TypeOK, UNCHANGED <<use, cable, host, pulled, revived>>, Steady(client), NEW g \in Gen,
         pipe' \in [Gen -> Pipe], \A h \in Gen : h # g => pipe'[h] = pipe[h],
         device' \in [ram : 0..use.writes, flash : 0..use.writes],
         device'.ram <= Issued, device'.flash <= Issued,
         left' \in Lefts, left'.writes = left.writes, left'.reconf = left.reconf,
         left'.losses <= left.losses,
         overtaken' \in BOOLEAN, failed' \in BOOLEAN, crossed' \in BOOLEAN,
         Typed(client', task'), Shape(client', task'), Lively(client', task'),
         Fresh(client', task'), Ordered(client', task', Issued),
         Sent(pipe'[g].req, client'[g].queue, Issued), Past(client)',
         use.cuts = 0 =>
           /\ Keeps(client'[host.cur])
           /\ g >= host.cur => ~pipe'[g].dead
           /\ IF g = host.cur THEN Paid(client[g], pipe[g])'
              ELSE Paid(client'[host.cur], pipe[host.cur])
  PROVE  TypeOK' /\ Sound(client, task, Issued)'
<1>0. /\ host.cur \in Gen /\ Gen' = Gen /\ Tasks' = Tasks /\ Issued' = Issued
      /\ left.losses \in Nat /\ left'.losses \in Nat /\ use.losses \in Nat
  <2>1. /\ left.losses \in 0..use.losses /\ left'.losses \in 0..use.losses
        /\ use.losses \in Nat /\ host.cur \in Gen
    BY StateIs, UseIs DEF Lefts
  <2> QED BY <2>1 DEF Gen, Tasks, Issued
<1>1. TypeOK'
  BY <1>0 DEF TypeOK, Typed, Hosts, Client, Jobs, Coroutines, Pipe, Requests, Lefts
<1>2. Typed(client, task)' /\ Shape(client, task)' /\ Lively(client, task)'
  BY <1>0 DEF Typed, Shape, Lively, Client, Jobs, Coroutines, Placed
<1>3. Fresh(client, task)'
  BY <1>0 DEF Fresh, NewClient
<1>4. Ordered(client, task, Issued)'
  <2>1. \A h \in Gen : Ascending(client'[h].queue) /\ Sent(pipe'[h].req, client'[h].queue, Issued)
    BY DEF Ordered
  <2>2. \A a \in 1..Len(Writers) : a > Issued => task'[Writers[a]] = Idle
    BY DEF Ordered
  <2>3. (device.ram <= Issued /\ device.flash <= Issued)'
    BY <1>0
  <2> QED BY <1>0, <2>1, <2>2, <2>3 DEF Ordered, Idle
<1>5. Steady(client)'
  <2> SUFFICES ASSUME use.cuts = 0 PROVE Steady(client)'
    BY DEF Steady
  <2>1. cable /\ (\A h \in Gen : h >= host.cur => ~pipe[h].dead) /\ Keeps(client'[host.cur])
    BY DEF Steady
  <2>2. \A h \in Gen : h >= host.cur => ~pipe'[h].dead
    BY <2>1
  <2>3. Paid(client[host.cur], pipe[host.cur])'
    <3>1. CASE g = host.cur
      BY <3>1
    <3>2. CASE g # host.cur
      <4>1. Paid(client'[host.cur], pipe'[host.cur])
        BY <1>0, <3>2
      <4> DEFINE c == client'[host.cur]
                 p == pipe'[host.cur]
      <4>2. c.jobs # <<>> => /\ c.jobs[1].try <= Spent + 1
                             /\ c.jobs[1].st = "wait" /\ Lost(p) => c.jobs[1].try <= Spent
        BY <4>1 DEF Paid, Covered
      <4>3. Typed(client', task') /\ c \in Client
        BY <1>0 DEF Typed
      <4>4. c.jobs \in Seq(Jobs)
        BY <4>3, ClientIs
      <4> HIDE DEF c, p
      <4>5. c.jobs # <<>> => c.jobs[1] \in Jobs
        BY <4>4, Elements
      <4>6. c.jobs # <<>> => c.jobs[1].try \in Nat
        BY <4>5, LimitAssumption, JobIs
      <4>7. Spent \in Nat /\ Spent <= Spent' /\ Spent' \in Int
        BY <1>0, StateIs DEF Spent
      <4>8. c.jobs # <<>> => /\ c.jobs[1].try <= Spent' + 1
                             /\ c.jobs[1].st = "wait" /\ Lost(p) => c.jobs[1].try <= Spent'
        BY <4>2, <4>6, <4>7
      <4> QED BY <4>8 DEF Paid, Covered, c, p
    <3> QED BY <3>1, <3>2
  <2>4. Keeps(client[host.cur])'
    BY <2>1 DEF Keeps, Serves
  <2> QED BY <1>0, <2>1, <2>2, <2>3, <2>4 DEF Steady
<1> QED BY <1>1, <1>2, <1>3, <1>4, <1>5 DEF Sound

\* A transport that sends nothing more keeps the order of the writes.
LEMMA ReqKept ==
  ASSUME TypeOK, UNCHANGED <<use, host, device, revived>>, NEW g \in Gen,
         \A h \in Gen : h # g => pipe'[h] = pipe[h],
         pipe'[g].req = pipe[g].req \/ pipe'[g].req = <<>>,
         NEW tk, Ordered(client', tk, Issued), Past(client')
  PROVE  /\ Sent(pipe'[g].req, client'[g].queue, Issued) /\ Past(client)'
         /\ device' \in [ram : 0..use.writes, flash : 0..use.writes]
         /\ device'.ram <= Issued /\ device'.flash <= Issued
<1>0. Len(<<>>) = 0 /\ host.cur \in Gen /\ Gen' = Gen
  BY Nothing, StateIs DEF Gen
<1>1. Sent(pipe'[g].req, client'[g].queue, Issued)
  <2>1. Sent(pipe[g].req, client'[g].queue, Issued)
    BY DEF Ordered
  <2>2. Sent(<<>>, client'[g].queue, Issued)
    BY <1>0 DEF Sent
  <2> QED BY <2>1, <2>2
<1>2. device' \in [ram : 0..use.writes, flash : 0..use.writes]
      /\ device'.ram <= Issued /\ device'.flash <= Issued
  BY DEF TypeOK, Ordered
<1>3. ASSUME ~revived PROVE Past(client)'
  <2>1. /\ device.flash <= device.ram /\ Floor(pipe[host.cur].req, client'[host.cur].queue)
        /\ \A h \in Gen : h # host.cur => ~client'[h].open /\ pipe[h].req = <<>>
    BY <1>3 DEF Past
  <2>2. Floor(pipe'[host.cur].req, client'[host.cur].queue)
    BY <1>0, <2>1 DEF Floor
  <2>3. \A h \in Gen : h # host.cur => ~client'[h].open /\ pipe'[h].req = <<>>
    BY <2>1
  <2>4. Floor(pipe[host.cur].req, client[host.cur].queue)'
    BY <2>2 DEF Floor
  <2> QED BY <1>0, <2>1, <2>3, <2>4 DEF Past
<1>4. revived => Past(client)'
  BY DEF Past
<1> QED BY <1>1, <1>2, <1>3, <1>4

\* What the coroutine that waits for the first job is left with.
Turned(w, aw, out) == [w EXCEPT !.aw = aw, !.out = out]
\* The coroutine that waits for the first job is the one the worker answers.
LEMMA TurnedIs ==
  ASSUME TypeOK, Sound(client, task, Issued), NEW g \in Gen, Working(g), Top(g).task # "none",
         NEW aw, aw = (IF Top(g).op = "open" THEN "opened" ELSE "back"), Top(g).op # "close",
         NEW out \in {"ok", "fail", "crash"}, out = "crash" => pulled
  PROVE  LET w == task[Top(g).task]
         IN  /\ Outcome(Turned(w, aw, out), w, Top(g).op) /\ Served(Top(g), g, w)
             /\ Top(g).task \in Tasks
<1> DEFINE t == Top(g).task
           w == task[t]
           op == Top(g).op
<1>1. t \in Tasks /\ task \in [Tasks -> Coroutines] /\ JobOK(Top(g), g, task) /\ use \in Uses
  BY TopAre, StateIs
<1>2. w \in Coroutines /\ Served(Top(g), g, w) /\ aw \in {"back", "opened"} /\ op # "close"
  BY <1>1 DEF JobOK
<1>3. aw = (IF op = "open" THEN "opened" ELSE "back")
  OBVIOUS
<1> HIDE DEF w, op
<1>4. Turned(w, aw, out) \in Coroutines
  BY <1>1, <1>2, CoroutineTyped DEF Turned
<1>5. /\ Turned(w, aw, out).at = w.at /\ Turned(w, aw, out).gen = w.gen
      /\ Turned(w, aw, out).aw = aw /\ Turned(w, aw, out).out = out
  BY <1>2 DEF Coroutines, Turned
<1>6. Outcome(Turned(w, aw, out), w, op)
  BY <1>2, <1>3, <1>4, <1>5 DEF Outcome
<1> QED BY <1>1, <1>2, <1>6 DEF w, op

\* The worker is done with its first job: every part of the invariant holds of the old transport.
LEMMA FinishIs ==
  ASSUME TypeOK, Sound(client, task, Issued), NEW g \in Gen, Working(g),
         NEW cl, cl = client \/ (cl = Broken(g) /\ (use.cuts # 0 \/ g # host.cur)),
         NEW out \in {"ok", "fail", "crash"},
         NEW aw, aw = (IF Top(g).op = "open" THEN "opened" ELSE "back"), Top(g).op # "close",
         out = "crash" /\ Top(g).task # "none" => pulled,
         Finish(g, cl, aw, out)
  PROVE  /\ Sound(client', task', Issued)
         /\ client'[g].jobs # <<>> => Untried(client'[g].jobs[1])
         /\ \A h \in Gen : h # g => client'[h] = client[h]
<1> DEFINE j == Top(g)
           t == j.task
           w == Turned(task[t], aw, out)
<1>0. /\ client \in [Gen -> Client] /\ task \in [Tasks -> Coroutines] /\ g <= host.cur
      /\ client[g].jobs # <<>> /\ j = client[g].jobs[1] /\ j.task \in Tasks \cup {"none"}
      /\ Issued \in Nat /\ client[g] \in Client
  BY TopAre, StateIs, UseIs
<1>1. /\ Sound(cl, task, Issued) /\ cl[g].jobs = client[g].jobs
      /\ \A h \in Gen : h # g => cl[h] = client[h]
  <2>1. CASE cl = client
    BY <2>1
  <2>2. CASE cl = Broken(g) /\ (use.cuts # 0 \/ g # host.cur)
    <3> DEFINE b == client[g].broken \/ j.op # "raw"
    <3>1. b \in BOOLEAN /\ cl = [client EXCEPT ![g].broken = b]
      BY <1>0, <2>2 DEF Broken
    <3> HIDE DEF b
    <3> DEFINE cb == [client EXCEPT ![g].broken = b]
    <3>2. /\ Sound(cb, task, Issued) /\ cb[g].jobs = client[g].jobs
          /\ \A h \in Gen : h # g => cb[h] = client[h]
      BY <1>0, <2>2, <3>1, SetsBroken
    <3> QED BY <3>1, <3>2
  <2> QED BY <2>1, <2>2
<1>2. client' = Tail1(cl, g) /\ task' = IF t = "none" THEN task ELSE [task EXCEPT ![t] = w]
  BY <1>0 DEF Finish, Turned
<1> HIDE DEF w
<1>5. j.task # "none" => Outcome(w, task[j.task], j.op)
  BY TurnedIs DEF w
<1>6. cl[g].jobs # <<>> /\ j = cl[g].jobs[1]
  BY <1>0, <1>1
<1> HIDE DEF j
<1>7. /\ Sound(client', task', Issued)
      /\ client'[g].jobs # <<>> => Untried(client'[g].jobs[1])
      /\ \A h \in Gen : h # g => client'[h] = cl[h]
  BY <1>1, <1>2, <1>5, <1>6, WorkerDone
<1> QED BY <1>1, <1>7

\* A worker that is done keeps the invariant, whatever becomes of the transport.
LEMMA WorkerCarried ==
  ASSUME TypeOK, Sound(client, task, Issued), NEW g \in Gen, Sound(client', task', Issued),
         UNCHANGED <<use, cable, host, device, pulled, overtaken, revived>>,
         failed' \in BOOLEAN, crossed' \in BOOLEAN,
         left' \in Lefts, left'.writes = left.writes, left'.reconf = left.reconf,
         left'.losses <= left.losses,
         pipe' \in [Gen -> Pipe], \A h \in Gen : h # g => pipe'[h] = pipe[h],
         pipe'[g].req = pipe[g].req \/ pipe'[g].req = <<>>,
         use.cuts = 0 /\ g >= host.cur => ~pipe'[g].dead,
         client'[g].jobs # <<>> => Untried(client'[g].jobs[1])
  PROVE  TypeOK' /\ Sound(client, task, Issued)'
<1>1. /\ Typed(client', task') /\ Shape(client', task') /\ Lively(client', task')
      /\ Fresh(client', task') /\ Ordered(client', task', Issued) /\ Past(client')
      /\ Steady(client') /\ Steady(client)
  BY DEF Sound
<1>2. /\ Sent(pipe'[g].req, client'[g].queue, Issued) /\ Past(client)'
      /\ device' \in [ram : 0..use.writes, flash : 0..use.writes]
      /\ device'.ram <= Issued /\ device'.flash <= Issued
  BY <1>1, ReqKept
<1>3. left'.losses \in 0..use.losses /\ use.losses \in Nat /\ overtaken \in BOOLEAN
  BY StateIs, UseIs DEF Lefts
<1>4. Paid(client[g], pipe[g])'
  <2>1. Spent' \in Nat
    BY <1>3 DEF Spent
  <2> QED BY <2>1 DEF Paid, Covered, Untried
<1>5. use.cuts = 0 =>
        /\ Keeps(client'[host.cur])
        /\ g >= host.cur => ~pipe'[g].dead
        /\ IF g = host.cur THEN Paid(client[g], pipe[g])'
           ELSE Paid(client'[host.cur], pipe[host.cur])
  BY <1>1, <1>4 DEF Steady
<1>6. overtaken' \in BOOLEAN
  BY <1>3
<1> QED BY <1>1, <1>2, <1>5, <1>6, WireCarried

\* What a step of the worker leaves as it is.
LEMMA WireKeepsAre ==
  ASSUME TypeOK, WireKeeps
  PROVE  /\ UNCHANGED <<use, cable, host, device, pulled, overtaken, revived>>
         /\ failed' \in BOOLEAN /\ left' \in Lefts /\ left'.writes = left.writes
         /\ left'.reconf = left.reconf /\ left'.losses <= left.losses
<1>1. left.losses \in 0..use.losses /\ left'.losses = left.losses
  BY StateIs DEF WireKeeps
<1>2. left'.losses <= left.losses
  BY <1>1
<1> QED BY <1>2 DEF TypeOK, WireKeeps, Lefts

\* The worker opens a transport.
LEMMA OpenKeeps ==
  ASSUME TypeOK, Sound(client, task, Issued), NEW g \in Gen, OpenTransport(g)
  PROVE  TypeOK' /\ Sound(client, task, Issued)'
<1> DEFINE out == IF cable THEN "ok" ELSE "fail"
<1>1. /\ Working(g) /\ Top(g).op = "open" /\ Finish(g, client, "opened", out)
      /\ pipe' = [pipe EXCEPT ![g] = NewPipe] /\ WireKeeps /\ crossed' = crossed
  BY DEF OpenTransport, WorkerKeeps
<1>2. out \in {"ok", "fail", "crash"} /\ out # "crash"
  OBVIOUS
<1> HIDE DEF out
<1>3. /\ Sound(client', task', Issued)
      /\ client'[g].jobs # <<>> => Untried(client'[g].jobs[1])
  BY <1>1, <1>2, FinishIs
<1>4. pipe \in [Gen -> Pipe] /\ crossed' \in BOOLEAN
  BY <1>1, StateIs
<1>5. pipe' \in [Gen -> Pipe] /\ pipe'[g] = NewPipe /\ \A h \in Gen : h # g => pipe'[h] = pipe[h]
  BY <1>1, <1>4, NewTyped
<1>6. pipe'[g].req = <<>> /\ ~pipe'[g].dead
  BY <1>5, NewTyped
<1> QED BY <1>1, <1>3, <1>4, <1>5, <1>6, WireKeepsAre, WorkerCarried

\* The worker closes one.
LEMMA CloseKeeps ==
  ASSUME TypeOK, Sound(client, task, Issued), NEW g \in Gen, CloseTransport(g)
  PROVE  TypeOK' /\ Sound(client, task, Issued)'
<1> DEFINE j == Top(g)
           t == j.task
           w == [task[t] EXCEPT !.aw = "closed"]
           dead == [NewPipe EXCEPT !.dead = TRUE]
<1>1. /\ Working(g) /\ j.op = "close" /\ client' = Tail1(client, g)
      /\ task' = IF t = "none" THEN task ELSE [task EXCEPT ![t].aw = "closed"]
      /\ pipe' = [pipe EXCEPT ![g] = dead] /\ WireKeeps /\ crossed' = crossed
  BY DEF CloseTransport, WorkerKeeps
<1>2. /\ client[g].jobs # <<>> /\ j = client[g].jobs[1] /\ t \in Tasks \cup {"none"}
      /\ task \in [Tasks -> Coroutines] /\ JobOK(j, g, task) /\ use \in Uses
      /\ client[g].jobs \in Seq(Jobs) /\ g <= host.cur /\ 1 \in 1..Len(client[g].jobs)
      /\ pipe \in [Gen -> Pipe] /\ host.cur \in Nat /\ g \in Nat /\ host.cur \in Gen
      /\ Lively(client, task) /\ Steady(client)
  BY <1>1, TopAre, StateIs, UseIs DEF Sound
<1>3. task' = IF t = "none" THEN task ELSE [task EXCEPT ![t] = w]
  BY <1>1, <1>2
<1>4. t # "none" => Outcome(w, task[t], j.op)
  <2> SUFFICES ASSUME t # "none" PROVE Outcome(w, task[t], j.op)
    OBVIOUS
  <2>1. t \in Tasks /\ task[t] \in Coroutines
    BY <1>2
  <2>2. w \in Coroutines
    BY <1>2, <2>1, CoroutineTyped
  <2>3. w.at = task[t].at /\ w.gen = task[t].gen /\ w.out = task[t].out /\ w.aw = "closed"
    BY <2>1 DEF Coroutines
  <2>4. task[t].out = "crash" => pulled
    BY <1>2, <2>1 DEF Lively
  <2> HIDE DEF w, t
  <2> QED BY <1>1, <2>2, <2>3, <2>4 DEF Outcome
<1> HIDE DEF w, j
<1>5. Sound(client', task', Issued) /\ (client'[g].jobs # <<>> => Untried(client'[g].jobs[1]))
  <2>1. /\ task' = IF j.task = "none" THEN task ELSE [task EXCEPT ![j.task] = w]
        /\ j.task # "none" => Outcome(w, task[j.task], j.op)
        /\ j = client[g].jobs[1] /\ client[g].jobs # <<>> /\ client' = Tail1(client, g)
    BY <1>1, <1>2, <1>3, <1>4
  <2> QED BY ONLY <2>1, WorkerDone, TypeOK, Sound(client, task, Issued), g \in Gen
<1>6. pipe' \in [Gen -> Pipe] /\ pipe'[g].req = <<>> /\ \A h \in Gen : h # g => pipe'[h] = pipe[h]
  BY <1>1, <1>2, NewTyped
<1>7. use.cuts = 0 /\ g >= host.cur => FALSE
  <2>1. use.cuts = 0 => Keeps(client[host.cur])
    BY <1>2 DEF Steady
  <2>2. use.cuts = 0 => g # host.cur
    BY <1>1, <1>2, <2>1 DEF Keeps
  <2> QED BY <1>2, <2>2
<1>8. crossed' \in BOOLEAN
  BY <1>1, StateIs
<1> QED BY <1>1, <1>5, <1>6, <1>7, <1>8, WireKeepsAre, WorkerCarried

\* The first job is as it was but for its attempts.
LEMMA TopChanges ==
  ASSUME TypeOK, Sound(client, task, Issued), NEW g \in Gen, Working(g),
         Top(g).op \notin {"open", "close"},
         NEW x \in Jobs, x.task = Top(g).task, x.op = Top(g).op, x.op = "raw" => x.try = 1,
         client' = [client EXCEPT ![g].jobs = <<x>> \o Tail(@)], task' = task
  PROVE  /\ Typed(client', task') /\ Shape(client', task') /\ Lively(client', task')
         /\ Fresh(client', task') /\ Ordered(client', task', Issued) /\ Past(client')
         /\ Keeps(client[host.cur]) => Keeps(client'[host.cur])
         /\ client'[g].queue = client[g].queue /\ client'[g].jobs[1] = x
         /\ client'[g].open = client[g].open
         /\ \A h \in Gen : h # g => client'[h] = client[h]
<1> DEFINE jobs == client[g].jobs
           p == <<x>> \o Tail(jobs)
<1>0. /\ client \in [Gen -> Client] /\ jobs \in Seq(Jobs) /\ jobs # <<>> /\ Top(g) = jobs[1]
      /\ Works(jobs, g, task) /\ Issued \in Nat /\ 1 \in 1..Len(jobs)
  BY TopAre, StateIs, UseIs
<1>1. Only(client', client, g, client[g].queue, p)
  BY <1>0, TopIs
<1> HIDE DEF jobs
<1>2. /\ Len(p) = Len(jobs) /\ p[1] = x /\ \A i \in 2..Len(jobs) : p[i] = jobs[i]
  BY <1>0, Headed
<1>3. Works(p, g, task)
  BY <1>0, WorksTop
<1>4. Offers(p, jobs, client[g].open)
  <2> HIDE DEF p
  <2>1. Len(jobs) \in Nat
    BY <1>0, Elements
  <2>2. \A i \in 1..Len(p) : i = 1 \/ i \in 2..Len(jobs)
    BY <1>2, <2>1
  <2>3. \A i \in 1..Len(p) : i \in 1..Len(jobs) /\ p[i].op = jobs[i].op
    BY <1>0, <1>2, <2>2
  <2> QED BY <2>3 DEF Offers
<1> HIDE DEF p
<1>5. /\ Typed(client', task) /\ Shape(client', task) /\ Lively(client', task)
      /\ Fresh(client', task) /\ Ordered(client', task, Issued) /\ Past(client')
      /\ Keeps(client[host.cur]) => Keeps(client'[host.cur])
  BY <1>0, <1>1, <1>3, <1>4, Unwaited DEF jobs
<1> QED BY <1>1, <1>2, <1>5 DEF Only

\* A request joins those under way after the writes that came before it.
LEMMA Sends ==
  ASSUME TypeOK, Sound(client, task, Issued), NEW g \in Gen, Working(g),
         Top(g).op \notin {"open", "close"}
  PROVE  LET r == [op |-> Top(g).op, by |-> Top(g).task]
             req == pipe[g].req
             q == client[g].queue
         IN  /\ r \in Requests /\ Sent(Append(req, r), q, Issued)
             /\ Floor(req, q) => Floor(Append(req, r), q)
<1> DEFINE j == Top(g)
           r == [op |-> Top(g).op, by |-> Top(g).task]
           req == pipe[g].req
           q == client[g].queue
           p == Append(req, r)
           n == Issued
<1>0. /\ client \in [Gen -> Client] /\ task \in [Tasks -> Coroutines] /\ pipe \in [Gen -> Pipe]
      /\ j \in Jobs /\ JobOK(j, g, task) /\ j.task \in Tasks \cup {"none"}
      /\ Shape(client, task) /\ Typed(client, task) /\ Ordered(client, task, n)
      /\ n \in Nat /\ Len(Writers) \in Nat
  BY TopAre, StateIs, UseIs, WritersAre DEF Sound
<1>1. req \in Seq(Requests) /\ q \in Seq(Tasks)
  BY <1>0, PipeIs, ClientIs
<1>2. j.op \in Commands
  BY <1>0, JobIs DEF Ops
<1>3. r \in Requests /\ r.op = j.op /\ r.by = j.task
  BY <1>0, <1>2 DEF Requests
<1>4. /\ Len(p) = Len(req) + 1 /\ p[Len(req) + 1] = r
      /\ \A i \in 1..Len(req) : p[i] = req[i]
      /\ \A i \in 1..Len(p) : i \in 1..Len(req) \/ i = Len(req) + 1
  <2> HIDE DEF req, r
  <2> QED BY <1>1, <1>3, Added
<1>5. Len(req) \in Nat
  BY <1>1, Elements
<1>6. Ascending(q) /\ Sent(req, q, n)
  BY <1>0 DEF Ordered
<1>7. ASSUME j.op = "set"
      PROVE  \E A \in 1..Len(Writers) :
               /\ A \in 1..n /\ Sets(r, A) /\ q[1] = Writers[A] /\ 1 \in 1..Len(q)
               /\ \A a \in 1..Len(Writers) : Sets(r, a) \/ q[1] = Writers[a] => a = A
  <2> DEFINE t == j.task
  <2>1. t \in Tasks /\ Served(j, g, task[t])
    BY <1>0, <1>7 DEF JobOK
  <2>2. task[t].at = "set" /\ task[t].gen = g /\ task[t].aw = "exec" /\ Fit(t, task[t])
    BY <1>0, <1>7, <2>1 DEF Served, Shape
  <2>3. t \notin {"poll", "save", "update"}
    BY <2>2, AtsAre DEF Fit
  <2>4. PICK A \in 1..Len(Writers) : t = Writers[A]
    BY <2>1, <2>3, TasksAre
  <2>5. q # <<>> /\ q[1] = t
    BY <1>0, <2>1, <2>2, Holder DEF Locks
  <2>6. 1 \in 1..Len(q)
    <3> HIDE DEF q
    <3> QED BY <1>1, <2>5, Elements
  <2>7. A <= n
    BY <1>0, <2>2, <2>4 DEF Ordered, Idle
  <2>8. A \in 1..n
    BY <1>0, <2>7
  <2>9. \A a \in 1..Len(Writers) : t = Writers[a] => a = A
    BY <2>4, WritersAre
  <2> QED BY <1>3, <1>7, <2>4, <2>5, <2>6, <2>8, <2>9 DEF Sets
<1>8. j.op # "set" => \A a : ~Sets(r, a)
  BY <1>3 DEF Sets
<1> HIDE DEF j, r, req, q, p, n
<1>9. Sent(p, q, n) /\ (Floor(req, q) => Floor(p, q))
  <2>1. CASE j.op # "set"
    <3>1. /\ \A i \in 1..Len(p) : p[i].op = "set" => \E a \in 1..n : Sets(p[i], a)
      BY <1>3, <1>4, <1>6, <2>1 DEF Sent
    <3>2. \A i, k \in 1..Len(p) : \A a, b \in 1..Len(Writers) :
             i < k /\ Sets(p[i], a) /\ Sets(p[k], b) => a <= b
      BY <1>4, <1>6, <1>8, <2>1 DEF Sent
    <3>3. \A i \in 1..Len(p), k \in 1..Len(q) : \A a, b \in 1..Len(Writers) :
             Sets(p[i], a) /\ q[k] = Writers[b] => a <= b
      BY <1>4, <1>6, <1>8, <2>1 DEF Sent
    <3>4. Floor(req, q) => Floor(p, q)
      BY <1>4, <1>8, <2>1 DEF Floor
    <3> QED BY <3>1, <3>2, <3>3, <3>4 DEF Sent
  <2>2. CASE j.op = "set"
    <3>1. PICK A \in 1..Len(Writers) :
               /\ A \in 1..n /\ Sets(r, A) /\ q[1] = Writers[A] /\ 1 \in 1..Len(q)
               /\ \A a \in 1..Len(Writers) : Sets(r, a) \/ q[1] = Writers[a] => a = A
      BY <1>7, <2>2
    <3>2. /\ \A i \in 1..Len(p) : p[i].op = "set" => \E a \in 1..n : Sets(p[i], a)
      BY <1>4, <1>6, <3>1 DEF Sent
    <3>3. \A i, k \in 1..Len(p) : \A a, b \in 1..Len(Writers) :
             i < k /\ Sets(p[i], a) /\ Sets(p[k], b) => a <= b
      <4> SUFFICES ASSUME NEW i \in 1..Len(p), NEW k \in 1..Len(p),
                          NEW a \in 1..Len(Writers), NEW b \in 1..Len(Writers),
                          i < k, Sets(p[i], a), Sets(p[k], b)
                   PROVE  a <= b
        OBVIOUS
      <4>1. i \in 1..Len(req)
        BY <1>4, <1>5
      <4>2. CASE k \in 1..Len(req)
        BY <1>4, <1>6, <4>1, <4>2 DEF Sent
      <4>3. CASE k = Len(req) + 1
        <5>1. b = A /\ Sets(req[i], a)
          BY <1>4, <3>1, <4>1, <4>3
        <5> QED BY <1>6, <3>1, <4>1, <5>1 DEF Sent
      <4> QED BY <1>4, <4>2, <4>3
    <3>4. \A i \in 1..Len(p), k \in 1..Len(q) : \A a, b \in 1..Len(Writers) :
             Sets(p[i], a) /\ q[k] = Writers[b] => a <= b
      <4> SUFFICES ASSUME NEW i \in 1..Len(p), NEW k \in 1..Len(q),
                          NEW a \in 1..Len(Writers), NEW b \in 1..Len(Writers),
                          Sets(p[i], a), q[k] = Writers[b]
                   PROVE  a <= b
        OBVIOUS
      <4>1. CASE i \in 1..Len(req)
        BY <1>4, <1>6, <4>1 DEF Sent
      <4>2. CASE i = Len(req) + 1
        <5>1. a = A
          BY <1>4, <3>1, <4>2
        <5>2. k = 1 => b = A
          BY <3>1
        <5>3. k # 1 => 1 < k
          <6>1. Len(q) \in Nat
            BY <1>1, Elements
          <6> QED BY <6>1
        <5>4. k # 1 => A < b
          BY <1>6, <3>1, <5>3 DEF Ascending
        <5> QED BY <5>1, <5>2, <5>4, <1>0
      <4> QED BY <1>4, <4>1, <4>2
    <3>5. Floor(req, q) => Floor(p, q)
      <4> SUFFICES ASSUME Floor(req, q) PROVE Floor(p, q)
        OBVIOUS
      <4>1. device.ram <= A
        BY <3>1 DEF Floor
      <4>2. \A i \in 1..Len(p) : \A a \in 1..Len(Writers) : Sets(p[i], a) => device.ram <= a
        BY <1>4, <3>1, <4>1 DEF Floor
      <4> QED BY <4>2 DEF Floor
    <3> QED BY <3>2, <3>3, <3>4, <3>5 DEF Sent
  <2> QED BY <2>1, <2>2
<1> QED BY <1>3, <1>9 DEF p, r, req, q, n

\* An attempt begins: the request goes out, or the transport is gone.
LEMMA SendKeeps ==
  ASSUME TypeOK, Sound(client, task, Issued), NEW g \in Gen, Working(g),
         Top(g).op \notin {"open", "close"}, Top(g).st = "ready", client[g].open, ~pipe[g].dead,
         client' = [client EXCEPT ![g].jobs = <<[Top(g) EXCEPT !.st = "wait"]>> \o Tail(@)],
         pipe' = [pipe EXCEPT ![g].ans = <<>>,
                              ![g].req = Append(@, [op |-> Top(g).op, by |-> Top(g).task])],
         task' = task, crossed' \in BOOLEAN, WireKeeps
  PROVE  TypeOK' /\ Sound(client, task, Issued)'
<1> DEFINE j == Top(g)
           x == [j EXCEPT !.st = "wait"]
           r == [op |-> Top(g).op, by |-> Top(g).task]
           req == pipe[g].req
           q == client[g].queue
<1>0. /\ j \in Jobs /\ JobOK(j, g, task) /\ client \in [Gen -> Client] /\ pipe \in [Gen -> Pipe]
      /\ pipe[g] \in Pipe /\ j = client[g].jobs[1] /\ client[g].jobs # <<>>
      /\ Past(client) /\ Steady(client) /\ host.cur \in Gen /\ g <= host.cur
      /\ LimitAssumption
      /\ device \in [ram : 0..use.writes, flash : 0..use.writes] /\ Ordered(client, task, Issued)
  BY TopAre, StateIs, LimitAssumption DEF Sound, TypeOK
<1>1. x \in Jobs /\ x.task = j.task /\ x.op = j.op /\ x.try = j.try /\ x.st = "wait"
  BY <1>0 DEF Jobs
<1>2. x.op = "raw" => x.try = 1
  BY <1>0, <1>1 DEF JobOK
<1> HIDE DEF x
<1>3. /\ Typed(client', task') /\ Shape(client', task') /\ Lively(client', task')
      /\ Fresh(client', task') /\ Ordered(client', task', Issued) /\ Past(client')
      /\ Keeps(client[host.cur]) => Keeps(client'[host.cur])
      /\ client'[g].queue = client[g].queue /\ client'[g].jobs[1] = x
      /\ client'[g].open = client[g].open
      /\ \A h \in Gen : h # g => client'[h] = client[h]
  <2>1. client' = [client EXCEPT ![g].jobs = <<x>> \o Tail(@)]
    BY DEF x
  <2> QED BY <1>1, <1>2, <2>1, TopChanges
<1>4. /\ r \in Requests /\ Sent(Append(req, r), q, Issued)
      /\ (Floor(req, q) => Floor(Append(req, r), q))
  BY Sends
<1>5. req \in Seq(Requests)
  BY <1>0, PipeIs
<1>6. Append(req, r) \in Seq(Requests) /\ Append(req, r) # <<>>
  <2> HIDE DEF req, r
  <2> QED BY <1>4, <1>5, Added
<1>7. /\ pipe' \in [Gen -> Pipe] /\ pipe'[g].req = Append(req, r) /\ pipe'[g].ans = <<>>
      /\ pipe'[g].dead = pipe[g].dead /\ \A h \in Gen : h # g => pipe'[h] = pipe[h]
  <2> DEFINE p2 == [pipe[g] EXCEPT !.ans = <<>>, !.req = Append(req, r)]
  <2>1. pipe' = [pipe EXCEPT ![g] = p2]
    BY <1>0
  <2>2. /\ p2.req = Append(req, r) /\ p2.ans = <<>> /\ p2.dead = pipe[g].dead
        /\ p2 \in Pipe
    <3>1. <<>> \in Seq({"ok", "garbled", "glitch"})
      BY Nothing
    <3> HIDE DEF req, r
    <3> QED BY <1>0, <1>6, <3>1 DEF Pipe
  <2> HIDE DEF p2
  <2> QED BY <1>0, <2>1, <2>2
<1> HIDE DEF r, req
<1>8. Sent(pipe'[g].req, client'[g].queue, Issued)
  BY <1>3, <1>4, <1>7
<1>9. /\ UNCHANGED <<use, cable, host, device, pulled, overtaken, revived>>
      /\ failed' \in BOOLEAN /\ left' \in Lefts /\ left'.writes = left.writes
      /\ left'.reconf = left.reconf /\ left'.losses <= left.losses /\ left' = left /\ Gen' = Gen
  BY WireKeepsAre DEF WireKeeps, Gen
<1>10. Past(client)'
  <2>1. CASE revived
    BY <1>9, <2>1 DEF Past
  <2>2. CASE ~revived
    <3>1. /\ device.flash <= device.ram /\ Floor(pipe[host.cur].req, client[host.cur].queue)
          /\ \A h \in Gen : h # host.cur => ~client[h].open /\ pipe[h].req = <<>>
      BY <1>0, <2>2 DEF Past
    <3>2. g = host.cur
      BY <3>1
    <3>3. Floor(pipe'[g].req, client'[g].queue)
      BY <1>3, <1>4, <1>7, <3>1, <3>2 DEF req
    <3>4. \A h \in Gen : h # host.cur => ~client'[h].open /\ pipe'[h].req = <<>>
      BY <1>3, <1>7, <3>1, <3>2
    <3>5. Floor(pipe[host.cur].req, client[host.cur].queue)'
      BY <1>9, <3>2, <3>3 DEF Floor
    <3>6. (device.flash <= device.ram)'
      BY <1>9, <3>1
    <3>7. (\A h \in Gen : h # host.cur => ~client[h].open /\ pipe[h].req = <<>>)'
      BY <1>9, <3>4
    <3> QED BY <3>5, <3>6, <3>7 DEF Past
  <2> QED BY <2>1, <2>2
<1>11. ASSUME use.cuts = 0
       PROVE  /\ Keeps(client'[host.cur])
              /\ g >= host.cur => ~pipe'[g].dead
              /\ IF g = host.cur THEN Paid(client[g], pipe[g])'
                 ELSE Paid(client'[host.cur], pipe[host.cur])
  <2>1. Keeps(client[host.cur]) /\ Paid(client[host.cur], pipe[host.cur])
    BY <1>0, <1>11 DEF Steady
  <2>2. CASE g # host.cur
    BY <1>0, <1>3, <1>7, <2>1, <2>2
  <2>3. CASE g = host.cur
    <3>1. j.try <= Spent + 1
      BY <1>0, <2>1, <2>3 DEF Paid, Covered
    <3>2. Spent' = Spent
      BY <1>9 DEF Spent
    <3>3. (~Lost(pipe[g]))'
      BY <1>6, <1>7 DEF Lost
    <3>4. Paid(client[g], pipe[g])'
      BY <1>1, <1>3, <3>1, <3>2, <3>3 DEF Paid, Covered
    <3> QED BY <1>3, <1>7, <2>1, <2>3, <3>4
  <2> QED BY <2>2, <2>3
<1>12. /\ device' \in [ram : 0..use.writes, flash : 0..use.writes]
       /\ device'.ram <= Issued /\ device'.flash <= Issued
  BY <1>0, <1>9 DEF Ordered
<1>13. overtaken' \in BOOLEAN
  BY <1>9, StateIs
<1> QED BY <1>0, <1>3, <1>7, <1>8, <1>9, <1>10, <1>11, <1>12, <1>13, WireCarried

\* An attempt begins.
LEMMA AttemptKeeps ==
  ASSUME TypeOK, Sound(client, task, Issued), NEW g \in Gen, Attempt(g)
  PROVE  TypeOK' /\ Sound(client, task, Issued)'
<1>0. /\ Working(g) /\ Top(g).op \notin {"open", "close"} /\ Top(g).st = "ready" /\ WireKeeps
      /\ pipe \in [Gen -> Pipe] /\ pipe[g].dead \in BOOLEAN /\ client[g].open \in BOOLEAN
      /\ Lively(client, task) /\ Steady(client) /\ client[g].jobs[1] = Top(g) /\ g <= host.cur
      /\ 1 \in 1..Len(client[g].jobs) /\ host.cur \in Nat /\ g \in Nat
  BY TopAre, StateIs, PipeIs, ClientIs, UseIs DEF Attempt, Sound
<1>1. crossed' \in BOOLEAN
  BY StateIs DEF Attempt
<1>2. CASE ~client[g].open
  <2>1. Finish(g, client, "back", "crash") /\ pipe' = pipe
    BY <1>2 DEF Attempt
  <2>2. pulled
    BY <1>0, <1>2 DEF Lively, Serves
  <2>3. /\ Sound(client', task', Issued)
        /\ client'[g].jobs # <<>> => Untried(client'[g].jobs[1])
    BY <1>0, <2>1, <2>2, FinishIs
  <2>4. use.cuts = 0 /\ g >= host.cur => ~pipe'[g].dead
    BY <1>0, <2>1 DEF Steady
  <2> QED BY <1>0, <1>1, <2>1, <2>3, <2>4, WireKeepsAre, WorkerCarried
<1>3. CASE client[g].open /\ pipe[g].dead
  <2>1. Finish(g, Broken(g), "back", "fail") /\ pipe' = pipe
    BY <1>3 DEF Attempt
  <2>2. use.cuts = 0 /\ g >= host.cur => FALSE
    BY <1>0, <1>3 DEF Steady
  <2>3. use.cuts # 0 \/ g # host.cur
    BY <1>0, <2>2
  <2>4. /\ Sound(client', task', Issued)
        /\ client'[g].jobs # <<>> => Untried(client'[g].jobs[1])
    BY <1>0, <2>1, <2>3, FinishIs
  <2> QED BY <1>0, <1>1, <2>1, <2>2, <2>4, WireKeepsAre, WorkerCarried
<1>4. CASE client[g].open /\ ~pipe[g].dead
  <2>1. /\ client' = [client EXCEPT ![g].jobs = <<[Top(g) EXCEPT !.st = "wait"]>> \o Tail(@)]
        /\ pipe' = [pipe EXCEPT ![g].ans = <<>>,
                                ![g].req = Append(@, [op |-> Top(g).op, by |-> Top(g).task])]
        /\ task' = task
    BY <1>4 DEF Attempt
  <2> QED BY <1>0, <1>1, <1>4, <2>1, SendKeeps
<1> QED BY <1>0, <1>2, <1>3, <1>4

\* An attempt that failed, and was paid for, is followed by the next, or is the last.
LEMMA RetryKeeps ==
  ASSUME TypeOK, Sound(client, task, Issued), NEW g \in Gen, Waiting(g), Retry(g),
         UNCHANGED <<use, cable, host, device, pulled, overtaken, crossed, revived>>,
         failed' \in BOOLEAN,
         left' \in Lefts, left'.writes = left.writes, left'.reconf = left.reconf,
         left'.losses <= left.losses,
         pipe' \in [Gen -> Pipe], \A h \in Gen : h # g => pipe'[h] = pipe[h],
         pipe'[g].req = pipe[g].req, pipe'[g].dead = pipe[g].dead,
         use.cuts = 0 /\ g = host.cur => Top(g).try <= Spent'
  PROVE  TypeOK' /\ Sound(client, task, Issued)'
<1> DEFINE j == Top(g)
           x == [j EXCEPT !.st = "ready", !.try = @ + 1]
<1>0. /\ Working(g) /\ j \in Jobs /\ JobOK(j, g, task) /\ j.st = "wait" /\ j.try \in 1..Retries
      /\ Retries \in Nat /\ Steady(client) /\ host.cur \in Gen /\ g <= host.cur
      /\ crossed' \in BOOLEAN /\ overtaken' \in BOOLEAN
  BY TopAre, StateIs, JobIs, LimitAssumption DEF Waiting, Sound
<1>1. j.op \notin {"open", "close"}
  BY <1>0 DEF JobOK, Untried
<1>2. use.cuts = 0 /\ g >= host.cur => ~pipe'[g].dead
  BY <1>0 DEF Steady
<1>3. CASE j.try = Retries \/ j.op = "raw"
  <2>1. Finish(g, client, "back", "fail")
    BY <1>3 DEF Retry
  <2>2. /\ Sound(client', task', Issued)
        /\ client'[g].jobs # <<>> => Untried(client'[g].jobs[1])
    BY <1>0, <1>1, <2>1, FinishIs
  <2> QED BY <1>0, <1>2, <2>2, WorkerCarried
<1>4. CASE j.try # Retries /\ j.op # "raw"
  <2>1. client' = [client EXCEPT ![g].jobs = <<x>> \o Tail(@)] /\ task' = task
    BY <1>4 DEF Retry
  <2>2. j.try + 1 \in 1..Retries
    BY <1>0, <1>4
  <2>3. x \in Jobs /\ x.task = j.task /\ x.op = j.op /\ x.try = j.try + 1 /\ x.st = "ready"
    BY <1>0, <2>2 DEF Jobs
  <2> HIDE DEF x
  <2>4. /\ Typed(client', task') /\ Shape(client', task') /\ Lively(client', task')
        /\ Fresh(client', task') /\ Ordered(client', task', Issued) /\ Past(client')
        /\ Keeps(client[host.cur]) => Keeps(client'[host.cur])
        /\ client'[g].queue = client[g].queue /\ client'[g].jobs[1] = x
        /\ \A h \in Gen : h # g => client'[h] = client[h]
    BY <1>0, <1>1, <1>4, <2>1, <2>3, TopChanges
  <2>5. /\ Sent(pipe'[g].req, client'[g].queue, Issued) /\ Past(client)'
        /\ device' \in [ram : 0..use.writes, flash : 0..use.writes]
        /\ device'.ram <= Issued /\ device'.flash <= Issued
    BY <2>4, ReqKept
  <2>6. ASSUME use.cuts = 0
        PROVE  /\ Keeps(client'[host.cur])
               /\ g >= host.cur => ~pipe'[g].dead
               /\ IF g = host.cur THEN Paid(client[g], pipe[g])'
                  ELSE Paid(client'[host.cur], pipe[host.cur])
    <3>1. Keeps(client[host.cur]) /\ Paid(client[host.cur], pipe[host.cur])
      BY <1>0, <2>6 DEF Steady
    <3>2. CASE g # host.cur
      BY <1>0, <1>2, <2>4, <2>6, <3>1, <3>2
    <3>3. CASE g = host.cur
      <4>1. Spent' \in Int
        <5>1. left'.losses \in 0..use.losses /\ use.losses \in Nat
          BY StateIs, UseIs DEF Lefts
        <5> QED BY <5>1 DEF Spent
      <4>2. x.try <= Spent' + 1
        BY <1>0, <2>3, <2>6, <3>3, <4>1
      <4>3. Paid(client[g], pipe[g])'
        BY <2>3, <2>4, <4>2 DEF Paid, Covered
      <4> QED BY <1>2, <2>4, <2>6, <3>1, <3>3, <4>3
    <3> QED BY <3>2, <3>3
  <2> QED BY <1>0, <2>4, <2>5, <2>6, WireCarried
<1> QED BY <1>3, <1>4

\* The client is given an answer: it is taken, or the command is tried again.
LEMMA AnsweredKeeps ==
  ASSUME TypeOK, Sound(client, task, Issued), NEW g \in Gen, Answered(g)
  PROVE  TypeOK' /\ Sound(client, task, Issued)'
<1> DEFINE a == Head(pipe[g].ans)
           taken == a = "ok" \/ (a = "glitch" /\ Top(g).try = Retries)
           A == {"ok", "garbled", "glitch"}
<1>0. /\ Waiting(g) /\ Working(g) /\ pipe[g].ans # <<>> /\ pipe \in [Gen -> Pipe]
      /\ pipe[g] \in Pipe
      /\ pipe[g].ans \in Seq(A) /\ Top(g) \in Jobs /\ JobOK(Top(g), g, task) /\ g <= host.cur
      /\ Top(g).st = "wait" /\ Steady(client) /\ host.cur \in Gen /\ Top(g) = client[g].jobs[1]
      /\ client[g].jobs # <<>> /\ pipe' = [pipe EXCEPT ![g].ans = Tail(@)]
      /\ UNCHANGED <<use, cable, host, device, left, pulled, overtaken, crossed, revived>>
      /\ failed' = (failed \/ (taken /\ a = "glitch")) /\ g \in Nat /\ host.cur \in Nat
  BY TopAre, StateIs, PipeIs, UseIs DEF Answered, Waiting, Sound
<1>1. Top(g).op \notin {"open", "close"}
  BY <1>0 DEF JobOK, Untried
<1>2. /\ pipe' \in [Gen -> Pipe] /\ pipe'[g].req = pipe[g].req /\ pipe'[g].dead = pipe[g].dead
      /\ \A h \in Gen : h # g => pipe'[h] = pipe[h]
  <2> DEFINE p2 == [pipe[g] EXCEPT !.ans = Tail(pipe[g].ans)]
  <2>1. pipe' = [pipe EXCEPT ![g] = p2]
    BY <1>0
  <2>2. Tail(pipe[g].ans) \in Seq(A)
    BY <1>0, Rest
  <2>3. p2.req = pipe[g].req /\ p2.dead = pipe[g].dead /\ p2 \in Pipe
    BY <1>0, <2>2 DEF Pipe
  <2> HIDE DEF p2
  <2> QED BY <1>0, <2>1, <2>3
<1>3. /\ failed' \in BOOLEAN /\ crossed' \in BOOLEAN /\ left' \in Lefts
      /\ left'.writes = left.writes
      /\ left'.reconf = left.reconf /\ left'.losses <= left.losses /\ left' = left
  <2>1. left.losses \in 0..use.losses
    BY StateIs
  <2>2. left' \in Lefts
    BY <1>0 DEF TypeOK, Lefts
  <2>3. failed \in BOOLEAN /\ crossed \in BOOLEAN
    BY StateIs
  <2> QED BY <1>0, <2>1, <2>2, <2>3
<1>4. use.cuts = 0 /\ g >= host.cur => ~pipe'[g].dead
  BY <1>0, <1>2 DEF Steady
<1>5. CASE taken
  <2>1. Finish(g, client, "back", "ok")
    BY <1>5 DEF Answered
  <2>2. /\ Sound(client', task', Issued)
        /\ client'[g].jobs # <<>> => Untried(client'[g].jobs[1])
    BY <1>0, <1>1, <2>1, FinishIs
  <2> QED BY <1>0, <1>2, <1>3, <1>4, <2>2, WorkerCarried
<1>6. CASE ~taken
  <2>1. Retry(g)
    BY <1>6 DEF Answered
  <2>2. use.cuts = 0 /\ g = host.cur => Top(g).try <= Spent'
    <3> SUFFICES ASSUME use.cuts = 0, g = host.cur PROVE Top(g).try <= Spent'
      OBVIOUS
    <3>1. Lost(pipe[g])
      BY <1>0, <1>6 DEF Lost
    <3>2. Paid(client[g], pipe[g])
      BY <1>0 DEF Steady
    <3>3. Top(g).try <= Spent
      BY <1>0, <3>1, <3>2 DEF Paid, Covered
    <3> QED BY <1>0, <3>3 DEF Spent
  <2> QED BY <1>0, <1>2, <1>3, <2>1, <2>2, RetryKeeps
<1> QED BY <1>5, <1>6

\* No answer in time.
LEMMA TimedOutKeeps ==
  ASSUME TypeOK, Sound(client, task, Issued), NEW g \in Gen, TimedOut(g)
  PROVE  TypeOK' /\ Sound(client, task, Issued)'
<1>0. /\ Waiting(g) /\ Working(g) /\ pipe[g].ans = <<>> /\ pipe' = pipe /\ pipe \in [Gen -> Pipe]
      /\ Top(g) \in Jobs /\ JobOK(Top(g), g, task) /\ g <= host.cur
      /\ Top(g).st = "wait" /\ Steady(client) /\ host.cur \in Gen /\ Top(g) = client[g].jobs[1]
      /\ client[g].jobs # <<>> /\ (pipe[g].dead \/ pipe[g].req = <<>> \/ left.losses > 0)
      /\ UNCHANGED <<use, cable, host, device, pulled, overtaken, crossed, revived>>
      /\ failed' \in BOOLEAN /\ crossed' \in BOOLEAN /\ g \in Nat /\ host.cur \in Nat
      /\ left' = IF pipe[g].dead \/ pipe[g].req = <<>> THEN left ELSE [left EXCEPT !.losses = @ - 1]
  BY TopAre, StateIs, UseIs DEF TimedOut, Waiting, Sound
<1>1. Top(g).op \notin {"open", "close"}
  BY <1>0 DEF JobOK, Untried
<1>2. /\ left' \in Lefts /\ left'.writes = left.writes /\ left'.reconf = left.reconf
      /\ left'.losses <= left.losses
      /\ pipe[g].dead \/ pipe[g].req = <<>> \/ left'.losses = left.losses - 1
  <2>1. left \in Lefts /\ left.losses \in Int /\ use.losses \in Nat
    <3>1. left.losses \in 0..use.losses /\ use.losses \in Nat
      BY StateIs, UseIs
    <3> QED BY <3>1 DEF TypeOK, Lefts
  <2>2. CASE pipe[g].dead \/ pipe[g].req = <<>>
    BY <1>0, <2>1, <2>2
  <2>3. CASE ~(pipe[g].dead \/ pipe[g].req = <<>>)
    <3>1. left' = [left EXCEPT !.losses = @ - 1] /\ left.losses > 0
      BY <1>0, <2>3
    <3> QED BY <2>1, <3>1 DEF Lefts
  <2> QED BY <2>2, <2>3
<1>3. CASE Retry(g)
  <2>1. use.cuts = 0 /\ g = host.cur => Top(g).try <= Spent'
    <3> SUFFICES ASSUME use.cuts = 0, g = host.cur PROVE Top(g).try <= Spent'
      OBVIOUS
    <3>1. Paid(client[g], pipe[g]) /\ ~pipe[g].dead
      BY <1>0 DEF Steady
    <3>2. Top(g).try <= Spent + 1 /\ (pipe[g].req = <<>> => Top(g).try <= Spent)
      BY <1>0, <3>1 DEF Paid, Covered, Lost
    <3>3. use.losses \in Nat /\ left.losses \in 0..use.losses /\ left'.losses \in 0..use.losses
      BY <1>2, StateIs, UseIs DEF Lefts
    <3>4. pipe[g].req # <<>> => Spent' = Spent + 1
      BY <1>0, <1>2, <3>1, <3>3 DEF Spent
    <3>5. Spent <= Spent' /\ Spent \in Int /\ Spent' \in Int
      BY <1>0, <1>2, <3>3 DEF Spent
    <3>6. Top(g).try \in Int
      BY <1>0, JobIs, LimitAssumption
    <3> QED BY <3>2, <3>4, <3>5, <3>6
  <2> QED BY <1>0, <1>2, <1>3, <2>1, RetryKeeps
<1>4. CASE pipe[g].dead /\ Finish(g, Broken(g), "back", "fail")
  <2>2. use.cuts = 0 /\ g >= host.cur => FALSE
    BY <1>0, <1>4 DEF Steady
  <2>3. use.cuts # 0 \/ g # host.cur
    BY <1>0, <2>2
  <2>4. /\ Sound(client', task', Issued)
        /\ client'[g].jobs # <<>> => Untried(client'[g].jobs[1])
    BY <1>0, <1>1, <1>4, <2>3, FinishIs
  <2> QED BY <1>0, <1>2, <2>2, <2>4, WorkerCarried
<1> QED BY <1>3, <1>4 DEF TimedOut

(***************************************************************************)
(* Steps of the board and of the wire.                                     *)
(***************************************************************************)
\* The requests behind the first are in order too.
LEMMA SentTail ==
  ASSUME NEW req \in Seq(Requests), req # <<>>, NEW q, NEW n, Sent(req, q, n)
  PROVE  Sent(Tail(req), q, n) /\ (Floor(req, q) => Floor(Tail(req), q))
<1> DEFINE p == Tail(req)
<1>1. \A i \in 1..Len(p) : i + 1 \in 1..Len(req) /\ p[i] = req[i + 1] /\ i \in Int
  <2>1. Len(req) \in Nat
    BY Elements
  <2> QED BY <2>1, Rest
<1> HIDE DEF p
<1>2. \A i \in 1..Len(p) : p[i].op = "set" => \E a \in 1..n : Sets(p[i], a)
  BY <1>1 DEF Sent
<1>3. \A i, k \in 1..Len(p) : \A a, b \in 1..Len(Writers) :
        i < k /\ Sets(p[i], a) /\ Sets(p[k], b) => a <= b
  <2>1. \A i, k \in 1..Len(p) : i < k => i + 1 < k + 1
    BY <1>1
  <2> QED BY <1>1, <2>1 DEF Sent
<1>4. \A i \in 1..Len(p), k \in 1..Len(q) : \A a, b \in 1..Len(Writers) :
        Sets(p[i], a) /\ q[k] = Writers[b] => a <= b
  BY <1>1 DEF Sent
<1>5. Floor(req, q) => Floor(p, q)
  BY <1>1 DEF Floor
<1> QED BY <1>2, <1>3, <1>4, <1>5 DEF Sent, p

\* What the board holds after the first request of client g, or without it.
Above(d, req, q) ==
  /\ \A i \in 1..Len(req) : \A a \in 1..Len(Writers) : Sets(req[i], a) => d.ram <= a
  /\ \A k \in 1..Len(q) : \A a \in 1..Len(Writers) : q[k] = Writers[a] => d.ram <= a
\* None of it breaks the order of the writes.
LEMMA HandledIs ==
  ASSUME TypeOK, Sound(client, task, Issued), NEW g \in Gen, pipe[g].req # <<>>,
         NEW d \in {device, Handled(Head(pipe[g].req))}
  PROVE  /\ d \in [ram : 0..use.writes, flash : 0..use.writes]
         /\ d.ram <= Issued /\ d.flash <= Issued
         /\ ~revived => /\ g = host.cur /\ d.flash <= d.ram
                        /\ d.ram = device.ram \/ d.ram > device.ram \/ d.ram = device.flash
                        /\ Above(d, Tail(pipe[g].req), client[g].queue)
<1> DEFINE req == pipe[g].req
           r == Head(req)
           q == client[g].queue
           D == [ram : 0..use.writes, flash : 0..use.writes]
<1>0. /\ req \in Seq(Requests) /\ Sent(req, q, Issued) /\ Past(client) /\ device \in D
      /\ device.ram \in 0..use.writes /\ device.flash \in 0..use.writes
      /\ device.ram <= Issued /\ device.flash <= Issued /\ use.writes \in 0..Len(Writers)
      /\ Issued \in 0..use.writes /\ Len(Writers) \in Nat /\ host.cur \in Gen
  BY StateIs, UseIs, PipeIs, WritersAre DEF Sound, Ordered, TypeOK
<1>1. r = req[1] /\ 1 \in 1..Len(req)
  <2>1. req \in Seq(Requests) /\ req # <<>>
    BY <1>0
  <2> HIDE DEF req
  <2> QED BY <2>1, Elements
<1>2. /\ Sent(Tail(req), q, Issued) /\ (Floor(req, q) => Floor(Tail(req), q))
      /\ \A i \in 1..Len(Tail(req)) :
           i + 1 \in 1..Len(req) /\ Tail(req)[i] = req[i + 1] /\ 1 < i + 1
  <2>1. req \in Seq(Requests) /\ req # <<>> /\ Sent(req, q, Issued)
    BY <1>0
  <2> HIDE DEF req, q
  <2>2. Len(req) \in Nat
    BY <2>1, Elements
  <2>3. Sent(Tail(req), q, Issued) /\ (Floor(req, q) => Floor(Tail(req), q))
    BY <2>1, SentTail
  <2> QED BY <2>1, <2>2, <2>3, Rest
<1>3. ASSUME ~revived
      PROVE  g = host.cur /\ device.flash <= device.ram /\ Floor(req, q)
  BY <1>0, <1>3 DEF Past
<1>4. ASSUME d.ram = device.ram, ~revived PROVE Above(d, Tail(req), q)
  BY <1>2, <1>3, <1>4 DEF Floor, Above
<1>5. CASE d = device
  BY <1>0, <1>3, <1>4, <1>5
<1>6. CASE d = Handled(r)
  <2>1. CASE r.op = "set"
    <3>1. PICK A \in 1..Issued : Sets(r, A)
      BY <1>0, <1>1, <2>1 DEF Sent
    <3>2. A \in 1..Len(Writers) /\ A \in 0..use.writes /\ A <= Issued
      BY <1>0, <3>1
    <3>3. Number(r.by) = A
      BY <3>1, <3>2, WritersAre DEF Sets
    <3>4. d = [device EXCEPT !.ram = A]
      BY <1>6, <2>1, <3>3 DEF Handled
    <3>5. d \in D /\ d.ram = A /\ d.flash = device.flash
      BY <1>0, <3>2, <3>4
    <3>6. ASSUME ~revived
          PROVE  d.flash <= d.ram /\ (d.ram = device.ram \/ d.ram > device.ram)
                 /\ Above(d, Tail(req), q)
      <4>1. device.ram <= A
        BY <1>1, <1>3, <3>1, <3>2, <3>6 DEF Floor
      <4>2. \A i \in 1..Len(Tail(req)) : \A a \in 1..Len(Writers) : Sets(Tail(req)[i], a) => A <= a
        BY <1>0, <1>1, <1>2, <3>1, <3>2 DEF Sent
      <4>3. \A k \in 1..Len(q) : \A a \in 1..Len(Writers) : q[k] = Writers[a] => A <= a
        BY <1>0, <1>1, <3>1, <3>2 DEF Sent
      <4>4. Above(d, Tail(req), q)
        BY <3>5, <4>2, <4>3 DEF Above
      <4>5. d.flash <= d.ram /\ (d.ram = device.ram \/ d.ram > device.ram)
        BY <1>0, <1>3, <3>2, <3>5, <3>6, <4>1
      <4> QED BY <4>4, <4>5
    <3> QED BY <1>0, <1>3, <3>2, <3>5, <3>6
  <2>2. CASE r.op = "save"
    <3>1. d = [device EXCEPT !.flash = device.ram]
      BY <1>6, <2>2 DEF Handled
    <3>2. d \in D /\ d.ram = device.ram /\ d.flash = device.ram
      BY <1>0, <3>1
    <3> QED BY <1>0, <1>3, <1>4, <3>2
  <2>3. CASE r.op = "raw"
    <3>1. d = [device EXCEPT !.ram = device.flash]
      BY <1>6, <2>3 DEF Handled
    <3>2. d \in D /\ d.ram = device.flash /\ d.flash = device.flash
      BY <1>0, <3>1
    <3>3. ~revived => Above(d, Tail(req), q)
      <4> SUFFICES ASSUME ~revived PROVE Above(d, Tail(req), q)
        OBVIOUS
      <4>1. Floor(Tail(req), q) /\ d.ram <= device.ram
        BY <1>2, <1>3, <3>2
      <4>2. /\ \A i \in 1..Len(Tail(req)) : \A a \in 1..Len(Writers) :
                 Sets(Tail(req)[i], a) => d.ram <= a
            /\ \A k \in 1..Len(q) : \A a \in 1..Len(Writers) : q[k] = Writers[a] => d.ram <= a
        <5>1. d.ram \in Int /\ device.ram \in Int /\ \A a \in 1..Len(Writers) : a \in Int
          BY <1>0, <3>2
        <5> QED BY <4>1, <5>1 DEF Floor
      <4> QED BY <4>2 DEF Above
    <3> QED BY <1>0, <1>3, <3>2, <3>3
  <2>4. CASE r.op \notin {"set", "save", "raw"}
    <3>1. d = device
      BY <1>6, <2>4 DEF Handled
    <3> QED BY <1>5, <3>1
  <2> QED BY <2>1, <2>2, <2>3, <2>4
<1> QED BY <1>5, <1>6

\* The first request of client g is gone, answered or not; one that is not answered well was paid
\* for.
LEMMA TakenOff ==
  ASSUME TypeOK, Sound(client, task, Issued), NEW g \in Gen, pipe[g].req # <<>>,
         UNCHANGED <<use, client, cable, task, host, failed, pulled, overtaken, crossed, revived>>,
         device' \in {device, Handled(Head(pipe[g].req))},
         pipe' \in [Gen -> Pipe], \A h \in Gen : h # g => pipe'[h] = pipe[h],
         pipe'[g].req = Tail(pipe[g].req), pipe'[g].dead = pipe[g].dead,
         \/ left.losses > 0 /\ left' = [left EXCEPT !.losses = @ - 1]
         \/ left' = left /\ pipe'[g].ans = Append(pipe[g].ans, "ok")
  PROVE  TypeOK' /\ Sound(client, task, Issued)'
<1> DEFINE req == pipe[g].req
           q == client[g].queue
           A == {"ok", "garbled", "glitch"}
<1>0. /\ Typed(client, task) /\ Shape(client, task) /\ Lively(client, task) /\ Fresh(client, task)
      /\ Ordered(client, task, Issued) /\ Past(client) /\ Steady(client)
      /\ client' = client /\ task' = task /\ Gen' = Gen /\ host.cur \in Gen /\ Issued \in Nat
      /\ client[g] \in Client
  BY StateIs, UseIs DEF Sound, Gen, Typed
<1>1. req \in Seq(Requests) /\ req # <<>> /\ Sent(req, q, Issued) /\ pipe[g].ans \in Seq(A)
  BY <1>0, StateIs, PipeIs DEF Ordered
<1>2. Sent(pipe'[g].req, client'[g].queue, Issued)
  <2> HIDE DEF req
  <2>1. Sent(Tail(req), q, Issued)
    BY <1>1, SentTail
  <2> QED BY <1>0, <2>1 DEF req
<1>3. /\ device' \in [ram : 0..use.writes, flash : 0..use.writes]
      /\ device'.ram <= Issued /\ device'.flash <= Issued
      /\ ~revived => /\ g = host.cur /\ device'.flash <= device'.ram
                     /\ Above(device', Tail(pipe[g].req), client[g].queue)
  BY HandledIs
<1>4. Past(client)'
  <2>1. CASE revived
    BY <2>1 DEF Past
  <2>2. CASE ~revived
    <3>1. (device.flash <= device.ram)'
      BY <1>3, <2>2
    <3>2. Floor(pipe[host.cur].req, client[host.cur].queue)'
      <4>1. Above(device', pipe'[host.cur].req, client'[host.cur].queue)
        BY <1>0, <1>3, <2>2
      <4> QED BY <4>1 DEF Floor, Above, Sets
    <3>3. (\A h \in Gen : h # host.cur => ~client[h].open /\ pipe[h].req = <<>>)'
      <4>1. \A h \in Gen : h # host.cur => ~client[h].open /\ pipe[h].req = <<>>
        BY <1>0, <2>2 DEF Past
      <4>2. \A h \in Gen : h # host.cur => ~client'[h].open /\ pipe'[h].req = <<>>
        BY <1>0, <1>3, <2>2, <4>1
      <4> QED BY <1>0, <4>2
    <3> QED BY <3>1, <3>2, <3>3 DEF Past
  <2> QED BY <2>1, <2>2
<1>5. /\ left' \in Lefts /\ left'.writes = left.writes /\ left'.reconf = left.reconf
      /\ left'.losses <= left.losses /\ left'.losses \in 0..use.losses
      /\ left' = left \/ left'.losses = left.losses - 1
  <2>1. left \in Lefts /\ left.losses \in 0..use.losses /\ use.losses \in Nat
    BY StateIs, UseIs DEF TypeOK, Lefts
  <2>2. CASE left' = left
    BY <2>1, <2>2
  <2>3. CASE left.losses > 0 /\ left' = [left EXCEPT !.losses = @ - 1]
    BY <2>1, <2>3 DEF Lefts
  <2> QED BY <2>2, <2>3
<1>6. ASSUME use.cuts = 0
      PROVE  /\ Keeps(client'[host.cur])
             /\ g >= host.cur => ~pipe'[g].dead
             /\ IF g = host.cur THEN Paid(client[g], pipe[g])'
                ELSE Paid(client'[host.cur], pipe[host.cur])
  <2>1. /\ Keeps(client[host.cur]) /\ Paid(client[host.cur], pipe[host.cur])
        /\ \A h \in Gen : h >= host.cur => ~pipe[h].dead
    BY <1>0, <1>6 DEF Steady
  <2>2. CASE g # host.cur
    BY <1>0, <2>1, <2>2
  <2>3. CASE g = host.cur
    <3> DEFINE j == client[g].jobs[1]
    <3>1. client[g].jobs # <<>> =>
            j.try <= Spent + 1 /\ (j.st = "wait" /\ Lost(pipe[g]) => j.try <= Spent)
      BY <2>1, <2>3 DEF Paid, Covered
    <3>2. client[g].jobs # <<>> => j.try \in Int
      <4>1. client[g].jobs \in Seq(Jobs)
        BY <1>0, ClientIs
      <4>2. client[g].jobs # <<>> => j \in Jobs
        <5> DEFINE jobs == client[g].jobs
        <5>1. jobs \in Seq(Jobs)
          BY <4>1
        <5> HIDE DEF jobs
        <5>2. jobs # <<>> => jobs[1] \in Jobs
          BY <5>1, Elements
        <5> QED BY <5>2 DEF jobs
      <4> QED BY <4>2, JobIs, LimitAssumption
    <3>3. Spent \in Int /\ Spent' \in Int /\ (left' = left => Spent' = Spent)
          /\ (left'.losses = left.losses - 1 => Spent' = Spent + 1)
      <4>1. left.losses \in 0..use.losses /\ use.losses \in Nat /\ use' = use
        BY StateIs, UseIs
      <4> QED BY <1>5, <4>1 DEF Spent
    <3>4. left' = left => (Lost(pipe'[g]) => Lost(pipe[g]))
      <4> SUFFICES ASSUME left' = left, Lost(pipe'[g]) PROVE Lost(pipe[g])
        OBVIOUS
      <4>1. pipe'[g].ans = Append(pipe[g].ans, "ok")
        <5>1. left \in Lefts /\ left.losses \in 0..use.losses /\ use.losses \in Nat
          BY StateIs, UseIs DEF TypeOK, Lefts
        <5>2. left' = [left EXCEPT !.losses = @ - 1] => left'.losses = left.losses - 1
          BY <5>1 DEF Lefts
        <5>3. left.losses # left.losses - 1
          BY <5>1
        <5> QED BY <5>2, <5>3
      <4> DEFINE ans == pipe[g].ans
                 more == Append(ans, "ok")
      <4>2. ans \in Seq(A) /\ Lost(pipe'[g]) /\ pipe'[g].ans = more
        BY <1>1, <4>1
      <4> HIDE DEF ans
      <4>3. more \in Seq(A) /\ more # <<>> /\ more[1] = (IF ans = <<>> THEN "ok" ELSE ans[1])
            /\ Head(more) = more[1] /\ (ans # <<>> => Head(ans) = ans[1])
        <5>1. /\ more \in Seq(A) /\ more # <<>> /\ more[Len(ans) + 1] = "ok"
              /\ \A i \in 1..Len(ans) : more[i] = ans[i]
          BY <4>2, Added
        <5>2. Head(more) = more[1]
          <6> HIDE DEF more
          <6> QED BY <5>1, Elements
        <5>3. /\ ans # <<>> => 1 \in 1..Len(ans) /\ Head(ans) = ans[1]
              /\ ans = <<>> => Len(ans) = 0
          BY <4>2, Elements
        <5> HIDE DEF more
        <5> QED BY <5>1, <5>2, <5>3
      <4> HIDE DEF more
      <4>4. ans # <<>> /\ Head(ans) # "ok"
        BY <4>2, <4>3 DEF Lost
      <4> QED BY <4>4 DEF Lost, ans
    <3>5. client[g].jobs # <<>> =>
            j.try <= Spent' + 1 /\ (j.st = "wait" /\ Lost(pipe'[g]) => j.try <= Spent')
      BY <1>5, <3>1, <3>2, <3>3, <3>4
    <3>6. Paid(client[g], pipe[g])'
      BY <1>0, <3>5 DEF Paid, Covered, Lost
    <3> QED BY <1>0, <2>1, <2>3, <3>6
  <2> QED BY <2>2, <2>3
<1>7. /\ Typed(client', task') /\ Shape(client', task') /\ Lively(client', task')
      /\ Fresh(client', task') /\ Ordered(client', task', Issued)
  BY <1>0
<1>8. failed' \in BOOLEAN /\ crossed' \in BOOLEAN /\ overtaken' \in BOOLEAN
  BY StateIs
<1>9. UNCHANGED <<use, cable, host, pulled, revived>>
  OBVIOUS
<1> QED BY <1>0, <1>2, <1>3, <1>4, <1>5, <1>6, <1>7, <1>8, <1>9, WireCarried

\* What becomes of the transport of client g when its first request is gone.
LEMMA OffIs ==
  ASSUME TypeOK, NEW g \in Gen, pipe[g].req # <<>>
  PROVE  /\ \A a \in {"ok", "garbled", "glitch"} :
              LET p == [pipe EXCEPT ![g].req = Tail(@), ![g].ans = Append(@, a)]
              IN  /\ p \in [Gen -> Pipe] /\ p[g].req = Tail(pipe[g].req) /\ p[g].dead = pipe[g].dead
                  /\ p[g].ans = Append(pipe[g].ans, a) /\ \A h \in Gen : h # g => p[h] = pipe[h]
         /\ LET p == [pipe EXCEPT ![g].req = Tail(@)]
            IN  /\ p \in [Gen -> Pipe] /\ p[g].req = Tail(pipe[g].req) /\ p[g].dead = pipe[g].dead
                /\ \A h \in Gen : h # g => p[h] = pipe[h]
<1> DEFINE A == {"ok", "garbled", "glitch"}
<1>1. /\ pipe \in [Gen -> Pipe] /\ pipe[g] \in Pipe /\ pipe[g].req \in Seq(Requests)
      /\ pipe[g].ans \in Seq(A)
  BY StateIs, PipeIs
<1>2. Tail(pipe[g].req) \in Seq(Requests)
  BY <1>1, Rest
<1>3. ASSUME NEW a \in A PROVE Append(pipe[g].ans, a) \in Seq(A)
  BY <1>1
<1>4. ASSUME NEW a \in A
      PROVE  LET p == [pipe EXCEPT ![g].req = Tail(@), ![g].ans = Append(@, a)]
             IN  /\ p \in [Gen -> Pipe] /\ p[g].req = Tail(pipe[g].req) /\ p[g].dead = pipe[g].dead
                 /\ p[g].ans = Append(pipe[g].ans, a) /\ \A h \in Gen : h # g => p[h] = pipe[h]
  <2> DEFINE p2 == [pipe[g] EXCEPT !.req = Tail(pipe[g].req), !.ans = Append(pipe[g].ans, a)]
  <2>1. [pipe EXCEPT ![g].req = Tail(@), ![g].ans = Append(@, a)] = [pipe EXCEPT ![g] = p2]
    BY <1>1
  <2>2. /\ p2 \in Pipe /\ p2.req = Tail(pipe[g].req) /\ p2.dead = pipe[g].dead
        /\ p2.ans = Append(pipe[g].ans, a)
    BY <1>1, <1>2, <1>3 DEF Pipe
  <2> HIDE DEF p2
  <2> QED BY <1>1, <2>1, <2>2
<1>5. LET p == [pipe EXCEPT ![g].req = Tail(@)]
      IN  /\ p \in [Gen -> Pipe] /\ p[g].req = Tail(pipe[g].req) /\ p[g].dead = pipe[g].dead
          /\ \A h \in Gen : h # g => p[h] = pipe[h]
  <2> DEFINE p2 == [pipe[g] EXCEPT !.req = Tail(pipe[g].req)]
  <2>1. [pipe EXCEPT ![g].req = Tail(@)] = [pipe EXCEPT ![g] = p2]
    BY <1>1
  <2>2. p2 \in Pipe /\ p2.req = Tail(pipe[g].req) /\ p2.dead = pipe[g].dead
    BY <1>1, <1>2 DEF Pipe
  <2> HIDE DEF p2
  <2> QED BY <1>1, <2>1, <2>2
<1> QED BY <1>4, <1>5

\* The board answers the first request of client g, well or not.
LEMMA BoardKeeps ==
  ASSUME TypeOK, Sound(client, task, Issued), NEW g \in Gen, BoardAnswers(g)
  PROVE  TypeOK' /\ Sound(client, task, Issued)'
<1>1. /\ pipe[g].req # <<>> /\ device' = Handled(Head(pipe[g].req))
      /\ UNCHANGED <<use, client, cable, task, host, failed, pulled, overtaken, crossed, revived>>
  BY DEF BoardAnswers
<1>2. PICK good \in BOOLEAN :
        /\ good \/ left.losses > 0
        /\ left' = IF good THEN left ELSE [left EXCEPT !.losses = @ - 1]
        /\ pipe' = [pipe EXCEPT ![g].req = Tail(@),
                                ![g].ans = Append(@, IF good THEN "ok" ELSE "garbled")]
  BY DEF BoardAnswers
<1> DEFINE a == IF good THEN "ok" ELSE "garbled"
<1>3. a \in {"ok", "garbled", "glitch"} /\ (good => a = "ok")
  OBVIOUS
<1>4. pipe' = [pipe EXCEPT ![g].req = Tail(@), ![g].ans = Append(@, a)]
  BY <1>2
<1> HIDE DEF a
<1>5. /\ pipe' \in [Gen -> Pipe] /\ pipe'[g].req = Tail(pipe[g].req) /\ pipe'[g].dead = pipe[g].dead
      /\ pipe'[g].ans = Append(pipe[g].ans, a) /\ \A h \in Gen : h # g => pipe'[h] = pipe[h]
  BY <1>1, <1>3, <1>4, OffIs
<1>6. \/ left.losses > 0 /\ left' = [left EXCEPT !.losses = @ - 1]
      \/ left' = left /\ pipe'[g].ans = Append(pipe[g].ans, "ok")
  BY <1>2, <1>3, <1>5
<1> QED BY <1>1, <1>5, <1>6, TakenOff

\* A request is garbled, or lost.
LEMMA RequestKeeps ==
  ASSUME TypeOK, Sound(client, task, Issued), NEW g \in Gen, RequestGarbled(g) \/ RequestLost(g)
  PROVE  TypeOK' /\ Sound(client, task, Issued)'
<1>1. /\ pipe[g].req # <<>> /\ device' = device
      /\ UNCHANGED <<use, client, cable, task, host, failed, pulled, overtaken, crossed, revived>>
      /\ left.losses > 0 /\ left' = [left EXCEPT !.losses = @ - 1]
      /\ \/ pipe' = [pipe EXCEPT ![g].req = Tail(@), ![g].ans = Append(@, "glitch")]
         \/ pipe' = [pipe EXCEPT ![g].req = Tail(@)]
  BY DEF RequestGarbled, RequestLost
<1>2. /\ pipe' \in [Gen -> Pipe] /\ pipe'[g].req = Tail(pipe[g].req) /\ pipe'[g].dead = pipe[g].dead
      /\ \A h \in Gen : h # g => pipe'[h] = pipe[h]
  <2>1. CASE pipe' = [pipe EXCEPT ![g].req = Tail(@), ![g].ans = Append(@, "glitch")]
    <3> DEFINE a == "glitch"
    <3>1. /\ a \in {"ok", "garbled", "glitch"}
          /\ pipe' = [pipe EXCEPT ![g].req = Tail(@), ![g].ans = Append(@, a)]
      BY <2>1
    <3> HIDE DEF a
    <3> QED BY <1>1, <3>1, OffIs
  <2>2. CASE pipe' = [pipe EXCEPT ![g].req = Tail(@)]
    BY <1>1, <2>2, OffIs
  <2> QED BY <1>1, <2>1, <2>2
<1> QED BY <1>1, <1>2, TakenOff

\* The cable is pulled.
LEMMA CutKeeps ==
  ASSUME TypeOK, Sound(client, task, Issued), Cut
  PROVE  TypeOK' /\ Sound(client, task, Issued)'
<1> DEFINE dead == [NewPipe EXCEPT !.dead = TRUE]
<1>0. /\ Typed(client, task) /\ Shape(client, task) /\ Lively(client, task) /\ Fresh(client, task)
      /\ Ordered(client, task, Issued) /\ Past(client) /\ host.cur \in Gen
      /\ left.cuts \in 0..use.cuts /\ use.cuts \in Nat /\ Len(<<>>) = 0
  BY StateIs, UseIs, Nothing DEF Sound
<1>1. /\ cable' = FALSE /\ left' = [left EXCEPT !.cuts = @ - 1] /\ left.cuts > 0
      /\ pipe' = [g \in Gen |-> dead] /\ client' = client /\ task' = task
      /\ use' = use /\ host' = host /\ device' = device /\ failed' = failed /\ pulled' = pulled
      /\ overtaken' = overtaken /\ crossed' = crossed /\ revived' = revived /\ Gen' = Gen
  BY DEF Cut, Gen
<1>2. use.cuts # 0
  BY <1>0, <1>1
<1>3. dead \in Pipe /\ dead.req = <<>>
  BY NewTyped DEF NewPipe
<1> HIDE DEF dead
<1>4. pipe' \in [Gen -> Pipe] /\ \A g \in Gen : pipe'[g].req = <<>>
  BY <1>1, <1>3
<1>5. left' \in Lefts /\ left'.writes = left.writes /\ left'.reconf = left.reconf
  <2>1. left \in Lefts
    BY DEF TypeOK, Lefts
  <2> QED BY <1>0, <1>1, <2>1 DEF Lefts
<1>6. TypeOK'
  BY <1>1, <1>4, <1>5 DEF TypeOK, Client, Jobs, Coroutines, Pipe, Requests, Lefts, Tasks
<1>7. Issued' = Issued /\ Tasks' = Tasks
  BY <1>1, <1>5 DEF Issued, Tasks
<1>8. Typed(client, task)' /\ Shape(client, task)' /\ Lively(client, task)'
  BY <1>0, <1>1, <1>7 DEF Typed, Shape, Lively, Client, Jobs, Coroutines, Placed
<1>9. Fresh(client, task)'
  BY <1>0, <1>1, <1>5, <1>7 DEF Fresh, NewClient
<1>10. Ordered(client, task, Issued)'
  <2>1. \A g \in Gen : Ascending(client'[g].queue) /\ Sent(pipe'[g].req, client'[g].queue, Issued)
    BY <1>0, <1>1, <1>4 DEF Ordered, Sent
  <2>2. (\A g \in Gen : Ascending(client[g].queue) /\ Sent(pipe[g].req, client[g].queue, Issued))'
    BY <1>1, <1>7, <2>1
  <2>3. (\A a \in 1..Len(Writers) : a > Issued => task[Writers[a]] = Idle)'
    BY <1>0, <1>1, <1>7 DEF Ordered, Idle
  <2>4. (device.ram <= Issued /\ device.flash <= Issued)'
    BY <1>0, <1>1, <1>7 DEF Ordered
  <2> QED BY <2>2, <2>3, <2>4 DEF Ordered
<1>11. Past(client)'
  <2>1. CASE revived
    BY <1>1, <2>1 DEF Past
  <2>2. CASE ~revived
    <3>1. /\ device.flash <= device.ram /\ Floor(pipe[host.cur].req, client[host.cur].queue)
          /\ \A g \in Gen : g # host.cur => ~client[g].open
      BY <1>0, <2>2 DEF Past
    <3>2. Floor(<<>>, client[host.cur].queue)
      BY <1>0, <3>1 DEF Floor
    <3>3. Floor(pipe[host.cur].req, client[host.cur].queue)'
      BY <1>0, <1>1, <1>4, <3>2 DEF Floor
    <3>4. (device.flash <= device.ram)'
      BY <1>1, <3>1
    <3>5. (\A g \in Gen : g # host.cur => ~client[g].open /\ pipe[g].req = <<>>)'
      BY <1>1, <1>4, <3>1
    <3> QED BY <3>3, <3>4, <3>5 DEF Past
  <2> QED BY <2>1, <2>2
<1>12. Steady(client)'
  BY <1>1, <1>2 DEF Steady
<1> QED BY <1>6, <1>8, <1>9, <1>10, <1>11, <1>12 DEF Sound

\* It is put back.
LEMMA MendKeeps ==
  ASSUME TypeOK, Sound(client, task, Issued), Mend
  PROVE  TypeOK' /\ Sound(client, task, Issued)'
<1>0. /\ Typed(client, task) /\ Shape(client, task) /\ Lively(client, task) /\ Fresh(client, task)
      /\ Ordered(client, task, Issued) /\ Past(client) /\ Steady(client)
  BY DEF Sound
<1>1. /\ cable' = TRUE /\ left' = left /\ pipe' = pipe /\ client' = client /\ task' = task
      /\ use' = use /\ host' = host /\ device' = device /\ failed' = failed /\ pulled' = pulled
      /\ overtaken' = overtaken /\ crossed' = crossed /\ revived' = revived /\ Gen' = Gen
  BY DEF Mend, Gen
<1>2. Issued' = Issued /\ Tasks' = Tasks /\ Spent' = Spent
  BY <1>1 DEF Issued, Tasks, Spent
<1>3. TypeOK'
  BY <1>1, <1>2 DEF TypeOK, Client, Jobs, Coroutines, Pipe, Requests
<1>4. Typed(client, task)' /\ Shape(client, task)' /\ Lively(client, task)'
  BY <1>0, <1>1, <1>2 DEF Typed, Shape, Lively, Client, Jobs, Coroutines, Placed
<1>5. Fresh(client, task)' /\ Ordered(client, task, Issued)'
  <2>1. Fresh(client, task)'
    BY <1>0, <1>1, <1>2 DEF Fresh, NewClient
  <2>2. (\A g \in Gen : Ascending(client[g].queue) /\ Sent(pipe[g].req, client[g].queue, Issued))'
    BY <1>0, <1>1, <1>2 DEF Ordered, Sent
  <2>3. (\A a \in 1..Len(Writers) : a > Issued => task[Writers[a]] = Idle)'
    BY <1>0, <1>1, <1>2 DEF Ordered, Idle
  <2>4. (device.ram <= Issued /\ device.flash <= Issued)'
    BY <1>0, <1>1, <1>2 DEF Ordered
  <2> QED BY <2>1, <2>2, <2>3, <2>4 DEF Ordered
<1>6. Past(client)'
  BY <1>0, <1>1 DEF Past, Floor, Sets
<1>7. Steady(client)'
  BY <1>0, <1>1, <1>2 DEF Steady, Keeps, Paid, Covered, Serves
<1> QED BY <1>3, <1>4, <1>5, <1>6, <1>7 DEF Sound

(***************************************************************************)
(* Every behaviour.                                                        *)
(***************************************************************************)
\* A session begins.
LEMMA InitSound == ASSUME Init PROVE TypeOK /\ Sound(client, task, Issued)
<1>0. /\ use \in Uses /\ client = [g \in Gen |-> NewClient] /\ pipe = [g \in Gen |-> NewPipe]
      /\ cable = TRUE /\ task = [t \in Tasks |-> Idle]
      /\ host = [connected |-> FALSE, paused |-> FALSE, cache |-> FALSE, was |-> FALSE, cur |-> 0]
      /\ device = [ram |-> 0, flash |-> 0]
      /\ left = [writes |-> use.writes, losses |-> use.losses, cuts |-> use.cuts, raw |-> use.raw,
                 reconf |-> use.reconf]
      /\ ~failed /\ ~pulled /\ ~overtaken /\ ~crossed /\ ~revived
      /\ {failed, pulled, overtaken, crossed, revived} \subseteq BOOLEAN
  BY DEF Init
<1>1. /\ use.writes \in 0..Len(Writers) /\ use.losses \in Nat /\ use.cuts \in Nat
      /\ use.reconf \in Nat /\ use.diag \in BOOLEAN /\ use.raw \in BOOLEAN
      /\ 0 \in Gen /\ (\A g \in Gen : g \in Nat) /\ Len(Writers) \in Nat
  BY <1>0, UseIs, WritersAre
<1>2. /\ Idle \in Coroutines /\ NewClient \in Client /\ NewPipe \in Pipe
      /\ NewClient.queue = <<>> /\ NewClient.jobs = <<>> /\ ~NewClient.open /\ NewClient.up
      /\ ~NewClient.broken /\ ~NewPipe.dead /\ NewPipe.req = <<>> /\ Len(<<>>) = 0
      /\ Idle.at = "idle" /\ Idle.aw = "none" /\ Idle.gen = 0 /\ Idle.out = "none"
  BY <1>0, CoroutineTyped, NewTyped, Nothing DEF Idle
<1>3. left \in Lefts
  BY <1>0, <1>1 DEF Lefts
<1>4. device \in [ram : 0..use.writes, flash : 0..use.writes]
  BY <1>0, <1>1
<1>5. TypeOK
  BY <1>0, <1>1, <1>2, <1>3, <1>4 DEF TypeOK, Lefts
<1>6. Typed(client, task)
  BY <1>0, <1>2 DEF Typed
<1>7. Shape(client, task)
  <2>1. \A g \in Gen : Queues(client[g].queue, g, task) /\ Works(client[g].jobs, g, task)
    BY <1>0, <1>2 DEF Queues, Works
  <2>2. \A t \in Tasks : Fit(t, Idle) /\ Placed(client, t, Idle)
    BY <1>2, AtsAre DEF Fit, Placed, Locks
  <2> QED BY <1>0, <2>1, <2>2 DEF Shape
<1>8. Lively(client, task)
  <2>1. \A g \in Gen : Serves(client[g])
    BY <1>0, <1>2 DEF Serves
  <2> QED BY <1>0, <1>2, <2>1 DEF Lively
<1>9. Fresh(client, task)
  BY <1>0, <1>1, <1>2 DEF Fresh
<1>10. Ordered(client, task, Issued)
  <2>1. Issued = 0
    BY <1>0, <1>1 DEF Issued
  <2>2. \A a \in 1..Len(Writers) : task[Writers[a]] = Idle
    BY <1>0, WritersAre
  <2>3. \A g \in Gen : Ascending(client[g].queue) /\ Sent(pipe[g].req, client[g].queue, Issued)
    BY <1>0, <1>2 DEF Ascending, Sent
  <2>4. device.ram <= Issued /\ device.flash <= Issued
    BY <1>0, <2>1
  <2> QED BY <2>2, <2>3, <2>4 DEF Ordered
<1>11. Past(client)
  <2>1. Floor(pipe[host.cur].req, client[host.cur].queue)
    BY <1>0, <1>1, <1>2 DEF Floor
  <2> QED BY <1>0, <1>2, <2>1 DEF Past
<1>12. Steady(client)
  <2>1. Keeps(client[host.cur]) /\ Paid(client[host.cur], pipe[host.cur])
    BY <1>0, <1>1, <1>2 DEF Keeps, Serves, Paid
  <2> QED BY <1>0, <1>2, <2>1 DEF Steady
<1> QED BY <1>5, <1>6, <1>7, <1>8, <1>9, <1>10, <1>11, <1>12 DEF Sound

\* Nothing happens.
LEMMA SoundStays ==
  ASSUME TypeOK, Sound(client, task, Issued), UNCHANGED vars
  PROVE  TypeOK' /\ Sound(client, task, Issued)'
<1>0. /\ Typed(client, task) /\ Shape(client, task) /\ Lively(client, task) /\ Fresh(client, task)
      /\ Ordered(client, task, Issued) /\ Past(client) /\ Steady(client)
  BY DEF Sound
<1>1. /\ cable' = cable /\ left' = left /\ pipe' = pipe /\ client' = client /\ task' = task
      /\ use' = use /\ host' = host /\ device' = device /\ failed' = failed /\ pulled' = pulled
      /\ overtaken' = overtaken /\ crossed' = crossed /\ revived' = revived /\ Gen' = Gen
  BY DEF vars, Gen
<1>2. Issued' = Issued /\ Tasks' = Tasks /\ Spent' = Spent
  BY <1>1 DEF Issued, Tasks, Spent
<1>3. TypeOK'
  BY <1>1, <1>2 DEF TypeOK, Client, Jobs, Coroutines, Pipe, Requests
<1>4. Typed(client, task)' /\ Shape(client, task)' /\ Lively(client, task)'
  BY <1>0, <1>1, <1>2 DEF Typed, Shape, Lively, Client, Jobs, Coroutines, Placed
<1>5. Fresh(client, task)' /\ Ordered(client, task, Issued)'
  <2>1. Fresh(client, task)'
    BY <1>0, <1>1, <1>2 DEF Fresh, NewClient
  <2>2. (\A g \in Gen : Ascending(client[g].queue) /\ Sent(pipe[g].req, client[g].queue, Issued))'
    BY <1>0, <1>1, <1>2 DEF Ordered, Sent
  <2>3. (\A a \in 1..Len(Writers) : a > Issued => task[Writers[a]] = Idle)'
    BY <1>0, <1>1, <1>2 DEF Ordered, Idle
  <2>4. (device.ram <= Issued /\ device.flash <= Issued)'
    BY <1>0, <1>1, <1>2 DEF Ordered
  <2> QED BY <2>1, <2>2, <2>3, <2>4 DEF Ordered
<1>6. Past(client)'
  BY <1>0, <1>1 DEF Past, Floor, Sets
<1>7. Steady(client)'
  BY <1>0, <1>1, <1>2 DEF Steady, Keeps, Paid, Covered, Serves
<1> QED BY <1>3, <1>4, <1>5, <1>6, <1>7 DEF Sound

\* The types and the state of the clients survive every step.
LEMMA SoundNext ==
  ASSUME TypeOK, Sound(client, task, Issued), [Next]_vars
  PROVE  TypeOK' /\ Sound(client, task, Issued)'
<1>1. ASSUME NEW t \in Tasks, Coroutine(t)
      PROVE  TypeOK' /\ Sound(client, task, Issued)'
  BY <1>1, GrantedKeeps, BackKeeps, ClosedKeeps, PollOpenKeeps, PollOnceKeeps, OpenedKeeps,
     DebouncedSaveKeeps DEF Coroutine
<1>2. ASSUME NEW g \in Gen, Worker(g)
      PROVE  TypeOK' /\ Sound(client, task, Issued)'
  BY <1>2, OpenKeeps, CloseKeeps, AttemptKeeps, AnsweredKeeps, TimedOutKeeps DEF Worker
<1>3. ASSUME User PROVE TypeOK' /\ Sound(client, task, Issued)'
  BY <1>3, WriteKeeps, InstallKeeps, ReconfigureKeeps DEF User
<1>4. ASSUME Wire PROVE TypeOK' /\ Sound(client, task, Issued)'
  BY <1>4, CutKeeps, MendKeeps, BoardKeeps, RequestKeeps DEF Wire
<1>5. ASSUME UNCHANGED vars PROVE TypeOK' /\ Sound(client, task, Issued)'
  BY <1>5, SoundStays
<1> QED BY <1>1, <1>2, <1>3, <1>4, <1>5 DEF Next

(***************************************************************************)
(* What the poll knows of the settings.                                    *)
(***************************************************************************)
\* A step that leaves the board object and the poll's command as they are.
LEMMA CachingStays ==
  ASSUME TypeOK, Caching, use' = use, overtaken => overtaken', host' = host,
         task'["poll"].at = task["poll"].at, Good => Current(task'["poll"])
  PROVE  Caching'
<1>1. SUFFICES ASSUME Good' PROVE (host.connected => host.cache)' /\ Known(task["poll"].at)'
                                  /\ Current(task["poll"])'
  BY DEF Caching
<1>2. Good
  BY <1>1 DEF Good
<1>3. (host.connected => host.cache) /\ Known(task["poll"].at) /\ Current(task'["poll"])
  BY <1>2 DEF Caching
<1>4. Known(task["poll"].at)'
  BY <1>3 DEF Known
<1>5. Current(task["poll"])'
  BY <1>3 DEF Current
<1> QED BY <1>3, <1>4, <1>5

\* One that leaves its coroutine as it is.
LEMMA CachingSame ==
  ASSUME TypeOK, Caching, use' = use, overtaken => overtaken', host' = host,
         task'["poll"] = task["poll"]
  PROVE  Caching'
<1>1. Good => Current(task'["poll"])
  BY DEF Caching
<1> QED BY <1>1, CachingStays

\* A step that overtakes the poll, or finds it at rest.
LEMMA Unsuspended ==
  ASSUME TypeOK, Suspended => overtaken', ~host'.connected, task'["poll"] = task["poll"]
  PROVE  Caching'
<1>1. SUFFICES ASSUME Good' PROVE Known(task["poll"].at)' /\ Current(task["poll"])'
  BY DEF Caching
<1>2. task'["poll"].at \in {"idle", "dead", "open"}
  BY <1>1 DEF Good, Suspended
<1> QED BY <1>2 DEF Known, Current

\* The poll is at rest, and the link counts as it did, or as down.
LEMMA PollRests ==
  ASSUME TypeOK, Caching, use' = use, overtaken => overtaken',
         task'["poll"].at \in {"idle", "dead", "open"},
         \/ host' = host
         \/ ~host'.connected
         \/ host'.cache
  PROVE  Caching'
<1>1. SUFFICES ASSUME Good' PROVE (host.connected => host.cache)'
  BY DEF Caching, Known, Current
<1> QED BY <1>1 DEF Good, Caching

\* The poll asks for the next thing.
LEMMA PollAsks ==
  ASSUME TypeOK, NEW op \in Commands, NEW cl \in [Gen -> Client], Command("poll", op, cl)
  PROVE  /\ task'["poll"].at = op /\ task'["poll"].gen = host.cur
         /\ task'["poll"].aw \in {"lock", "exec"}
<1>1. "poll" \in Tasks /\ task \in [Tasks -> Coroutines]
  BY TasksAre, StateIs DEF Typed
<1>2. PICK aw \in {"lock", "exec"} : task' = Awaits(task, "poll", op, aw, host.cur)
  BY DEF Command
<1> QED BY <1>1, <1>2 DEF Awaits

\* With what it knows, the next command can be the one.
LEMMA AskedCaches ==
  ASSUME TypeOK, NEW op \in Commands, NEW cl \in [Gen -> Client], Command("poll", op, cl),
         host'.cur = host.cur, (host.connected => host.cache)', Known(op)'
  PROVE  Caching'
<1>1. /\ task'["poll"].at = op /\ task'["poll"].gen = host.cur
      /\ task'["poll"].aw \in {"lock", "exec"}
  BY PollAsks
<1>2. Current(task["poll"])'
  BY <1>1 DEF Current
<1> QED BY <1>1, <1>2 DEF Caching

\* The poll, with a good answer to its last command, goes on.
LEMMA PollGoesOn ==
  ASSUME TypeOK, Caching, Good, NEW cl \in [Gen -> Client], UNCHANGED use, overtaken => overtaken',
         Fit("poll", task["poll"]), task["poll"].aw \in {"back", "closed"},
         AfterPoll(task["poll"].at, TRUE, cl)
  PROVE  Caching'
<1> DEFINE at == task["poll"].at
<1>0. /\ host \in Hosts /\ (host.connected => host.cache) /\ Known(at)
      /\ "poll" \in Tasks /\ task \in [Tasks -> Coroutines]
      /\ {"diag.cycles", "diag.interval", "settings", "version"} \subseteq Commands
  BY HostTyped, TasksAre, StateIs DEF Caching, Typed, Commands
<1>1. at \in {"sta", "diag.cycles", "diag.interval", "settings", "version"}
  BY AtsAre DEF Fit
<1>2. ASSUME End("poll", cl) PROVE task'["poll"].at = "idle"
  BY <1>0, <1>2 DEF End, Idle
<1>3. ASSUME Caught(cl) PROVE Caching'
  <2>1. host' = [host EXCEPT !.connected = FALSE] /\ task'["poll"].at = "idle"
    BY <1>2, <1>3 DEF Caught
  <2>2. ~host'.connected
    BY <1>0, <2>1 DEF Hosts
  <2> QED BY <2>1, <2>2, PollRests
<1>4. ASSUME Polled(cl), host.cache PROVE Caching'
  <2>1. host' = [host EXCEPT !.connected = TRUE] /\ task'["poll"].at = "idle"
    BY <1>2, <1>4 DEF Polled
  <2>2. host'.cache
    BY <1>0, <1>4, <2>1 DEF Hosts
  <2> QED BY <2>1, <2>2, PollRests
<1>5. ASSUME NEW op \in {"diag.cycles", "diag.interval", "settings"}, PollCommand(op, cl),
             op = "settings" \/ host.was \/ host.cache
      PROVE  Caching'
  <2>1. CASE Refuses(cl)
    BY <1>3, <1>5, <2>1 DEF PollCommand
  <2>2. CASE ~Refuses(cl)
    <3>1. Command("poll", op, cl) /\ host' = host
      BY <1>5, <2>2 DEF PollCommand
    <3>2. Known(op)'
      BY <1>5, <3>1 DEF Known
    <3> QED BY <1>0, <1>5, <3>1, <3>2, AskedCaches
  <2> QED BY <2>1, <2>2
<1>6. ASSUME Refresh(cl), host.was \/ host.cache PROVE Caching'
  BY <1>4, <1>5, <1>6 DEF Refresh
<1>7. CASE at = "sta"
  <2>1. Refresh(cl) \/ PollCommand("diag.cycles", cl)
    BY <1>7 DEF AfterPoll
  <2>2. host.was \/ host.cache
    BY <1>0, <1>7 DEF Known
  <2> QED BY <1>5, <1>6, <2>1, <2>2
<1>8. CASE at = "diag.cycles"
  <2>1. PollCommand("diag.interval", cl)
    BY <1>8 DEF AfterPoll
  <2>2. host.was \/ host.cache
    BY <1>0, <1>8 DEF Known
  <2> QED BY <1>5, <2>1, <2>2
<1>9. CASE at = "diag.interval"
  <2>1. Refresh(cl)
    BY <1>9 DEF AfterPoll
  <2>2. host.was \/ host.cache
    BY <1>0, <1>9 DEF Known
  <2> QED BY <1>6, <2>1, <2>2
<1>10. CASE at = "settings"
  <2>1. IF Refuses(cl)
        THEN End("poll", cl) /\ host' = [host EXCEPT !.connected = FALSE, !.cache = @ \/ TRUE]
        ELSE Command("poll", "version", cl) /\ host' = [host EXCEPT !.cache = @ \/ TRUE]
    BY <1>10 DEF AfterPoll
  <2> DEFINE b == host.cache \/ TRUE
  <2>2. /\ b = TRUE
        /\ \/ /\ Refuses(cl) /\ End("poll", cl)
              /\ host' = [host EXCEPT !.connected = FALSE, !.cache = b]
           \/ ~Refuses(cl) /\ Command("poll", "version", cl) /\ host' = [host EXCEPT !.cache = b]
    BY <2>1
  <2> HIDE DEF b
  <2>3. CASE Refuses(cl)
    <3>1. host' = [host EXCEPT !.connected = FALSE, !.cache = TRUE] /\ task'["poll"].at = "idle"
      BY <1>2, <2>2, <2>3
    <3>2. host'.cache
      BY <1>0, <3>1 DEF Hosts
    <3> QED BY <3>1, <3>2, PollRests
  <2>4. CASE ~Refuses(cl)
    <3>1. host' = [host EXCEPT !.cache = TRUE] /\ Command("poll", "version", cl)
      BY <2>2, <2>4
    <3>2. host'.cache /\ host'.cur = host.cur
      BY <1>0, <3>1 DEF Hosts
    <3>3. Known("version")' /\ (host.connected => host.cache)'
      BY <3>2 DEF Known
    <3> QED BY <1>0, <3>1, <3>2, <3>3, AskedCaches
  <2> QED BY <2>3, <2>4
<1>11. CASE at = "version"
  <2>1. Polled(cl) /\ host.cache
    BY <1>0, <1>11 DEF AfterPoll, Known
  <2> QED BY <1>4, <2>1
<1> QED BY <1>1, <1>7, <1>8, <1>9, <1>10, <1>11

\* A round of the poll begins.
LEMMA StaCaches ==
  ASSUME TypeOK, Caching, NEW cl \in [Gen -> Client], UNCHANGED use, overtaken => overtaken',
         PollSta(cl)
  PROVE  Caching'
<1>0. /\ host \in Hosts /\ "poll" \in Tasks /\ task \in [Tasks -> Coroutines] /\ "sta" \in Commands
  BY HostTyped, TasksAre, StateIs DEF Typed, Commands
<1>1. ASSUME End("poll", cl) PROVE task'["poll"].at = "idle"
  BY <1>0, <1>1 DEF End, Idle
<1>2. CASE host.paused
  BY <1>1, <1>2, PollRests DEF PollSta
<1>3. CASE ~host.paused /\ Refuses(cl)
  <2>1. host' = [host EXCEPT !.connected = FALSE] /\ task'["poll"].at = "idle"
    BY <1>1, <1>3 DEF PollSta, Caught
  <2>2. ~host'.connected
    BY <1>0, <2>1 DEF Hosts
  <2> QED BY <2>1, <2>2, PollRests
<1>4. CASE ~host.paused /\ ~Refuses(cl)
  <2> DEFINE b == ~host.connected
  <2>1. Command("poll", "sta", cl) /\ host' = [host EXCEPT !.was = b]
    BY <1>4 DEF PollSta
  <2>2. /\ host'.was = b /\ host'.connected = host.connected /\ host'.cache = host.cache
        /\ host'.cur = host.cur
    BY <1>0, <2>1 DEF Hosts
  <2>3. Good' => Good
    BY DEF Good
  <2>4. Good' => (host.connected => host.cache)' /\ Known("sta")'
    BY <2>2, <2>3 DEF Caching, Known
  <2>5. /\ task'["poll"].at = "sta" /\ task'["poll"].gen = host.cur
        /\ task'["poll"].aw \in {"lock", "exec"}
    BY <1>0, <2>1, PollAsks
  <2>6. Current(task["poll"])'
    BY <2>2, <2>5 DEF Current
  <2> QED BY <2>4, <2>5, <2>6 DEF Caching
<1> QED BY <1>2, <1>3, <1>4

\* Where a coroutine is left, when only it and the save change.
LEMMA PollElse ==
  ASSUME TypeOK, NEW t \in Tasks, t # "poll", NEW cl,
         End(t, cl) \/ ScheduleSave(t, cl)
  PROVE  task'["poll"] = task["poll"]
<1>1. "poll" \in Tasks /\ task \in [Tasks -> Coroutines]
  BY TasksAre, StateIs DEF Typed
<1> QED BY <1>1 DEF End, ScheduleSave

\* What the writers, the save and the updater do when a command is over.
LEMMA OthersCache ==
  ASSUME TypeOK, Caching, NEW t \in Tasks, t # "poll", NEW cl, NEW ok,
         After(t, ok, cl) \/ Crashes(t, cl), Histories(t)
  PROVE  Caching'
<1>0. use' = use /\ overtaken' = (overtaken \/ (t = "update" /\ Suspended)) /\ host \in Hosts
  BY HostTyped DEF Histories
<1>1. CASE t = "update"
  <2>1. End(t, cl) /\ host' = [host EXCEPT !.cache = FALSE, !.connected = FALSE, !.paused = FALSE]
    BY <1>1 DEF After, Crashes, Resume
  <2>2. task'["poll"] = task["poll"]
    BY <1>1, <2>1, PollElse
  <2>3. ~host'.connected
    BY <1>0, <2>1 DEF Hosts
  <2> QED BY <1>0, <1>1, <2>2, <2>3, Unsuspended
<1>2. CASE t # "update"
  <2>1. (End(t, cl) \/ ScheduleSave(t, cl)) /\ host' = host
    BY <1>2 DEF After, Crashes
  <2>2. task'["poll"] = task["poll"]
    BY <2>1, PollElse
  <2> QED BY <1>0, <2>1, <2>2, CachingSame
<1> QED BY <1>1, <1>2

\* What the invariant says of a poll with a command, where every command is answered.
LEMMA PollSteady ==
  ASSUME TypeOK, Sound(client, task, Issued), Caching, Good
  PROVE  /\ Keeps(client[host.cur]) /\ Paid(client[host.cur], pipe[host.cur])
         /\ ~pipe[host.cur].dead
         /\ Current(task["poll"]) /\ Fit("poll", task["poll"]) /\ "poll" \in Tasks
         /\ task["poll"] \in Coroutines /\ client \in [Gen -> Client] /\ host.cur \in Gen
<1>1. Steady(client) /\ Shape(client, task) /\ Typed(client, task) /\ use.cuts = 0
  BY DEF Sound, Good
<1>2. "poll" \in Tasks /\ host.cur \in Gen /\ host.cur >= host.cur
  BY TasksAre, StateIs
<1> QED BY <1>1, <1>2 DEF Steady, Shape, Typed, Caching

\* The lock passes on.
LEMMA GrantedCaches ==
  ASSUME TypeOK, Sound(client, task, Issued), Caching, NEW t \in Tasks, Granted(t)
  PROVE  Caching'
<1> DEFINE g == task[t].gen
<1>0. "poll" \in Tasks /\ task \in [Tasks -> Coroutines]
  BY TasksAre, StateIs DEF Typed
<1>1. CASE client[g].up
  <2>1. /\ task' = [task EXCEPT ![t] = [task[t] EXCEPT !.aw = "exec"]]
        /\ Keep /\ host' = host
    BY <1>0, <1>1 DEF Granted
  <2>2. use' = use /\ overtaken' = overtaken
    BY <2>1 DEF Keep, Unhurt
  <2>3. CASE t # "poll"
    BY <1>0, <2>1, <2>2, <2>3, CachingSame
  <2>4. CASE t = "poll"
    <3>1. task[t] \in Coroutines /\ task'["poll"] = [task[t] EXCEPT !.aw = "exec"]
      BY <1>0, <2>1, <2>4
    <3>2. /\ task'["poll"].at = task["poll"].at /\ task'["poll"].gen = task["poll"].gen
          /\ task'["poll"].aw = "exec"
      BY <2>4, <3>1 DEF Coroutines
    <3>3. Good => Current(task'["poll"])
      BY <3>2 DEF Current, Caching
    <3> QED BY <2>1, <2>2, <3>2, <3>3, CachingStays
  <2> QED BY <2>3, <2>4
<1>2. CASE ~client[g].up
  <2>1. Crashes(t, Release(client, g)) /\ Histories(t)
    BY <1>2 DEF Granted
  <2>2. CASE t # "poll"
    <3> DEFINE cl == Release(client, g)
    <3> HIDE DEF cl
    <3>1. Crashes(t, cl)
      BY <2>1 DEF cl
    <3> QED BY <2>1, <2>2, <3>1, OthersCache
  <2>3. CASE t = "poll"
    <3>1. task'["poll"].at = "dead" /\ host' = host
      BY <1>0, <2>1, <2>3 DEF Crashes, Dies, Idle
    <3>2. use' = use /\ (overtaken => overtaken')
      BY <2>1 DEF Histories
    <3> QED BY <3>1, <3>2, PollRests
  <2> QED BY <2>2, <2>3
<1> QED BY <1>1, <1>2

\* A command is over.
LEMMA BackCaches ==
  ASSUME TypeOK, Sound(client, task, Issued), Caching, NEW t \in Tasks, Back(t)
  PROVE  Caching'
<1> DEFINE g == task[t].gen
           ok == task[t].out = "ok"
           cl == [Release(client, g) EXCEPT ![g] = IF t = "update" THEN @ ELSE Marked(@, ok)]
<1>0. /\ "poll" \in Tasks /\ task \in [Tasks -> Coroutines] /\ task[t].aw = "back"
      /\ client \in [Gen -> Client] /\ task[t] \in Coroutines /\ g \in Gen
  BY TasksAre, StateIs, CoroutineIs DEF Typed, Back
<1>1. /\ task[t].out = "crash" => Crashes(t, Release(client, g)) /\ Histories(t)
      /\ task[t].out # "crash" /\ (~cl[g].broken \/ t = "update") =>
           After(t, ok, cl) /\ Histories(t)
      /\ task[t].out # "crash" /\ cl[g].broken /\ t # "update" =>
           /\ \E aw : task' = [task EXCEPT ![t].aw = aw]
           /\ UNCHANGED <<use, host, overtaken>>
  BY DEF Back
<1>2. CASE t # "poll"
  <2>1. CASE task[t].out = "crash"
    <3> DEFINE c == Release(client, g)
    <3> HIDE DEF c
    <3>1. Crashes(t, c) /\ Histories(t)
      BY <1>1, <2>1 DEF c
    <3> QED BY <1>2, <3>1, OthersCache
  <2>2. CASE task[t].out # "crash" /\ (~cl[g].broken \/ t = "update")
    <3>1. After(t, ok, cl) /\ Histories(t)
      BY <1>1, <2>2
    <3> HIDE DEF cl, ok
    <3> QED BY <1>2, <3>1, OthersCache
  <2>3. CASE task[t].out # "crash" /\ cl[g].broken /\ t # "update"
    <3>1. task'["poll"] = task["poll"] /\ UNCHANGED <<use, host, overtaken>>
      BY <1>0, <1>1, <1>2, <2>3
    <3> QED BY <3>1, CachingSame
  <2> QED BY <2>1, <2>2, <2>3
<1>3. CASE t = "poll"
  <2>1. Good' => Good
    <3>1. use' = use /\ (overtaken => overtaken')
      <4> HIDE DEF cl, ok
      <4>1. Histories(t) => use' = use /\ (overtaken => overtaken')
        BY DEF Histories
      <4>2. CASE task[t].out = "crash"
        BY <1>1, <4>1, <4>2
      <4>3. CASE task[t].out # "crash" /\ (~cl[g].broken \/ t = "update")
        BY <1>1, <4>1, <4>3
      <4>4. CASE task[t].out # "crash" /\ cl[g].broken /\ t # "update"
        BY <1>1, <4>4
      <4> QED BY <4>2, <4>3, <4>4
    <3> QED BY <3>1 DEF Good
  <2>2. CASE ~Good
    BY <2>1, <2>2 DEF Caching
  <2>3. CASE Good
    <3>1. /\ Keeps(client[host.cur]) /\ Current(task["poll"]) /\ Fit("poll", task["poll"])
      BY <2>3, PollSteady
    <3>2. task["poll"].at \notin {"idle", "dead", "open"}
      BY <1>0, <1>3, <3>1 DEF Fit
    <3>3. g = host.cur /\ task[t].out = "ok"
      BY <1>0, <1>3, <3>1, <3>2 DEF Current
    <3>4. cl \in [Gen -> Client] /\ ~cl[g].broken
      <4> DEFINE r == Release(client, g)
                 c == r[g]
      <4>1. Locks(task[t])
        BY <1>0 DEF Locks
      <4>2. client[g].queue # <<>>
        BY <1>0, <4>1, FirstIs
      <4>3. r \in [Gen -> Client]
        BY <1>0, <4>2, ReleaseIs DEF Only
      <4>4. c.broken = client[g].broken /\ c \in Client
        BY <1>0, <4>3 DEF Release, Client
      <4>5. Marked(c, ok) \in Client /\ Marked(c, ok).broken = c.broken
        <5>1. ok \in BOOLEAN
          OBVIOUS
        <5> HIDE DEF ok, c
        <5> QED BY <4>4, <5>1, MarkedIs
      <4>6. cl = [r EXCEPT ![g] = Marked(c, ok)]
        BY <1>3, <4>3
      <4>7. ~client[g].broken
        BY <3>1, <3>3 DEF Keeps
      <4> HIDE DEF r, c, ok, cl
      <4> QED BY <1>0, <4>3, <4>4, <4>5, <4>6, <4>7
    <3>5. After(t, ok, cl) /\ Histories(t) /\ ok = TRUE
      BY <1>1, <3>3, <3>4
    <3>6. AfterPoll(task["poll"].at, TRUE, cl)
      <4> HIDE DEF cl
      <4> QED BY <1>3, <3>5 DEF After
    <3>7. use' = use /\ (overtaken => overtaken')
      BY <3>5 DEF Histories
    <3> HIDE DEF cl
    <3> QED BY <1>0, <1>3, <2>3, <3>1, <3>4, <3>6, <3>7, PollGoesOn
  <2> QED BY <2>2, <2>3
<1> QED BY <1>2, <1>3

\* A broken transport is closed.
LEMMA ClosedCaches ==
  ASSUME TypeOK, Sound(client, task, Issued), Caching, NEW t \in Tasks, Closed(t)
  PROVE  Caching'
<1> DEFINE ok == task[t].out = "ok"
<1>0. /\ After(t, ok, client) /\ Histories(t) /\ task[t].aw = "closed"
      /\ use' = use /\ (overtaken => overtaken')
  BY DEF Closed, Histories
<1>2. CASE t # "poll"
  <2> HIDE DEF ok
  <2> QED BY <1>0, <1>2, OthersCache
<1>3. CASE t = "poll"
  <2>2. CASE ~Good
    BY <1>0, <2>2 DEF Caching, Good
  <2>3. CASE Good
    <3>1. Current(task["poll"]) /\ Fit("poll", task["poll"]) /\ client \in [Gen -> Client]
      BY <2>3, PollSteady
    <3>2. task["poll"].at \notin {"idle", "dead", "open"}
      BY <1>0, <1>3, <3>1 DEF Fit
    <3>3. ok = TRUE
      BY <1>0, <1>3, <3>1, <3>2 DEF Current
    <3>4. AfterPoll(task["poll"].at, TRUE, client)
      BY <1>0, <1>3, <3>3 DEF After
    <3> QED BY <1>0, <1>3, <2>3, <3>1, <3>4, PollGoesOn
  <2> QED BY <2>2, <2>3
<1> QED BY <1>2, <1>3

\* The poll opens its client, or begins a round.
LEMMA PollCaches ==
  ASSUME TypeOK, Sound(client, task, Issued), Caching, PollOpen \/ PollOnce \/ Opened
  PROVE  Caching'
<1>0. /\ "poll" \in Tasks /\ task \in [Tasks -> Coroutines] /\ client \in [Gen -> Client]
      /\ host \in Hosts
  BY TasksAre, StateIs, HostTyped DEF Typed
<1>1. CASE PollOpen
  <2>1. /\ task' = Awaits(task, "poll", "open", "exec", host.cur) /\ host' = host
        /\ use' = use /\ overtaken' = overtaken
    BY <1>1 DEF PollOpen, Keep, Unhurt
  <2>2. task'["poll"].at = "open"
    BY <1>0, <2>1 DEF Awaits
  <2> QED BY <2>1, <2>2, PollRests
<1>2. CASE PollOnce
  <2>1. PollSta(client) /\ use' = use /\ overtaken' = overtaken
    BY <1>2 DEF PollOnce, Keep, Unhurt
  <2> QED BY <1>0, <2>1, StaCaches
<1>3. CASE Opened
  <2> DEFINE g == task["poll"].gen
             ok == task["poll"].out = "ok"
             cl == [client EXCEPT ![g].open = @ \/ ok]
  <2>1. /\ IF ok THEN PollSta(cl) ELSE Caught(client)
        /\ use' = use /\ overtaken' = overtaken
    BY <1>3 DEF Opened, Unhurt
  <2>2. CASE ok
    <3>1. client[g] \in Client /\ g \in Gen
      BY <1>0, CoroutineIs
    <3> DEFINE b == client[g].open \/ ok
    <3>2. b \in BOOLEAN /\ cl = [client EXCEPT ![g] = [client[g] EXCEPT !.open = b]]
      BY <1>0, <3>1
    <3> HIDE DEF b
    <3>3. [client[g] EXCEPT !.open = b] \in Client
      BY <3>1, <3>2 DEF Client
    <3>4. cl \in [Gen -> Client]
      BY <1>0, <3>1, <3>2, <3>3
    <3>5. PollSta(cl)
      BY <2>1, <2>2
    <3> HIDE DEF cl
    <3> QED BY <2>1, <3>4, <3>5, StaCaches
  <2>3. CASE ~ok
    <3>1. task'["poll"].at = "idle" /\ host' = [host EXCEPT !.connected = FALSE]
      BY <1>0, <2>1, <2>3 DEF Caught, End, Idle
    <3>2. ~host'.connected
      BY <1>0, <3>1 DEF Hosts
    <3> QED BY <2>1, <3>1, <3>2, PollRests
  <2> QED BY <2>2, <2>3
<1> QED BY <1>1, <1>2, <1>3

\* The save, the writers and the updater ask for a command.
LEMMA ElseAsks ==
  ASSUME TypeOK, NEW t, t # "poll", NEW op, NEW cl, Command(t, op, cl)
  PROVE  task'["poll"] = task["poll"]
<1>1. "poll" \in Tasks /\ task \in [Tasks -> Coroutines]
  BY TasksAre, StateIs DEF Typed
<1>2. PICK aw \in {"lock", "exec"} : task' = Awaits(task, t, op, aw, host.cur)
  BY DEF Command
<1> QED BY <1>1, <1>2 DEF Awaits

\* The save asks for its command, or is given up.
LEMMA SaveCaches ==
  ASSUME TypeOK, Caching, DebouncedSave
  PROVE  Caching'
<1>1. /\ host' = host /\ use' = use /\ overtaken' = overtaken
      /\ End("save", client) \/ Command("save", "save", client)
  BY DEF DebouncedSave
<1>2. "save" \in Tasks
  BY TasksAre
<1>3. task'["poll"] = task["poll"]
  BY <1>1, <1>2, PollElse, ElseAsks
<1> QED BY <1>1, <1>3, CachingSame

\* The user writes, changes the connection, or updates the firmware.
LEMMA UserCaches ==
  ASSUME TypeOK, Sound(client, task, Issued), Caching, User
  PROVE  Caching'
<1>0. host \in Hosts /\ "update" \in Tasks /\ Issued \in Nat
  BY HostTyped, TasksAre, StateIs, UseIs
<1>1. CASE WritePersisted
  <2> DEFINE n == Writers[use.writes - left.writes + 1]
  <2>1. /\ host' = host /\ use' = use /\ overtaken' = overtaken
        /\ UNCHANGED task \/ Command(n, "set", client)
        /\ left.writes > 0
    BY <1>1 DEF WritePersisted
  <2>2. n # "poll"
    <3>1. use.writes - left.writes + 1 \in 1..Len(Writers)
      <4>1. left.writes \in 0..use.writes /\ use.writes \in 0..Len(Writers) /\ Len(Writers) \in Nat
        BY StateIs, UseIs, WritersAre
      <4> QED BY <2>1, <4>1
    <3> QED BY <3>1, WritersAre
  <2> HIDE DEF n
  <2>3. task'["poll"] = task["poll"]
    BY <2>1, <2>2, ElseAsks
  <2> QED BY <2>1, <2>3, CachingSame
<1>2. CASE Install
  <2>0. /\ overtaken' = (overtaken \/ (Refuses(client) /\ Suspended)) /\ use' = use
        /\ IF Refuses(client) THEN Resume(client)
           ELSE Command("update", "raw", client) /\ host' = [host EXCEPT !.paused = TRUE]
    BY <1>2 DEF Install
  <2>1. CASE Refuses(client)
    <3>1. /\ End("update", client)
          /\ host' = [host EXCEPT !.cache = FALSE, !.connected = FALSE, !.paused = FALSE]
          /\ Suspended => overtaken'
      BY <2>0, <2>1 DEF Resume
    <3>2. task'["poll"] = task["poll"]
      BY <1>0, <3>1, PollElse
    <3>3. ~host'.connected
      BY <1>0, <3>1 DEF Hosts
    <3> QED BY <3>1, <3>2, <3>3, Unsuspended
  <2>2. CASE ~Refuses(client)
    <3>1. /\ Command("update", "raw", client) /\ host' = [host EXCEPT !.paused = TRUE]
          /\ Good' => Good
      BY <2>0, <2>2 DEF Good
    <3>2. task'["poll"] = task["poll"]
      BY <3>1, ElseAsks
    <3>3. /\ host'.connected = host.connected /\ host'.cache = host.cache
          /\ host'.was = host.was /\ host'.cur = host.cur
      BY <1>0, <3>1 DEF Hosts
    <3>4. Known(task["poll"].at) => Known(task["poll"].at)'
      BY <3>2, <3>3 DEF Known
    <3>5. Current(task["poll"]) => Current(task["poll"])'
      BY <3>2, <3>3 DEF Current
    <3> QED BY <3>1, <3>3, <3>4, <3>5 DEF Caching
  <2> QED BY <2>1, <2>2
<1>3. CASE Reconfigure
  <2>1. /\ host' = [host EXCEPT !.cur = host.cur + 1, !.cache = FALSE, !.connected = FALSE,
                                !.paused = FALSE]
        /\ task' = task /\ overtaken' = (overtaken \/ Suspended)
    BY <1>3 DEF Reconfigure
  <2>2. ~host'.connected
    BY <1>0, <2>1 DEF Hosts
  <2> QED BY <2>1, <2>2, Unsuspended
<1> QED BY <1>1, <1>2, <1>3 DEF User

\* The board and the wire.
LEMMA WireCaches ==
  ASSUME TypeOK, Caching, Wire
  PROVE  Caching'
<1>1. UNCHANGED <<use, task, host, overtaken>>
  BY DEF Wire, Cut, Mend, BoardAnswers, RequestGarbled, RequestLost
<1> QED BY <1>1, CachingSame

\* The worker of client g hands out: where every command is answered, the poll gets good news.
LEMMA FinishCaches ==
  ASSUME TypeOK, Sound(client, task, Issued), Caching, NEW g \in Gen, Working(g),
         UNCHANGED <<use, host, overtaken>>, Top(g).op # "close",
         NEW cl, NEW aw, NEW out, Finish(g, cl, aw, out),
         Good /\ Top(g).task = "poll" /\ Top(g).op # "open" /\ g = host.cur => out = "ok"
  PROVE  Caching'
<1> DEFINE j == Top(g)
           w == task["poll"]
<1>0. /\ "poll" \in Tasks /\ task \in [Tasks -> Coroutines] /\ w \in Coroutines
      /\ JobOK(j, g, task) /\ j.task \in Tasks \cup {"none"}
  BY TopAre, TasksAre
<1>1. CASE j.task # "poll"
  <2>1. task'["poll"] = task["poll"]
    BY <1>0, <1>1 DEF Finish
  <2> QED BY <2>1, CachingSame
<1>2. CASE j.task = "poll"
  <2>1. task' = [task EXCEPT !["poll"] = [w EXCEPT !.aw = aw, !.out = out]]
    BY <1>0, <1>2 DEF Finish
  <2>2. w.gen = g /\ w.at = j.op
    BY <1>0, <1>2 DEF JobOK, Served
  <2>3. task'["poll"].at = w.at /\ task'["poll"].gen = w.gen /\ task'["poll"].out = out
    BY <1>0, <2>1 DEF Coroutines
  <2>4. Good => Current(task'["poll"])
    BY <1>2, <2>2, <2>3 DEF Caching, Current
  <2> QED BY <2>3, <2>4, CachingStays
<1> QED BY <1>1, <1>2

\* Where every command is answered, one of the current client never fails.
LEMMA Answers ==
  ASSUME TypeOK, Sound(client, task, Issued), Caching, NEW g \in Gen, Working(g), Good,
         g = host.cur,
         Waiting(g), Top(g).task = "poll", Top(g).op # "open"
  PROVE  /\ Top(g).op # "raw" /\ ~pipe[g].dead
         /\ Lost(pipe[g]) \/ left.losses > 0 => Top(g).try # Retries
<1>0. /\ JobOK(Top(g), g, task) /\ Top(g) \in Jobs /\ Top(g) = client[g].jobs[1]
      /\ client[g].jobs # <<>>
      /\ Paid(client[g], pipe[g]) /\ ~pipe[g].dead /\ Fit("poll", task["poll"])
      /\ Top(g).st = "wait" /\ use.losses < Retries
  BY TopAre, PollSteady DEF Waiting, Good
<1>1. Top(g).op # "close"
  BY <1>0 DEF JobOK, Untried
<1>2. Top(g).op = task["poll"].at
  BY <1>0, <1>1 DEF JobOK, Served
<1>3. Top(g).op # "raw"
  BY <1>0, <1>2, AtsAre DEF Fit
<1>4. Top(g).try <= Spent + 1 /\ (Lost(pipe[g]) => Top(g).try <= Spent)
  BY <1>0 DEF Paid, Covered
<1>5. Lost(pipe[g]) \/ left.losses > 0 => Top(g).try # Retries
  <2>1. left.losses \in 0..use.losses /\ use.losses \in Nat /\ Retries \in Nat
    BY StateIs, UseIs, LimitAssumption
  <2>2. Spent <= use.losses /\ (left.losses > 0 => Spent + 1 <= use.losses) /\ Spent \in Int
    BY <2>1 DEF Spent
  <2> QED BY <1>0, <1>4, <2>1, <2>2
<1> QED BY <1>0, <1>3, <1>5

\* Steps of the worker.
LEMMA WorkerCaches ==
  ASSUME TypeOK, Sound(client, task, Issued), Caching, NEW g \in Gen, Worker(g)
  PROVE  Caching'
<1>0. /\ UNCHANGED <<use, host, overtaken>> /\ Working(g)
      /\ "poll" \in Tasks /\ task \in [Tasks -> Coroutines]
  BY TasksAre, StateIs DEF Worker, OpenTransport, CloseTransport, Attempt, Answered, TimedOut,
     Waiting,
     WorkerKeeps, WireKeeps, Typed
<1>1. ASSUME task' = task PROVE Caching'
  BY <1>0, <1>1, CachingSame
<1>2. CASE OpenTransport(g)
  <2>1. Top(g).op = "open" /\ Finish(g, client, "opened", IF cable THEN "ok" ELSE "fail")
    BY <1>2 DEF OpenTransport
  <2> DEFINE out == IF cable THEN "ok" ELSE "fail"
  <2>2. Finish(g, client, "opened", out)
    BY <2>1
  <2> HIDE DEF out
  <2> QED BY <1>0, <2>1, <2>2, FinishCaches
<1>3. CASE CloseTransport(g)
  <2> DEFINE t == Top(g).task
  <2>1. /\ Top(g).op = "close" /\ JobOK(Top(g), g, task) /\ t \in Tasks \cup {"none"}
        /\ task' = IF t = "none" THEN task ELSE [task EXCEPT ![t].aw = "closed"]
    BY <1>0, <1>3, TopAre DEF CloseTransport
  <2>2. CASE t # "poll"
    <3>1. task'["poll"] = task["poll"]
      BY <1>0, <2>1, <2>2
    <3> QED BY <1>0, <3>1, CachingSame
  <2>3. CASE t = "poll"
    <3>1. task["poll"].aw = "close" /\ task["poll"] \in Coroutines
      BY <1>0, <2>1, <2>3 DEF JobOK, Served
    <3>2. task'["poll"] = [task["poll"] EXCEPT !.aw = "closed"]
      BY <1>0, <2>1, <2>3
    <3>3. /\ task'["poll"].at = task["poll"].at /\ task'["poll"].gen = task["poll"].gen
          /\ task'["poll"].out = task["poll"].out
      BY <3>1, <3>2 DEF Coroutines
    <3>4. Good => Current(task'["poll"])
      BY <3>1, <3>3 DEF Caching, Current
    <3> QED BY <1>0, <3>3, <3>4, CachingStays
  <2> QED BY <2>2, <2>3
<1>4. CASE Attempt(g)
  <2>1. /\ Top(g).op \notin {"open", "close"} /\ 1 \in 1..Len(client[g].jobs)
        /\ Top(g) = client[g].jobs[1] /\ client[g] \in Client
    BY <1>0, <1>4, TopAre DEF Attempt
  <2>2. Good /\ g = host.cur => client[g].open /\ ~pipe[g].dead
    BY <2>1, PollSteady DEF Keeps, Serves
  <2>3. \/ ~client[g].open /\ Finish(g, client, "back", "crash")
        \/ client[g].open /\ pipe[g].dead /\ Finish(g, Broken(g), "back", "fail")
        \/ task' = task
    BY <1>4 DEF Attempt
  <2>4. CASE ~client[g].open /\ Finish(g, client, "back", "crash")
    BY <1>0, <2>1, <2>2, <2>4, FinishCaches
  <2>5. CASE client[g].open /\ pipe[g].dead /\ Finish(g, Broken(g), "back", "fail")
    BY <1>0, <2>1, <2>2, <2>5, FinishCaches
  <2> QED BY <1>1, <2>3, <2>4, <2>5
<1>5. ASSUME Waiting(g), Top(g).op # "close", Retry(g),
             Lost(pipe[g]) \/ left.losses > 0 \/ pipe[g].dead
      PROVE  Caching'
  <2>1. CASE Top(g).try = Retries \/ Top(g).op = "raw"
    <3>1. Finish(g, client, "back", "fail")
      BY <1>5, <2>1 DEF Retry
    <3>2. Good /\ Top(g).task = "poll" /\ Top(g).op # "open" /\ g = host.cur => FALSE
      BY <1>0, <1>5, <2>1, Answers
    <3> QED BY <1>0, <1>5, <3>1, <3>2, FinishCaches
  <2>2. CASE ~(Top(g).try = Retries \/ Top(g).op = "raw")
    BY <1>1, <1>5, <2>2 DEF Retry
  <2> QED BY <2>1, <2>2
<1>6. CASE Answered(g)
  <2> DEFINE a == Head(pipe[g].ans)
             taken == a = "ok" \/ (a = "glitch" /\ Top(g).try = Retries)
  <2>1. /\ Waiting(g) /\ pipe[g].ans # <<>>
        /\ IF taken THEN Finish(g, client, "back", "ok") ELSE Retry(g)
    BY <1>6 DEF Answered
  <2>2. Top(g).op # "close"
    BY <1>0, <2>1, TopAre DEF JobOK, Untried, Waiting
  <2>3. CASE taken
    BY <1>0, <2>1, <2>2, <2>3, FinishCaches
  <2>4. CASE ~taken
    <3>1. Lost(pipe[g])
      BY <2>1, <2>4 DEF Lost
    <3> QED BY <1>5, <2>1, <2>2, <2>4, <3>1
  <2> QED BY <2>3, <2>4
<1>7. CASE TimedOut(g)
  <2>1. /\ Waiting(g) /\ pipe[g].ans = <<>>
        /\ (pipe[g].dead \/ pipe[g].req = <<>> \/ left.losses > 0)
        /\ Retry(g) \/ (pipe[g].dead /\ Finish(g, Broken(g), "back", "fail"))
    BY <1>7 DEF TimedOut
  <2>2. Top(g).op # "close"
    BY <1>0, <2>1, TopAre DEF JobOK, Untried, Waiting
  <2>3. CASE Retry(g)
    BY <1>5, <2>1, <2>2, <2>3 DEF Lost
  <2>4. CASE pipe[g].dead /\ Finish(g, Broken(g), "back", "fail")
    <3>1. Good /\ Top(g).task = "poll" /\ Top(g).op # "open" /\ g = host.cur => FALSE
      BY <1>0, <2>1, <2>4, Answers
    <3> QED BY <1>0, <2>2, <2>4, <3>1, FinishCaches
  <2> QED BY <2>1, <2>3, <2>4
<1> QED BY <1>2, <1>3, <1>4, <1>6, <1>7 DEF Worker

\* What the poll knows survives every step.
LEMMA CachingNext ==
  ASSUME TypeOK, Sound(client, task, Issued), Caching, [Next]_vars
  PROVE  Caching'
<1>1. ASSUME NEW t \in Tasks, Coroutine(t) PROVE Caching'
  BY <1>1, GrantedCaches, BackCaches, ClosedCaches, PollCaches, SaveCaches DEF Coroutine
<1>2. ASSUME UNCHANGED vars PROVE Caching'
  <2>1. use' = use /\ host' = host /\ task' = task /\ overtaken' = overtaken
    BY <1>2 DEF vars
  <2> QED BY <2>1, CachingSame
<1> QED BY <1>1, <1>2, WorkerCaches, UserCaches, WireCaches DEF Next

\* The inductive invariant holds of every behaviour: the queues of the clients, the jobs of their
\* workers and what their coroutines await agree; writes wait and travel in their order; without a
\* cut each failure of the current client is paid for by a loss; and the poll's knowledge of the
\* settings is what _settings holds.
THEOREM InvariantHolds == Spec => []IInv
<1>1. Init => IInv
  <2> SUFFICES ASSUME Init PROVE IInv
    OBVIOUS
  <2>1. TypeOK /\ Sound(client, task, Issued) /\ "poll" \in Tasks
    BY InitSound, TasksAre
  <2>2. ~host.connected /\ task["poll"].at = "idle"
    BY <2>1 DEF Init, Idle
  <2>3. Caching
    BY <2>2 DEF Caching, Known, Current
  <2> QED BY <2>1, <2>3 DEF IInv
<1>2. IInv /\ [Next]_vars => IInv'
  BY SoundNext, CachingNext DEF IInv
<1> QED BY <1>1, <1>2, PTL DEF Spec

\* Every variable keeps its type.
THEOREM TypeCorrect == Spec => []TypeOK
<1>1. IInv => TypeOK
  BY DEF IInv
<1> QED BY <1>1, InvariantHolds, PTL

\* run ends only after a transport was taken away under commands that were accepted: the
\* exceptions it does not catch have no other cause.
THEOREM PollDiesOnlyPulled == Spec => []PollLivesUnpulled
<1>1. IInv => PollLivesUnpulled
  BY TasksAre DEF IInv, Sound, Lively, PollLivesUnpulled
<1> QED BY <1>1, InvariantHolds, PTL

\* Where every command is answered within its retries, and no resume or reconfigure overtakes a
\* poll, Board counts as connected only with its settings read.
THEOREM ConnectedHasCache == Spec => []CacheBeforeConnected
<1>1. IInv => CacheBeforeConnected
  BY DEF IInv, Caching, Good, CacheBeforeConnected
<1> QED BY <1>1, InvariantHolds, PTL

\* What a step does to the settings in the board's RAM.
LEMMA StepInOrder ==
  ASSUME IInv, [Next]_vars, device'.ram # device.ram
  PROVE  device'.ram > device.ram \/ device'.ram = device.flash \/ revived
<1>1. ASSUME NEW g \in Gen, BoardAnswers(g)
      PROVE  device'.ram > device.ram \/ device'.ram = device.flash \/ revived
  <2>1. pipe[g].req # <<>> /\ device' \in {device, Handled(Head(pipe[g].req))}
    BY <1>1 DEF BoardAnswers
  <2>2. TypeOK /\ Sound(client, task, Issued)
    BY DEF IInv
  <2> QED BY <2>1, <2>2, HandledIs
<1>2. ASSUME NEW t \in Tasks, Coroutine(t) PROVE device' = device
  <2>1. CASE Granted(t)
    BY <2>1 DEF Granted, Keep, Unhurt, Histories
  <2>2. CASE Back(t)
    BY <2>2 DEF Back, Histories
  <2>3. CASE Closed(t)
    BY <2>3 DEF Closed, Histories
  <2>4. CASE PollOpen \/ PollOnce \/ Opened \/ DebouncedSave
    BY <2>4 DEF PollOpen, PollOnce, Opened, DebouncedSave, Keep, Unhurt
  <2> QED BY <1>2, <2>1, <2>2, <2>3, <2>4 DEF Coroutine
<1>3. ASSUME NEW g \in Gen, Worker(g) PROVE device' = device
  BY <1>3 DEF Worker, OpenTransport, CloseTransport, Attempt, Answered, TimedOut, WorkerKeeps,
     WireKeeps
<1>4. ASSUME User PROVE device' = device
  BY <1>4 DEF User, WritePersisted, Install, Reconfigure
<1>5. ASSUME Cut \/ Mend \/ \E g \in Gen : RequestGarbled(g) \/ RequestLost(g)
      PROVE  device' = device
  BY <1>5 DEF Cut, Mend, RequestGarbled, RequestLost
<1>6. ASSUME UNCHANGED vars PROVE device' = device
  BY <1>6 DEF vars
<1> QED BY <1>1, <1>2, <1>3, <1>4, <1>5, <1>6 DEF Next, Wire

\* No retry, late answer, cancelled save or new transport brings an older write back: what the
\* board holds in RAM only moves forward, or back to its flash when it restarts, unless a client
\* came up after it had been replaced.
THEOREM WritesInOrder == Spec => InOrder
<1> DEFINE A == device'.ram # device.ram
                  => device'.ram > device.ram \/ device'.ram = device.flash \/ revived
<1>1. IInv /\ [Next]_vars => A
  BY StepInOrder
<1>2. IInv /\ [Next]_vars => [A]_vars
  BY <1>1
<1> HIDE DEF A
<1>3. Spec => [][A]_vars
  BY <1>2, InvariantHolds, PTL DEF Spec
<1> QED BY <1>3 DEF InOrder, A
=============================================================================
