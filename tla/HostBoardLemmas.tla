-------------------------- MODULE HostBoardLemmas --------------------------
(***************************************************************************)
(* The inductive invariant of HostBoard, for any writers, number of        *)
(* attempts, limit of errors, and any session of writes, losses, cuts,     *)
(* updates and connection changes; and what its parts keep through a       *)
(* change of one client or of one coroutine.                               *)
(***************************************************************************)
EXTENDS HostBoard, TLAPS

(***************************************************************************)
(* The inductive invariant.  Its parts are stated of the clients cl and    *)
(* the coroutines tk, and of the number n of writes issued, so that a step *)
(* of several changes is followed one change at a time.                    *)
(***************************************************************************)
\* Where each coroutine can be, and what it can await there.
Ats(t) ==
  CASE t = "poll" -> {"idle", "dead", "open", "sta", "diag.cycles", "diag.interval", "settings",
                      "version"}
    [] t = "save" -> {"idle", "sleep", "save"}
    [] t = "update" -> {"idle", "raw"}
    [] OTHER -> {"idle", "set"}
Fit(t, w) ==
  /\ w.at \in Ats(t)
  /\ w.at \in {"idle", "dead", "sleep"} <=> w.aw = "none"
  /\ w.at = "open" => w.aw \in {"exec", "opened"}
  /\ w.aw = "opened" => w.at = "open"

\* A coroutine with a command awaits the lock, or holds it, in the queue of its client; only the
\* head of a queue holds it.
Locks(w) == w.aw \in {"lock", "back"} \/ (w.aw = "exec" /\ w.at # "open")
Queued(q, t) == \E i \in 1..Len(q) : q[i] = t
Placed(cl, t, w) == Locks(w) => Queued(cl[w.gen].queue, t)
Queues(q, g, tk) ==
  /\ \A i \in 1..Len(q) : tk[q[i]].gen = g /\ Locks(tk[q[i]]) /\ (i # 1 => tk[q[i]].aw = "lock")
  /\ \A i, k \in 1..Len(q) : q[i] = q[k] => i = k

\* A job of the worker has its coroutine waiting for it, unless the save was cancelled, and only
\* the first was begun.
Served(j, g, w) ==
  /\ w.gen = g
  /\ w.aw = IF j.op = "close" THEN "close" ELSE "exec"
  /\ j.op # "close" => w.at = j.op
Untried(j) == j.st = "ready" /\ j.try = 1
JobOK(j, g, tk) ==
  /\ j.op = "raw" => j.try = 1
  /\ j.op \in {"open", "close"} => Untried(j)
  /\ IF j.task = "none" THEN j.op \in {"save", "close"} ELSE Served(j, g, tk[j.task])
Works(jobs, g, tk) ==
  /\ \A i \in 1..Len(jobs) : JobOK(jobs[i], g, tk) /\ (i # 1 => Untried(jobs[i]))
  /\ \A i, k \in 1..Len(jobs) : jobs[i].task = jobs[k].task /\ jobs[i].task # "none" => i = k
Shape(cl, tk) ==
  /\ \A g \in Gen : Queues(cl[g].queue, g, tk) /\ Works(cl[g].jobs, g, tk)
  /\ \A t \in Tasks : Fit(t, tk[t]) /\ Placed(cl, t, tk[t])

\* A client with a command, waiting or handed to its worker, has its transport, until one is taken
\* away; only then does a command crash.
Serves(c) ==
  /\ c.queue # <<>> => c.open /\ c.up
  /\ \A i \in 1..Len(c.jobs) : c.jobs[i].op \notin {"open", "close"} => c.open
Lively(cl, tk) ==
  /\ pulled \/ \A g \in Gen : Serves(cl[g])
  /\ \A t \in Tasks : tk[t].out = "crash" \/ tk[t].at = "dead" => pulled
Fresh(cl, tk) ==
  /\ host.cur + left.reconf = use.reconf
  /\ \A t \in Tasks : tk[t].gen <= host.cur
  /\ cl[host.cur].up
  /\ \A g \in Gen : g > host.cur => cl[g] = NewClient

\* The writes of a client wait in their order, behind the requests it has sent, and a writer not
\* yet called is idle.
Ascending(q) ==
  \A i, k \in 1..Len(q) : \A a, b \in 1..Len(Writers) :
    i < k /\ q[i] = Writers[a] /\ q[k] = Writers[b] => a < b
Sets(r, a) == r.op = "set" /\ r.by = Writers[a]
Sent(req, q, n) ==
  /\ \A i \in 1..Len(req) : req[i].op = "set" => \E a \in 1..n : Sets(req[i], a)
  /\ \A i, k \in 1..Len(req) : \A a, b \in 1..Len(Writers) :
       i < k /\ Sets(req[i], a) /\ Sets(req[k], b) => a <= b
  /\ \A i \in 1..Len(req), k \in 1..Len(q) : \A a, b \in 1..Len(Writers) :
       Sets(req[i], a) /\ q[k] = Writers[b] => a <= b
Ordered(cl, tk, n) ==
  /\ \A a \in 1..Len(Writers) : a > n => tk[Writers[a]] = Idle
  /\ \A g \in Gen : Ascending(cl[g].queue) /\ Sent(pipe[g].req, cl[g].queue, n)
  /\ device.ram <= n /\ device.flash <= n

\* The board holds no write newer than what the current client still has to send, and no other
\* client has a transport, unless one came up after it was replaced.
Floor(req, q) ==
  /\ \A i \in 1..Len(req) : \A a \in 1..Len(Writers) : Sets(req[i], a) => device.ram <= a
  /\ \A k \in 1..Len(q) : \A a \in 1..Len(Writers) : q[k] = Writers[a] => device.ram <= a
Past(cl) ==
  \/ revived
  \/ /\ device.flash <= device.ram
     /\ Floor(pipe[host.cur].req, cl[host.cur].queue)
     /\ \A g \in Gen : g # host.cur => ~cl[g].open /\ pipe[g].req = <<>>

\* Without a cut the current client keeps its transport, and every attempt that fails is paid for
\* by a loss of its own.
Spent == use.losses - left.losses
Lost(p) == (p.ans = <<>> /\ p.req = <<>>) \/ (p.ans # <<>> /\ Head(p.ans) # "ok")
Covered(j, p) == j.try <= Spent + 1 /\ (j.st = "wait" /\ Lost(p) => j.try <= Spent)
Paid(c, p) == c.jobs # <<>> => Covered(c.jobs[1], p)
Keeps(c) ==
  /\ ~c.broken /\ Serves(c)
  /\ \A i \in 1..Len(c.jobs) : c.jobs[i].op # "close"
Steady(cl) ==
  use.cuts = 0 =>
    /\ cable /\ \A g \in Gen : g >= host.cur => ~pipe[g].dead
    /\ Keeps(cl[host.cur]) /\ Paid(cl[host.cur], pipe[host.cur])

\* What the poll knows of the settings, where every command is answered.
Good == use.losses < Retries /\ use.cuts = 0 /\ ~overtaken
Known(at) ==
  /\ at \in {"sta", "diag.cycles", "diag.interval"} /\ ~host.was => host.cache
  /\ at = "version" => host.cache
Current(w) ==
  w.at \notin {"idle", "dead", "open"} =>
    w.gen = host.cur /\ (w.aw \notin {"lock", "exec"} => w.out = "ok")
Caching ==
  Good => /\ host.connected => host.cache
          /\ Known(task["poll"].at) /\ Current(task["poll"])

Typed(cl, tk) == cl \in [Gen -> Client] /\ tk \in [Tasks -> Coroutines]
Sound(cl, tk, n) ==
  /\ Typed(cl, tk) /\ Shape(cl, tk) /\ Lively(cl, tk) /\ Fresh(cl, tk)
  /\ Ordered(cl, tk, n) /\ Past(cl) /\ Steady(cl)
Issued == use.writes - left.writes
IInv == TypeOK /\ Sound(client, task, Issued) /\ Caching

(***************************************************************************)
(* Sequences.                                                              *)
(***************************************************************************)
\* The elements of a sequence, and its head.
LEMMA Elements ==
  ASSUME NEW S, NEW s \in Seq(S)
  PROVE  /\ Len(s) \in Nat /\ \A i \in 1..Len(s) : s[i] \in S
         /\ s # <<>> => Len(s) >= 1 /\ 1 \in 1..Len(s) /\ Head(s) = s[1] /\ Head(s) \in S
         /\ s = <<>> => Len(s) = 0
  OBVIOUS

\* What is left of a sequence once its head is taken.
LEMMA Rest ==
  ASSUME NEW S, NEW s \in Seq(S), s # <<>>
  PROVE  /\ Tail(s) \in Seq(S) /\ Len(Tail(s)) = Len(s) - 1
         /\ \A i \in 1..Len(Tail(s)) : i + 1 \in 2..Len(s) /\ Tail(s)[i] = s[i + 1]
         /\ \A i \in 2..Len(s) : i - 1 \in 1..Len(Tail(s)) /\ Tail(s)[i - 1] = s[i]
  OBVIOUS

\* Appending keeps the elements there are.
LEMMA Added ==
  ASSUME NEW S, NEW s \in Seq(S), NEW x \in S
  PROVE  /\ Append(s, x) \in Seq(S) /\ Append(s, x) # <<>> /\ Len(Append(s, x)) = Len(s) + 1
         /\ Append(s, x)[Len(s) + 1] = x
         /\ \A i \in 1..Len(s) : Append(s, x)[i] = s[i]
         /\ \A i \in 1..Len(Append(s, x)) : i \in 1..Len(s) \/ i = Len(s) + 1
  OBVIOUS

\* The empty sequence.
LEMMA Nothing == ASSUME NEW S PROVE <<>> \in Seq(S) /\ Len(<<>>) = 0
  OBVIOUS

\* Another head, as the model writes it.
LEMMA Headed ==
  ASSUME NEW S, NEW s \in Seq(S), s # <<>>, NEW x \in S
  PROVE  /\ <<x>> \o Tail(s) \in Seq(S) /\ <<x>> \o Tail(s) # <<>>
         /\ Len(<<x>> \o Tail(s)) = Len(s) /\ (<<x>> \o Tail(s))[1] = x
         /\ \A i \in 2..Len(s) : (<<x>> \o Tail(s))[i] = s[i]
<1>1. Tail(s) \in Seq(S) /\ Len(Tail(s)) = Len(s) - 1 /\ \A i \in 2..Len(s) : Tail(s)[i - 1] = s[i]
  BY Rest
<1>2. <<x>> \in Seq(S) /\ Len(<<x>>) = 1 /\ <<x>>[1] = x
  OBVIOUS
<1> DEFINE t == Tail(s)
           h == <<x>>
<1>3. /\ h \o t \in Seq(S) /\ Len(h \o t) = Len(h) + Len(t)
      /\ \A i \in 1..Len(h) : (h \o t)[i] = h[i]
      /\ \A i \in Len(h) + 1..Len(h) + Len(t) : (h \o t)[i] = t[i - Len(h)]
  <2> HIDE DEF t, h
  <2>1. h \in Seq(S) /\ t \in Seq(S)
    BY <1>1, <1>2 DEF t, h
  <2> QED BY <2>1
<1>4. Len(s) \in Nat /\ Len(s) >= 1
  OBVIOUS
<1> QED BY <1>1, <1>2, <1>3, <1>4

\* q2 is what is left of q when elements are taken out of it.
Left(q2, q) ==
  /\ Len(q2) <= Len(q)
  /\ \E f \in [1..Len(q2) -> 1..Len(q)] :
       /\ \A i, k \in 1..Len(q2) : i < k => f[i] < f[k]
       /\ \A i \in 1..Len(q2) : q2[i] = q[f[i]]

\* A sequence without its head, and with nothing taken out.
LEMMA TailLeft ==
  ASSUME NEW S, NEW s \in Seq(S), s # <<>>
  PROVE  Left(Tail(s), s)
<1> DEFINE f == [i \in 1..Len(Tail(s)) |-> i + 1]
<1>1. f \in [1..Len(Tail(s)) -> 1..Len(s)]
  BY Rest
<1>2. \A i, k \in 1..Len(Tail(s)) : i < k => f[i] < f[k]
  BY Rest
<1>3. \A i \in 1..Len(Tail(s)) : Tail(s)[i] = s[f[i]]
  BY Rest
<1>4. Len(Tail(s)) <= Len(s)
  BY Rest, Elements
<1> HIDE DEF f
<1> QED BY <1>1, <1>2, <1>3, <1>4 DEF Left

\* A sequence is what is left of itself.
LEMMA SameLeft ==
  ASSUME NEW S, NEW s \in Seq(S)
  PROVE  Left(s, s)
<1> DEFINE f == [i \in 1..Len(s) |-> i]
<1>1. f \in [1..Len(s) -> 1..Len(s)] /\ Len(s) <= Len(s)
  OBVIOUS
<1>2. \A i, k \in 1..Len(s) : i < k => f[i] < f[k]
  OBVIOUS
<1>3. \A i \in 1..Len(s) : s[i] = s[f[i]]
  OBVIOUS
<1> HIDE DEF f
<1> QED BY <1>1, <1>2, <1>3 DEF Left

\* Without takes out one element, at a position of K, or none when K is empty.
LEMMA WithoutIs ==
  ASSUME NEW S, NEW s \in Seq(S), NEW K \in SUBSET (1..Len(s))
  PROVE  /\ Without(s, K) \in Seq(S) /\ Left(Without(s, K), s)
         /\ K = {} => Without(s, K) = s
         /\ K # {} => \E k \in K : /\ Len(Without(s, K)) = Len(s) - 1
                                   /\ \A i \in 1..Len(s) - 1 :
                                        Without(s, K)[i] = s[IF i < k THEN i ELSE i + 1]
<1>1. CASE K = {}
  <2>1. Without(s, K) = s
    BY <1>1 DEF Without
  <2> QED BY <1>1, <2>1, SameLeft
<1>2. CASE K # {}
  <2> DEFINE k == CHOOSE k \in K : TRUE
             n == Len(s) - 1
             f == [i \in 1..n |-> IF i < k THEN i ELSE i + 1]
             w == [i \in 1..n |-> s[f[i]]]
  <2>1. k \in K /\ k \in 1..Len(s)
    BY <1>2
  <2>2. n \in Nat /\ Len(s) = n + 1
    BY <2>1
  <2>3. Without(s, K) = w
    BY <1>2 DEF Without
  <2> HIDE DEF k, n
  <2>4. f \in [1..n -> 1..Len(s)] /\ (\A i, j \in 1..n : i < j => f[i] < f[j])
    BY <2>1, <2>2
  <2>5. \A i \in 1..n : f[i] = IF i < k THEN i ELSE i + 1
    OBVIOUS
  <2> HIDE DEF f
  <2>6. \A i \in 1..n : w[i] = s[f[i]] /\ s[f[i]] \in S
    BY <2>4, Elements
  <2>7. w \in Seq(S) /\ Len(w) = n
    <3>1. w \in [1..n -> S]
      BY <2>6
    <3> QED BY <3>1, <2>2
  <2> HIDE DEF w
  <2>8. Left(w, s)
    <3>1. f \in [1..Len(w) -> 1..Len(s)] /\ Len(w) <= Len(s)
      BY <2>2, <2>4, <2>7
    <3>2. \A i, j \in 1..Len(w) : i < j => f[i] < f[j]
      BY <2>4, <2>7
    <3>3. \A i \in 1..Len(w) : w[i] = s[f[i]]
      BY <2>6, <2>7
    <3> QED BY <3>1, <3>2, <3>3 DEF Left
  <2>9. Len(w) = Len(s) - 1 /\ \A i \in 1..Len(s) - 1 : w[i] = s[IF i < k THEN i ELSE i + 1]
    BY <2>2, <2>5, <2>6, <2>7
  <2> QED BY <1>2, <2>1, <2>3, <2>7, <2>8, <2>9
<1> QED BY <1>1, <1>2

(***************************************************************************)
(* Types and fields.                                                       *)
(***************************************************************************)
\* The bounds of a session.
LEMMA UseIs ==
  ASSUME use \in Uses
  PROVE  /\ use.writes \in 0..Len(Writers) /\ use.losses \in Nat /\ use.cuts \in Nat
         /\ use.reconf \in Nat /\ use.diag \in BOOLEAN /\ use.raw \in BOOLEAN
         /\ 0 \in Gen /\ \A g \in Gen : g \in Nat
<1>1. /\ use.writes \in 0..Len(Writers) /\ use.losses \in Nat /\ use.cuts \in Nat
      /\ use.reconf \in 0..MaxReconf /\ use.diag \in BOOLEAN /\ use.raw \in BOOLEAN
  BY UseAssumption
<1>2. use.reconf \in Nat
  BY <1>1, LimitAssumption
<1> QED BY <1>1, <1>2 DEF Gen

\* The writers are distinct coroutines, and none of the other three.
LEMMA WritersAre ==
  /\ Len(Writers) \in Nat
  /\ \A a \in 1..Len(Writers) : /\ Writers[a] \in Tasks
                                /\ Writers[a] \notin {"poll", "save", "update", "none"}
                                /\ Number(Writers[a]) = a
  /\ \A a, b \in 1..Len(Writers) : Writers[a] = Writers[b] => a = b
<1> DEFINE S == STRING \ {"poll", "save", "update", "none"}
           W == Writers
<1>1. W \in Seq(S) /\ \A a, b \in 1..Len(W) : W[a] = W[b] => a = b
  BY WritersAssumption
<1>2. Len(W) \in Nat /\ \A a \in 1..Len(W) : W[a] \in S
  <2> HIDE DEF S, W
  <2> QED BY <1>1, Elements
<1>3. \A a \in 1..Len(W) : Number(W[a]) = a
  <2> SUFFICES ASSUME NEW a \in 1..Len(W) PROVE Number(W[a]) = a
    OBVIOUS
  <2>1. Number(W[a]) \in 1..Len(W) /\ W[Number(W[a])] = W[a]
    BY DEF Number
  <2> QED BY <2>1, <1>1
<1> QED BY <1>1, <1>2, <1>3 DEF Tasks

\* The three other coroutines.
LEMMA TasksAre ==
  /\ {"poll", "save", "update"} \subseteq Tasks
  /\ "none" \notin Tasks
  /\ \A t \in Tasks : t \in {"poll", "save", "update"} \/ \E a \in 1..Len(Writers) : t = Writers[a]
  BY WritersAre DEF Tasks

\* Where each coroutine can be, spelled out.
LEMMA AtsAre ==
  /\ Ats("poll") = {"idle", "dead", "open", "sta", "diag.cycles", "diag.interval", "settings",
                    "version"}
  /\ Ats("save") = {"idle", "sleep", "save"} /\ Ats("update") = {"idle", "raw"}
  /\ \A t : t \notin {"poll", "save", "update"} => Ats(t) = {"idle", "set"}
  BY DEF Ats

\* The fields of a client,
LEMMA ClientIs ==
  ASSUME NEW c \in Client
  PROVE  /\ c.open \in BOOLEAN /\ c.up \in BOOLEAN /\ c.queue \in Seq(Tasks) /\ c.jobs \in Seq(Jobs)
         /\ c.errors \in 0..ErrorLimit /\ c.connected \in BOOLEAN /\ c.broken \in BOOLEAN
  BY DEF Client

\* of a job,
LEMMA JobIs ==
  ASSUME NEW j \in Jobs
  PROVE  /\ j.task \in Tasks \cup {"none"} /\ j.op \in Ops /\ j.try \in 1..Retries
         /\ j.st \in {"ready", "wait"}
  BY DEF Jobs

\* of a transport,
LEMMA PipeIs ==
  ASSUME NEW p \in Pipe
  PROVE  p.dead \in BOOLEAN /\ p.req \in Seq(Requests) /\ p.ans \in Seq({"ok", "garbled", "glitch"})
  BY DEF Pipe

\* and of a coroutine.
LEMMA CoroutineIs ==
  ASSUME NEW w \in Coroutines
  PROVE  /\ w.at \in Commands \cup {"open", "idle", "sleep", "dead"}
         /\ w.aw \in {"none", "lock", "exec", "back", "close", "closed", "opened"}
         /\ w.gen \in Gen /\ w.out \in {"none", "ok", "fail", "crash"}
  BY DEF Coroutines

\* A first attempt.
LEMMA JobTyped ==
  ASSUME NEW t \in Tasks, NEW op \in Ops
  PROVE  /\ Job(t, op) \in Jobs /\ Untried(Job(t, op))
         /\ Job(t, op).task = t /\ Job(t, op).op = op
<1>1. 1 \in 1..Retries
  BY LimitAssumption
<1> QED BY <1>1 DEF Job, Jobs, Untried

\* A coroutine that begins to wait, or stops.
LEMMA CoroutineTyped ==
  ASSUME use \in Uses
  PROVE  /\ Idle \in Coroutines /\ Sleeping \in Coroutines
         /\ [Idle EXCEPT !.at = "dead"] \in Coroutines
         /\ \A op \in Commands \cup {"open"}, aw \in {"lock", "exec"}, g \in Gen :
              [at |-> op, aw |-> aw, gen |-> g, out |-> "none"] \in Coroutines
         /\ \A w \in Coroutines : \A aw \in {"lock", "exec", "back", "close", "closed", "opened"} :
              /\ [w EXCEPT !.aw = aw] \in Coroutines
              /\ \A out \in {"ok", "fail", "crash"} :
                   [w EXCEPT !.aw = aw, !.out = out] \in Coroutines
  BY UseIs DEF Idle, Sleeping, Coroutines

\* A new client, and a new transport.
LEMMA NewTyped ==
  /\ NewClient \in Client /\ NewPipe \in Pipe /\ [NewPipe EXCEPT !.dead = TRUE] \in Pipe
  /\ NewClient.queue = <<>> /\ NewClient.jobs = <<>> /\ ~NewClient.open /\ NewClient.up
  /\ ~NewClient.broken
  /\ ~NewPipe.dead /\ NewPipe.req = <<>> /\ NewPipe.ans = <<>>
<1>1. 0 \in 0..ErrorLimit
  BY LimitAssumption
<1>2. <<>> \in Seq(Tasks) /\ <<>> \in Seq(Jobs) /\ <<>> \in Seq(Requests)
      /\ <<>> \in Seq({"ok", "garbled", "glitch"})
  BY Nothing
<1> QED BY <1>1, <1>2 DEF NewClient, NewPipe, Client, Pipe

(***************************************************************************)
(* What the operators of the model make of the clients.                    *)
(***************************************************************************)
\* cl2 is cl but for the queue and the jobs of client g.
Only(cl2, cl, g, q, jobs) ==
  /\ cl2 \in [Gen -> Client]
  /\ cl2[g].queue = q /\ cl2[g].jobs = jobs
  /\ cl2[g].open = cl[g].open /\ cl2[g].up = cl[g].up /\ cl2[g].broken = cl[g].broken
  /\ \A h \in Gen : h # g => cl2[h] = cl[h]

\* The lock is passed on.
LEMMA ReleaseIs ==
  ASSUME NEW cl \in [Gen -> Client], NEW g \in Gen, cl[g].queue # <<>>
  PROVE  Only(Release(cl, g), cl, g, Tail(cl[g].queue), cl[g].jobs)
<1> DEFINE c == cl[g]
<1>1. c \in Client
  OBVIOUS
<1>2. c.queue \in Seq(Tasks)
  BY <1>1, ClientIs
<1>3. Tail(c.queue) \in Seq(Tasks)
  BY <1>2, Rest
<1>4. [c EXCEPT !.queue = Tail(@)] \in Client
  BY <1>1, <1>3 DEF Client
<1> QED BY <1>1, <1>4 DEF Release, Only, Client

\* A job is handed to the worker.
LEMMA SubmitIs ==
  ASSUME NEW cl \in [Gen -> Client], NEW g \in Gen, NEW j \in Jobs
  PROVE  Only(Submit(cl, g, j), cl, g, cl[g].queue, Append(cl[g].jobs, j))
<1> DEFINE c == cl[g]
<1>1. c \in Client
  OBVIOUS
<1>2. c.jobs \in Seq(Jobs)
  BY <1>1, ClientIs
<1>3. Append(c.jobs, j) \in Seq(Jobs)
  BY <1>2, Added
<1>4. [c EXCEPT !.jobs = Append(@, j)] \in Client
  BY <1>1, <1>3 DEF Client
<1> QED BY <1>1, <1>4 DEF Submit, Only, Client

\* The worker is done with a job.
LEMMA Tail1Is ==
  ASSUME NEW cl \in [Gen -> Client], NEW g \in Gen, cl[g].jobs # <<>>
  PROVE  Only(Tail1(cl, g), cl, g, cl[g].queue, Tail(cl[g].jobs))
<1> DEFINE c == cl[g]
<1>1. c \in Client
  OBVIOUS
<1>2. c.jobs \in Seq(Jobs)
  BY <1>1, ClientIs
<1>3. Tail(c.jobs) \in Seq(Jobs)
  BY <1>2, Rest
<1>4. [c EXCEPT !.jobs = Tail(@)] \in Client
  BY <1>1, <1>3 DEF Client
<1> QED BY <1>1, <1>4 DEF Tail1, Only, Client

\* The health of the link is none of it.
LEMMA MarkedIs ==
  ASSUME NEW c \in Client, NEW ok \in BOOLEAN
  PROVE  /\ Marked(c, ok) \in Client
         /\ Marked(c, ok).queue = c.queue /\ Marked(c, ok).jobs = c.jobs
         /\ Marked(c, ok).open = c.open /\ Marked(c, ok).up = c.up
         /\ Marked(c, ok).broken = c.broken
<1> DEFINE n == IF c.errors = ErrorLimit THEN ErrorLimit ELSE c.errors + 1
           f == [c EXCEPT !.errors = n, !.connected = @ /\ n < ErrorLimit]
<1>1. 0 \in 0..ErrorLimit /\ n \in 0..ErrorLimit /\ (n < ErrorLimit) \in BOOLEAN
  BY LimitAssumption, ClientIs
<1> HIDE DEF n
<1>2. [c EXCEPT !.errors = 0, !.connected = TRUE] \in Client
  BY <1>1 DEF Client
<1>3. (c.connected /\ n < ErrorLimit) \in BOOLEAN
  OBVIOUS
<1>4. f \in Client
  BY <1>1, <1>3 DEF Client
<1>5. Marked(c, ok) = IF ok THEN [c EXCEPT !.errors = 0, !.connected = TRUE] ELSE f
  BY DEF Marked, n
<1> QED BY <1>2, <1>4, <1>5 DEF Client

\* The head of the jobs is changed.
LEMMA TopIs ==
  ASSUME NEW cl \in [Gen -> Client], NEW g \in Gen, cl[g].jobs # <<>>, NEW x \in Jobs
  PROVE  Only([cl EXCEPT ![g].jobs = <<x>> \o Tail(@)], cl, g, cl[g].queue,
              <<x>> \o Tail(cl[g].jobs))
<1> DEFINE c == cl[g]
<1>1. c \in Client
  OBVIOUS
<1>2. c.jobs \in Seq(Jobs)
  BY <1>1, ClientIs
<1>3. <<x>> \o Tail(c.jobs) \in Seq(Jobs)
  BY <1>2, Headed
<1>4. [c EXCEPT !.jobs = <<x>> \o Tail(@)] \in Client
  BY <1>1, <1>3 DEF Client
<1> QED BY <1>1, <1>4 DEF Only, Client

\* A command takes its place in the queue, and its job goes to the worker when it is the first.
Asked(op, aw, g) == [at |-> op, aw |-> aw, gen |-> g, out |-> "none"]
\* A command asked for: its coroutine joins the queue, and the first hands its job to the worker.
LEMMA CommandIs ==
  ASSUME NEW cl \in [Gen -> Client], host.cur \in Gen, NEW t \in Tasks, NEW op \in Commands,
         Command(t, op, cl)
  PROVE  LET g == host.cur
             q == cl[g].queue
         IN  /\ Only(client', cl, g, Append(q, t),
                     IF q = <<>> THEN Append(cl[g].jobs, Job(t, op)) ELSE cl[g].jobs)
             /\ task' = [task EXCEPT ![t] = Asked(op, IF q = <<>> THEN "exec" ELSE "lock", g)]
<1> DEFINE g == host.cur
           c == cl[g]
           cq == [cl EXCEPT ![g].queue = Append(@, t)]
<1>1. c \in Client
  OBVIOUS
<1>2. c.queue \in Seq(Tasks)
  BY <1>1, ClientIs
<1>3. Append(c.queue, t) \in Seq(Tasks)
  BY <1>2, Added
<1>4. [c EXCEPT !.queue = Append(@, t)] \in Client
  BY <1>1, <1>3 DEF Client
<1>5. Only(cq, cl, g, Append(c.queue, t), c.jobs)
  BY <1>1, <1>4 DEF Only, Client
<1>6. Job(t, op) \in Jobs
  BY JobTyped DEF Ops
<1>7. /\ client' = IF c.queue = <<>> THEN Submit(cq, g, Job(t, op)) ELSE cq
      /\ task' = [task EXCEPT ![t] = Asked(op, IF c.queue = <<>> THEN "exec" ELSE "lock", g)]
  BY DEF Command, Awaits, Asked
<1> HIDE DEF cq
<1>8. cq \in [Gen -> Client]
  BY <1>5 DEF Only
<1>9. Only(Submit(cq, g, Job(t, op)), cq, g, cq[g].queue, Append(cq[g].jobs, Job(t, op)))
  BY <1>6, <1>8, SubmitIs
<1>10. Only(Submit(cq, g, Job(t, op)), cl, g, Append(c.queue, t), Append(c.jobs, Job(t, op)))
  BY <1>5, <1>9 DEF Only
<1> QED BY <1>5, <1>7, <1>10

\* A cancelled save: its job is forgotten, or taken back when it has not begun.
LEMMA WithdrawnIs ==
  ASSUME NEW jobs \in Seq(Jobs)
  PROVE  /\ Withdrawn(jobs) \in Seq(Jobs)
         /\ \/ /\ jobs # <<>> /\ jobs[1].task = "save"
               /\ Len(Withdrawn(jobs)) = Len(jobs) /\ Withdrawn(jobs) # <<>>
               /\ Withdrawn(jobs)[1] = [jobs[1] EXCEPT !.task = "none"]
               /\ \A i \in 2..Len(jobs) : Withdrawn(jobs)[i] = jobs[i]
            \/ /\ jobs = <<>> \/ jobs[1].task # "save"
               /\ Withdrawn(jobs) = Without(jobs, {k \in 1..Len(jobs) : jobs[k].task = "save"})
<1>1. CASE jobs # <<>> /\ jobs[1].task = "save"
  <2> DEFINE x == [jobs[1] EXCEPT !.task = "none"]
  <2>1. 1 \in 1..Len(jobs) /\ Head(jobs) = jobs[1] /\ jobs[1] \in Jobs
    BY <1>1, Elements
  <2>2. x \in Jobs
    BY <2>1 DEF Jobs
  <2>3. Withdrawn(jobs) = [jobs EXCEPT ![1] = x]
    BY <1>1, <2>1 DEF Withdrawn
  <2> HIDE DEF x
  <2>4. [jobs EXCEPT ![1] = x] \in Seq(Jobs) /\ Len([jobs EXCEPT ![1] = x]) = Len(jobs)
    BY <2>1, <2>2
  <2>5. /\ [jobs EXCEPT ![1] = x][1] = x
        /\ \A i \in 2..Len(jobs) : [jobs EXCEPT ![1] = x][i] = jobs[i]
        /\ [jobs EXCEPT ![1] = x] # <<>>
    BY <1>1, <2>1, <2>4
  <2> QED BY <1>1, <2>3, <2>4, <2>5 DEF x
<1>2. CASE ~(jobs # <<>> /\ jobs[1].task = "save")
  <2> DEFINE K == {k \in 1..Len(jobs) : jobs[k].task = "save"}
  <2>1. Withdrawn(jobs) = Without(jobs, K)
    BY <1>2, Elements DEF Withdrawn
  <2>2. Without(jobs, K) \in Seq(Jobs)
    <3>1. K \in SUBSET (1..Len(jobs))
      OBVIOUS
    <3> HIDE DEF K
    <3> QED BY <3>1, WithoutIs
  <2> QED BY <1>2, <2>1, <2>2
<1> QED BY <1>1, <1>2

\* The save that is cancelled leaves its place in the queue and in the jobs, if it has any.
LEMMA CancelledIs ==
  ASSUME NEW cl \in [Gen -> Client], task["save"].gen \in Gen
  PROVE  LET g == task["save"].gen
             q == cl[g].queue
         IN  IF task["save"].aw = "none" THEN Cancelled(cl) = cl
             ELSE Only(Cancelled(cl), cl, g, Without(q, {k \in 1..Len(q) : q[k] = "save"}),
                       Withdrawn(cl[g].jobs))
<1> DEFINE g == task["save"].gen
           c == cl[g]
           q == c.queue
           nq == Without(q, {k \in 1..Len(q) : q[k] = "save"})
           nj == Withdrawn(c.jobs)
<1>1. c \in Client /\ q \in Seq(Tasks) /\ c.jobs \in Seq(Jobs)
  BY ClientIs
<1>2. nj \in Seq(Jobs)
  BY <1>1, WithdrawnIs
<1>3. nq \in Seq(Tasks)
  <2> DEFINE K == {k \in 1..Len(q) : q[k] = "save"}
  <2>1. K \in SUBSET (1..Len(q))
    OBVIOUS
  <2> HIDE DEF K, q
  <2>2. Without(q, K) \in Seq(Tasks)
    BY <1>1, <2>1, WithoutIs
  <2> QED BY <2>2 DEF K, q
<1>4. CASE task["save"].aw # "none"
  <2>1. Cancelled(cl) = [cl EXCEPT ![g].jobs = nj, ![g].queue = nq]
    BY <1>4 DEF Cancelled
  <2> HIDE DEF nj, nq
  <2>2. [c EXCEPT !.jobs = nj, !.queue = nq] \in Client
    BY <1>1, <1>2, <1>3 DEF Client
  <2>3. Only([cl EXCEPT ![g].jobs = nj, ![g].queue = nq], cl, g, nq, nj)
    BY <1>1, <2>2 DEF Only, Client
  <2> QED BY <1>4, <2>1, <2>3 DEF nj, nq
<1>5. CASE task["save"].aw = "none"
  BY <1>5 DEF Cancelled
<1> QED BY <1>4, <1>5

(***************************************************************************)
(* Queues and jobs, as coroutines move.                                    *)
(***************************************************************************)
HasJob(jobs, t) == \E i \in 1..Len(jobs) : jobs[i].task = t

\* A coroutine that does not wait at a client is in none of its queues.
LEMMA Absent ==
  ASSUME NEW cl, NEW tk, Typed(cl, tk), Shape(cl, tk), NEW t \in Tasks, NEW g \in Gen
  PROVE  /\ ~Locks(tk[t]) \/ tk[t].gen # g => ~Queued(cl[g].queue, t)
         /\ tk[t].aw \notin {"exec", "close"} \/ tk[t].gen # g => ~HasJob(cl[g].jobs, t)
<1>1. Queues(cl[g].queue, g, tk) /\ Works(cl[g].jobs, g, tk)
  BY DEF Shape
<1>2. ~Locks(tk[t]) \/ tk[t].gen # g => ~Queued(cl[g].queue, t)
  BY <1>1 DEF Queues, Queued
<1>3. tk[t].aw \notin {"exec", "close"} \/ tk[t].gen # g => ~HasJob(cl[g].jobs, t)
  BY <1>1, TasksAre DEF Works, JobOK, Served, HasJob
<1> QED BY <1>2, <1>3

\* A holder of the lock is the head of its queue.
LEMMA Holder ==
  ASSUME NEW cl, NEW tk, Typed(cl, tk), Shape(cl, tk), NEW t \in Tasks,
         Locks(tk[t]), tk[t].aw # "lock"
  PROVE  LET q == cl[tk[t].gen].queue IN q # <<>> /\ q[1] = t /\ Head(q) = t
<1> DEFINE g == tk[t].gen
           q == cl[g].queue
<1>1. g \in Gen /\ cl[g] \in Client
  BY CoroutineIs DEF Typed
<1>2. q \in Seq(Tasks)
  BY <1>1, ClientIs
<1>3. Queued(q, t) /\ Queues(q, g, tk)
  BY <1>1 DEF Shape, Placed
<1> HIDE DEF q, g
<1>4. PICK i \in 1..Len(q) : q[i] = t
  BY <1>3 DEF Queued
<1>5. i = 1
  BY <1>3, <1>4 DEF Queues
<1>6. q # <<>>
  BY <1>4, Nothing, Elements
<1> QED BY <1>2, <1>4, <1>5, <1>6, Elements DEF q, g

\* A coroutine that moves changes nothing where it is not.
LEMMA QueuesElse ==
  ASSUME NEW tk \in [Tasks -> Coroutines], NEW q \in Seq(Tasks), NEW g, NEW t \in Tasks, NEW w,
         Queues(q, g, tk), ~Queued(q, t)
  PROVE  Queues(q, g, [tk EXCEPT ![t] = w])
<1>1. \A i \in 1..Len(q) : q[i] \in Tasks /\ q[i] # t
  BY Elements DEF Queued
<1>2. \A i \in 1..Len(q) : [tk EXCEPT ![t] = w][q[i]] = tk[q[i]]
  BY <1>1
<1> QED BY <1>2 DEF Queues

\* A coroutine with no job there changes nothing for the jobs.
LEMMA WorksElse ==
  ASSUME NEW tk \in [Tasks -> Coroutines], NEW jobs \in Seq(Jobs), NEW g, NEW t \in Tasks, NEW w,
         Works(jobs, g, tk), ~HasJob(jobs, t)
  PROVE  Works(jobs, g, [tk EXCEPT ![t] = w])
<1> DEFINE tk2 == [tk EXCEPT ![t] = w]
<1>1. \A i \in 1..Len(jobs) : jobs[i].task # t
  BY DEF HasJob
<1>2. \A i \in 1..Len(jobs) : jobs[i].task # "none" => tk2[jobs[i].task] = tk[jobs[i].task]
  <2> SUFFICES ASSUME NEW i \in 1..Len(jobs), jobs[i].task # "none"
               PROVE  tk2[jobs[i].task] = tk[jobs[i].task]
    OBVIOUS
  <2>1. jobs[i] \in Jobs
    BY Elements
  <2>2. jobs[i].task \in Tasks
    BY <2>1, JobIs
  <2> QED BY <2>2, <1>1
<1> HIDE DEF tk2
<1>3. \A i \in 1..Len(jobs) : JobOK(jobs[i], g, tk) => JobOK(jobs[i], g, tk2)
  BY <1>2 DEF JobOK
<1>4. Works(jobs, g, tk2)
  BY <1>3 DEF Works
<1> QED BY <1>4 DEF tk2

\* The lock is passed on by its holder,
LEMMA QueuesTail ==
  ASSUME NEW tk \in [Tasks -> Coroutines], NEW q \in Seq(Tasks), NEW g, NEW t \in Tasks, NEW w,
         Queues(q, g, tk), q # <<>>, q[1] = t
  PROVE  /\ Queues(Tail(q), g, [tk EXCEPT ![t] = w])
         /\ \A u : u # t /\ Queued(q, u) => Queued(Tail(q), u)
<1>1. /\ Tail(q) \in Seq(Tasks)
      /\ \A i \in 1..Len(Tail(q)) : i + 1 \in 2..Len(q) /\ Tail(q)[i] = q[i + 1]
  BY Rest
<1>2. \A i \in 2..Len(q) : i - 1 \in 1..Len(Tail(q)) /\ Tail(q)[i - 1] = q[i]
  BY Rest
<1>3. Len(q) \in Nat /\ Len(Tail(q)) \in Nat /\ 1 \in 1..Len(q)
  BY <1>1, Elements
<1>4. Queues(Tail(q), g, tk)
  <2>1. \A i \in 1..Len(Tail(q)) :
           tk[Tail(q)[i]].gen = g /\ Locks(tk[Tail(q)[i]]) /\ tk[Tail(q)[i]].aw = "lock"
    BY <1>1, <1>3 DEF Queues
  <2>2. \A i, k \in 1..Len(Tail(q)) : Tail(q)[i] = Tail(q)[k] => i = k
    <3> SUFFICES ASSUME NEW i \in 1..Len(Tail(q)), NEW k \in 1..Len(Tail(q)),
                        Tail(q)[i] = Tail(q)[k]
                 PROVE  i = k
      OBVIOUS
    <3>1. i + 1 \in 1..Len(q) /\ k + 1 \in 1..Len(q) /\ q[i + 1] = q[k + 1]
      BY <1>1, <1>3
    <3>2. i + 1 = k + 1
      BY <3>1 DEF Queues
    <3> QED BY <3>2, <1>3
  <2> QED BY <2>1, <2>2 DEF Queues
<1>5. ~Queued(Tail(q), t)
  <2> SUFFICES ASSUME NEW i \in 1..Len(Tail(q)), Tail(q)[i] = t PROVE FALSE
    BY DEF Queued
  <2>1. i + 1 \in 1..Len(q) /\ q[i + 1] = q[1] /\ i + 1 # 1
    BY <1>1, <1>3
  <2> QED BY <2>1, <1>3 DEF Queues
<1>6. Queues(Tail(q), g, [tk EXCEPT ![t] = w])
  BY <1>1, <1>4, <1>5, QueuesElse
<1>7. ASSUME NEW u, u # t, Queued(q, u) PROVE Queued(Tail(q), u)
  <2>1. PICK i \in 1..Len(q) : q[i] = u
    BY <1>7 DEF Queued
  <2>2. i \in 2..Len(q)
    BY <2>1, <1>3, <1>7
  <2> QED BY <2>1, <2>2, <1>2 DEF Queued
<1> QED BY <1>6, <1>7

\* asked for,
LEMMA QueuesApp ==
  ASSUME NEW tk \in [Tasks -> Coroutines], NEW q \in Seq(Tasks), NEW g, NEW t \in Tasks, NEW w,
         Queues(q, g, tk), ~Queued(q, t),
         w.gen = g, Locks(w), q # <<>> => w.aw = "lock"
  PROVE  /\ Queues(Append(q, t), g, [tk EXCEPT ![t] = w])
         /\ \A u : Queued(q, u) \/ u = t => Queued(Append(q, t), u)
<1> DEFINE p == Append(q, t)
           tk2 == [tk EXCEPT ![t] = w]
<1>1. /\ p \in Seq(Tasks) /\ Len(p) = Len(q) + 1 /\ p[Len(q) + 1] = t
      /\ \A i \in 1..Len(q) : p[i] = q[i]
      /\ \A i \in 1..Len(p) : i \in 1..Len(q) \/ i = Len(q) + 1
  BY Added
<1>2. Len(q) \in Nat /\ (Len(q) # 0 => q # <<>>)
  BY Elements
<1>3. Queues(q, g, tk2)
  BY QueuesElse
<1>4. tk2[t] = w
  OBVIOUS
<1> HIDE DEF p, tk2
<1>5. \A i \in 1..Len(p) : tk2[p[i]].gen = g /\ Locks(tk2[p[i]]) /\ (i # 1 => tk2[p[i]].aw = "lock")
  <2> SUFFICES ASSUME NEW i \in 1..Len(p)
               PROVE  tk2[p[i]].gen = g /\ Locks(tk2[p[i]]) /\ (i # 1 => tk2[p[i]].aw = "lock")
    OBVIOUS
  <2>1. CASE i \in 1..Len(q)
    BY <2>1, <1>1, <1>3 DEF Queues
  <2>2. CASE i = Len(q) + 1
    <3>1. i # 1 => q # <<>>
      BY <2>2, <1>2
    <3> QED BY <2>2, <3>1, <1>1, <1>4
  <2> QED BY <2>1, <2>2, <1>1
<1>6. \A i \in 1..Len(q) : q[i] # t
  BY DEF Queued
<1>7. \A i, k \in 1..Len(p) : p[i] = p[k] => i = k
  BY <1>1, <1>3, <1>6 DEF Queues
<1>8. Queues(p, g, tk2)
  BY <1>5, <1>7 DEF Queues
<1>9. \A u : Queued(q, u) \/ u = t => Queued(p, u)
  BY <1>1, <1>2 DEF Queued
<1> QED BY <1>8, <1>9 DEF p, tk2

\* used by its holder,
LEMMA QueuesHead ==
  ASSUME NEW tk \in [Tasks -> Coroutines], NEW q \in Seq(Tasks), NEW g, NEW t \in Tasks, NEW w,
         Queues(q, g, tk), q # <<>>, q[1] = t, w.gen = g, Locks(w)
  PROVE  Queues(q, g, [tk EXCEPT ![t] = w])
<1> DEFINE tk2 == [tk EXCEPT ![t] = w]
<1>1. 1 \in 1..Len(q) /\ \A i \in 1..Len(q) : q[i] \in Tasks
  BY Elements
<1>2. \A i \in 1..Len(q) : i # 1 => q[i] # t
  BY <1>1 DEF Queues
<1>3. \A i \in 1..Len(q) : i # 1 => tk2[q[i]] = tk[q[i]]
  BY <1>1, <1>2
<1>4. tk2[q[1]] = w
  BY <1>1
<1> HIDE DEF tk2
<1>5. Queues(q, g, tk2)
  BY <1>1, <1>3, <1>4 DEF Queues
<1> QED BY <1>5 DEF tk2

\* and given up, wherever t is.
LEMMA QueuesWithout ==
  ASSUME NEW tk \in [Tasks -> Coroutines], NEW q \in Seq(Tasks), NEW g, NEW t \in Tasks, NEW w,
         Queues(q, g, tk)
  PROVE  LET p == Without(q, {k \in 1..Len(q) : q[k] = t})
         IN  /\ Queues(p, g, [tk EXCEPT ![t] = w])
             /\ \A u : u # t /\ Queued(q, u) => Queued(p, u)
<1> DEFINE K == {k \in 1..Len(q) : q[k] = t}
           p == Without(q, K)
<1>1. K \in SUBSET (1..Len(q)) /\ \A k \in K : q[k] = t
  OBVIOUS
<1>2. CASE K = {}
  <2>1. p = q
    <3> HIDE DEF K
    <3> QED BY <1>1, <1>2, WithoutIs
  <2>2. ~Queued(q, t)
    BY <1>2 DEF Queued
  <2> HIDE DEF p, K
  <2> QED BY <2>1, <2>2, QueuesElse DEF p, K
<1>3. CASE K # {}
  <2>1. p \in Seq(Tasks)
    <3> HIDE DEF K
    <3> QED BY <1>1, WithoutIs
  <2>2. PICK k \in K : /\ Len(p) = Len(q) - 1
                       /\ \A i \in 1..Len(q) - 1 : p[i] = q[IF i < k THEN i ELSE i + 1]
    <3> HIDE DEF K
    <3> QED BY <1>1, <1>3, WithoutIs
  <2>3. k \in 1..Len(q) /\ q[k] = t /\ Len(q) \in Nat
    BY Elements
  <2> HIDE DEF p, K
  <2>4. ASSUME NEW i \in 1..Len(p)
        PROVE  \E m \in 1..Len(q) : /\ m = (IF i < k THEN i ELSE i + 1) /\ p[i] = q[m]
                                    /\ m # k /\ (i # 1 => m # 1)
    <3> DEFINE m == IF i < k THEN i ELSE i + 1
    <3>1. m \in 1..Len(q) /\ i \in 1..Len(q) - 1 /\ m # k /\ (i # 1 => m # 1)
      BY <2>2, <2>3
    <3>2. p[i] = q[m]
      BY <2>2, <3>1
    <3> QED BY <3>1, <3>2
  <2>5. ~Queued(p, t)
    BY <2>3, <2>4 DEF Queued, Queues
  <2>6. \A i \in 1..Len(p) : tk[p[i]].gen = g /\ Locks(tk[p[i]]) /\ (i # 1 => tk[p[i]].aw = "lock")
    BY <2>4 DEF Queues
  <2>7. \A i, j \in 1..Len(p) : p[i] = p[j] => i = j
    <3> SUFFICES ASSUME NEW i \in 1..Len(p), NEW j \in 1..Len(p), p[i] = p[j] PROVE i = j
      OBVIOUS
    <3>1. PICK m \in 1..Len(q) : m = (IF i < k THEN i ELSE i + 1) /\ p[i] = q[m]
      BY <2>4
    <3>2. PICK n \in 1..Len(q) : n = (IF j < k THEN j ELSE j + 1) /\ p[j] = q[n]
      BY <2>4
    <3>3. m = n
      BY <3>1, <3>2 DEF Queues
    <3> QED BY <3>1, <3>2, <3>3, <2>2, <2>3
  <2>8. Queues(p, g, tk)
    BY <2>6, <2>7 DEF Queues
  <2>9. Queues(p, g, [tk EXCEPT ![t] = w])
    BY <2>1, <2>5, <2>8, QueuesElse
  <2>10. ASSUME NEW u, u # t, Queued(q, u) PROVE Queued(p, u)
    <3>1. PICK m \in 1..Len(q) : q[m] = u
      BY <2>10 DEF Queued
    <3>2. m # k
      BY <3>1, <2>3, <2>10
    <3> DEFINE i == IF m < k THEN m ELSE m - 1
    <3>3. i \in 1..Len(q) - 1 /\ m = IF i < k THEN i ELSE i + 1
      BY <3>2, <2>3
    <3>4. i \in 1..Len(p) /\ p[i] = q[m]
      BY <3>3, <2>2
    <3> QED BY <3>1, <3>4 DEF Queued
  <2> QED BY <2>9, <2>10 DEF p, K
<1> QED BY <1>2, <1>3

\* The worker is done with its first job,
LEMMA WorksTail ==
  ASSUME NEW tk, NEW jobs \in Seq(Jobs), NEW g, Works(jobs, g, tk), jobs # <<>>
  PROVE  /\ Works(Tail(jobs), g, tk)
         /\ jobs[1].task # "none" => ~HasJob(Tail(jobs), jobs[1].task)
         /\ \A i \in 1..Len(Tail(jobs)) : Untried(Tail(jobs)[i])
<1>1. /\ Tail(jobs) \in Seq(Jobs)
      /\ \A i \in 1..Len(Tail(jobs)) : i + 1 \in 2..Len(jobs) /\ Tail(jobs)[i] = jobs[i + 1]
  BY Rest
<1>2. Len(jobs) \in Nat /\ Len(Tail(jobs)) \in Nat /\ 1 \in 1..Len(jobs)
  BY <1>1, Elements
<1>3. \A i \in 1..Len(Tail(jobs)) : JobOK(Tail(jobs)[i], g, tk) /\ Untried(Tail(jobs)[i])
  BY <1>1, <1>2 DEF Works
<1>4. ASSUME NEW i \in 1..Len(Tail(jobs)), NEW k \in 1..Len(Tail(jobs)),
             Tail(jobs)[i].task = Tail(jobs)[k].task, Tail(jobs)[i].task # "none"
      PROVE  i = k
  <2>1. /\ i + 1 \in 1..Len(jobs) /\ k + 1 \in 1..Len(jobs)
        /\ jobs[i + 1].task = jobs[k + 1].task /\ jobs[i + 1].task # "none"
    BY <1>1, <1>2, <1>4
  <2>2. i + 1 = k + 1
    BY <2>1 DEF Works
  <2> QED BY <2>2, <1>2
<1>5. ASSUME jobs[1].task # "none", NEW i \in 1..Len(Tail(jobs)), Tail(jobs)[i].task = jobs[1].task
      PROVE  FALSE
  <2>1. i + 1 \in 1..Len(jobs) /\ jobs[i + 1].task = jobs[1].task /\ i + 1 # 1
    BY <1>1, <1>2, <1>5
  <2> QED BY <2>1, <1>2, <1>5 DEF Works
<1> QED BY <1>3, <1>4, <1>5 DEF Works, HasJob

\* gets one more,
LEMMA WorksApp ==
  ASSUME NEW tk \in [Tasks -> Coroutines], NEW jobs \in Seq(Jobs), NEW g, NEW t \in Tasks, NEW w,
         NEW op \in Ops, Works(jobs, g, tk), ~HasJob(jobs, t), Served(Job(t, op), g, w)
  PROVE  Works(Append(jobs, Job(t, op)), g, [tk EXCEPT ![t] = w])
<1> DEFINE j == Job(t, op)
           p == Append(jobs, j)
           tk2 == [tk EXCEPT ![t] = w]
<1>1. j \in Jobs /\ Untried(j) /\ j.task = t
  BY JobTyped
<1>2. Works(jobs, g, tk2)
  BY WorksElse
<1>3. tk2[t] = w /\ t # "none"
  BY TasksAre
<1>4. Served(j, g, w)
  OBVIOUS
<1> HIDE DEF j, tk2
<1>5. /\ Len(p) = Len(jobs) + 1 /\ p[Len(jobs) + 1] = j
      /\ \A i \in 1..Len(jobs) : p[i] = jobs[i]
      /\ \A i \in 1..Len(p) : i \in 1..Len(jobs) \/ i = Len(jobs) + 1
  BY <1>1, Added
<1> HIDE DEF p
<1>6. JobOK(j, g, tk2)
  BY <1>1, <1>3, <1>4 DEF JobOK, Untried
<1>7. \A i \in 1..Len(p) : JobOK(p[i], g, tk2) /\ (i # 1 => Untried(p[i]))
  BY <1>1, <1>2, <1>5, <1>6 DEF Works
<1>8. \A i, k \in 1..Len(p) : p[i].task = p[k].task /\ p[i].task # "none" => i = k
  <2>1. \A i \in 1..Len(jobs) : jobs[i].task # j.task
    BY <1>1 DEF HasJob
  <2> QED BY <2>1, <1>2, <1>5 DEF Works
<1>9. Works(p, g, tk2)
  BY <1>7, <1>8 DEF Works
<1> QED BY <1>9 DEF p, tk2, j

\* goes on with the one it has,
LEMMA WorksTop ==
  ASSUME NEW tk, NEW jobs \in Seq(Jobs), NEW g, Works(jobs, g, tk), jobs # <<>>,
         NEW x \in Jobs, x.task = jobs[1].task, x.op = jobs[1].op, x.op \notin {"open", "close"},
         x.op = "raw" => x.try = 1
  PROVE  Works(<<x>> \o Tail(jobs), g, tk)
<1> DEFINE p == <<x>> \o Tail(jobs)
<1>1. Len(p) = Len(jobs) /\ p[1] = x /\ \A i \in 2..Len(jobs) : p[i] = jobs[i]
  BY Headed
<1>2. Len(jobs) \in Nat /\ 1 \in 1..Len(jobs)
  BY Elements
<1> HIDE DEF p
<1>3. JobOK(x, g, tk)
  BY <1>2 DEF Works, JobOK, Served
<1>4. ASSUME NEW i \in 1..Len(p) PROVE JobOK(p[i], g, tk) /\ (i # 1 => Untried(p[i]))
  <2>1. CASE i = 1
    BY <2>1, <1>1, <1>3
  <2>2. CASE i # 1
    <3>1. i \in 2..Len(jobs)
      BY <1>1, <1>2, <2>2
    <3> QED BY <3>1, <2>2, <1>1, <1>2 DEF Works
  <2> QED BY <2>1, <2>2
<1>5. \A i \in 1..Len(p) : p[i].task = jobs[i].task
  BY <1>1, <1>2
<1>6. \A i, k \in 1..Len(p) : p[i].task = p[k].task /\ p[i].task # "none" => i = k
  BY <1>1, <1>5 DEF Works
<1>7. Works(p, g, tk)
  BY <1>4, <1>6 DEF Works
<1> QED BY <1>7 DEF p

\* or has one withdrawn.
LEMMA WorksWithdrawn ==
  ASSUME NEW tk \in [Tasks -> Coroutines], NEW jobs \in Seq(Jobs), NEW g, NEW w,
         Works(jobs, g, tk), Fit("save", tk["save"])
  PROVE  Works(Withdrawn(jobs), g, [tk EXCEPT !["save"] = w])
<1> DEFINE p == Withdrawn(jobs)
           tk2 == [tk EXCEPT !["save"] = w]
<1>0. "save" \in Tasks /\ "save" # "none" /\ Len(jobs) \in Nat
  BY TasksAre, Elements
<1>1. CASE jobs # <<>> /\ jobs[1].task = "save"
  <2>1. /\ p \in Seq(Jobs) /\ Len(p) = Len(jobs) /\ p[1] = [jobs[1] EXCEPT !.task = "none"]
        /\ \A i \in 2..Len(jobs) : p[i] = jobs[i]
    BY <1>1, WithdrawnIs
  <2>2. 1 \in 1..Len(jobs) /\ jobs[1] \in Jobs
    BY <1>1, Elements
  <2> HIDE DEF p
  <2>3. jobs[1].op \in {"save", "close"}
    <3>1. Served(jobs[1], g, tk["save"])
      BY <1>1, <2>2 DEF Works, JobOK
    <3>2. tk["save"].at \in {"idle", "sleep", "save"}
      BY AtsAre DEF Fit
    <3>3. jobs[1].op \in Ops
      BY <2>2, JobIs
    <3> QED BY <3>1, <3>2, <3>3 DEF Served, Ops, Commands
  <2>4. /\ p[1].task = "none" /\ p[1].op = jobs[1].op /\ p[1].try = jobs[1].try
        /\ p[1].st = jobs[1].st
    BY <2>1, <2>2 DEF Jobs
  <2>5. JobOK(p[1], g, tk)
    BY <2>2, <2>3, <2>4 DEF Works, JobOK, Untried
  <2>6. \A i \in 1..Len(p) : i = 1 \/ i \in 2..Len(jobs)
    BY <2>1, <1>0
  <2>7. \A i \in 2..Len(jobs) : jobs[i].task # "save"
    BY <1>0, <1>1, <2>2 DEF Works
  <2>8. Works(p, g, tk)
    <3>1. \A i \in 1..Len(p) : JobOK(p[i], g, tk) /\ (i # 1 => Untried(p[i]))
      BY <2>1, <2>5, <2>6 DEF Works
    <3>2. \A i, k \in 1..Len(p) : p[i].task = p[k].task /\ p[i].task # "none" => i = k
      BY <2>1, <2>4, <2>6 DEF Works
    <3> QED BY <3>1, <3>2 DEF Works
  <2>9. ~HasJob(p, "save")
    BY <2>1, <2>4, <2>6, <2>7 DEF HasJob
  <2>10. Works(p, g, tk2)
    BY <2>1, <2>8, <2>9, <1>0, WorksElse
  <2> QED BY <2>10 DEF p
<1>2. CASE ~(jobs # <<>> /\ jobs[1].task = "save")
  <2> DEFINE K == {k \in 1..Len(jobs) : jobs[k].task = "save"}
  <2>1. p = Without(jobs, K) /\ p \in Seq(Jobs)
    BY <1>2, WithdrawnIs
  <2>2. K \in SUBSET (1..Len(jobs)) /\ \A k \in K : jobs[k].task = "save"
    OBVIOUS
  <2>3. CASE K = {}
    <3>1. p = jobs
      <4> HIDE DEF K
      <4> QED BY <2>1, <2>2, <2>3, WithoutIs
    <3>2. ~HasJob(jobs, "save")
      BY <2>3 DEF HasJob
    <3> HIDE DEF p, K
    <3> QED BY <3>1, <3>2, <1>0, WorksElse DEF p
  <2>4. CASE K # {}
    <3>1. PICK k \in K : /\ Len(p) = Len(jobs) - 1
                         /\ \A i \in 1..Len(jobs) - 1 : p[i] = jobs[IF i < k THEN i ELSE i + 1]
      <4> HIDE DEF K, p
      <4> QED BY <2>1, <2>2, <2>4, WithoutIs
    <3>2. k \in 1..Len(jobs) /\ jobs[k].task = "save"
      OBVIOUS
    <3> HIDE DEF p, K
    <3>3. ASSUME NEW i \in 1..Len(p)
          PROVE  \E m \in 1..Len(jobs) : /\ m = (IF i < k THEN i ELSE i + 1) /\ p[i] = jobs[m]
                                         /\ m # k /\ (i # 1 => m # 1)
      <4> DEFINE m == IF i < k THEN i ELSE i + 1
      <4>1. m \in 1..Len(jobs) /\ i \in 1..Len(jobs) - 1 /\ m # k /\ (i # 1 => m # 1)
        BY <3>1, <3>2, <1>0
      <4>2. p[i] = jobs[m]
        BY <3>1, <4>1
      <4> QED BY <4>1, <4>2
    <3>4. \A i \in 1..Len(p) : JobOK(p[i], g, tk) /\ (i # 1 => Untried(p[i]))
      BY <3>3 DEF Works
    <3>5. ~HasJob(p, "save")
      BY <3>2, <3>3 DEF Works, HasJob
    <3>6. \A i, j \in 1..Len(p) : p[i].task = p[j].task /\ p[i].task # "none" => i = j
      <4> SUFFICES ASSUME NEW i \in 1..Len(p), NEW j \in 1..Len(p),
                          p[i].task = p[j].task, p[i].task # "none"
                   PROVE  i = j
        OBVIOUS
      <4>1. PICK m \in 1..Len(jobs) : m = (IF i < k THEN i ELSE i + 1) /\ p[i] = jobs[m]
        BY <3>3
      <4>2. PICK n \in 1..Len(jobs) : n = (IF j < k THEN j ELSE j + 1) /\ p[j] = jobs[n]
        BY <3>3
      <4>3. m = n
        BY <4>1, <4>2 DEF Works
      <4> QED BY <4>1, <4>2, <4>3, <3>1, <3>2, <1>0
    <3>7. Works(p, g, tk)
      BY <3>4, <3>6 DEF Works
    <3>8. Works(p, g, tk2)
      BY <2>1, <3>5, <3>7, <1>0, WorksElse
    <3> QED BY <3>8 DEF p
  <2> QED BY <2>3, <2>4
<1> QED BY <1>1, <1>2

(***************************************************************************)
(* The shape of the queues and the jobs, one change at a time.             *)
(***************************************************************************)
\* Coroutine t moves from tk[t] to w, at client g, whose queue and jobs change.
LEMMA ShapeStep ==
  ASSUME NEW cl, NEW tk, Typed(cl, tk), Shape(cl, tk), NEW g \in Gen, NEW t \in Tasks,
         NEW w \in Coroutines, NEW cl2, NEW q, NEW jobs, Only(cl2, cl, g, q, jobs),
         tk[t].gen = g \/ tk[t].aw \in {"none", "opened", "closed"},
         Fit(t, w), Locks(w) => w.gen = g /\ Queued(q, t),
         Queues(q, g, [tk EXCEPT ![t] = w]), Works(jobs, g, [tk EXCEPT ![t] = w]),
         \A u : u # t /\ Queued(cl[g].queue, u) => Queued(q, u)
  PROVE  Typed(cl2, [tk EXCEPT ![t] = w]) /\ Shape(cl2, [tk EXCEPT ![t] = w])
<1> DEFINE tk2 == [tk EXCEPT ![t] = w]
<1>1. Typed(cl2, tk2)
  BY DEF Typed, Only
<1>2. tk2[t] = w /\ \A u \in Tasks : u # t => tk2[u] = tk[u]
  BY DEF Typed
<1>3. ASSUME NEW h \in Gen PROVE Queues(cl2[h].queue, h, tk2) /\ Works(cl2[h].jobs, h, tk2)
  <2>1. CASE h = g
    BY <2>1 DEF Only
  <2>2. CASE h # g
    <3>1. cl2[h] = cl[h] /\ cl[h].queue \in Seq(Tasks) /\ cl[h].jobs \in Seq(Jobs)
      BY <2>2, ClientIs DEF Only, Typed
    <3>2. ~Queued(cl[h].queue, t) /\ ~HasJob(cl[h].jobs, t)
      BY <2>2, Absent DEF Locks
    <3>3. Queues(cl[h].queue, h, tk) /\ Works(cl[h].jobs, h, tk) /\ tk \in [Tasks -> Coroutines]
      BY DEF Shape, Typed
    <3> QED BY <3>1, <3>2, <3>3, QueuesElse, WorksElse
  <2> QED BY <2>1, <2>2
<1>4. ASSUME NEW u \in Tasks PROVE Fit(u, tk2[u]) /\ Placed(cl2, u, tk2[u])
  <2>1. CASE u = t
    BY <2>1, <1>2 DEF Placed, Only
  <2>2. CASE u # t
    <3>1. tk2[u] = tk[u] /\ Fit(u, tk[u]) /\ Placed(cl, u, tk[u])
      BY <2>2, <1>2 DEF Shape
    <3>2. tk[u].gen \in Gen
      BY CoroutineIs DEF Typed
    <3>3. Placed(cl2, u, tk[u])
      BY <2>2, <3>1, <3>2 DEF Placed, Only
    <3> QED BY <3>1, <3>3
  <2> QED BY <2>1, <2>2
<1> HIDE DEF tk2
<1>5. Shape(cl2, tk2)
  BY <1>3, <1>4 DEF Shape
<1> QED BY <1>1, <1>5 DEF tk2

\* Only the jobs of client g change.
LEMMA ShapeJobs ==
  ASSUME NEW cl, NEW tk, Typed(cl, tk), Shape(cl, tk), NEW g \in Gen,
         NEW cl2, NEW jobs, Only(cl2, cl, g, cl[g].queue, jobs), Works(jobs, g, tk)
  PROVE  Typed(cl2, tk) /\ Shape(cl2, tk)
<1>1. Typed(cl2, tk)
  BY DEF Typed, Only
<1>2. \A h \in Gen : cl2[h].queue = cl[h].queue
  BY DEF Only
<1>3. \A h \in Gen : Queues(cl2[h].queue, h, tk) /\ Works(cl2[h].jobs, h, tk)
  BY <1>2 DEF Only, Shape
<1>4. ASSUME NEW u \in Tasks PROVE Placed(cl2, u, tk[u])
  <2>1. tk[u].gen \in Gen
    BY CoroutineIs DEF Typed
  <2> QED BY <2>1, <1>2 DEF Placed, Shape
<1> QED BY <1>1, <1>3, <1>4 DEF Shape

\* The queues and the jobs stay as they are.
LEMMA ShapeSame ==
  ASSUME NEW cl, NEW tk, Typed(cl, tk), Shape(cl, tk), NEW cl2 \in [Gen -> Client],
         \A h \in Gen : cl2[h].queue = cl[h].queue /\ cl2[h].jobs = cl[h].jobs
  PROVE  Typed(cl2, tk) /\ Shape(cl2, tk)
<1>1. Typed(cl2, tk)
  BY DEF Typed
<1>2. ASSUME NEW u \in Tasks PROVE Placed(cl2, u, tk[u])
  <2>1. tk[u].gen \in Gen
    BY CoroutineIs DEF Typed
  <2> QED BY <2>1 DEF Placed, Shape
<1> QED BY <1>1, <1>2 DEF Shape

(***************************************************************************)
(* The rest of the invariant, one change at a time.                        *)
(***************************************************************************)
\* What the steps read off the types.
LEMMA StateIs ==
  ASSUME TypeOK
  PROVE  /\ use \in Uses /\ cable \in BOOLEAN /\ Typed(client, task)
         /\ pipe \in [Gen -> Pipe] /\ \A g \in Gen : pipe[g] \in Pipe
         /\ host.cur \in Gen /\ host.cur \in Nat /\ host.connected \in BOOLEAN
         /\ host.cache \in BOOLEAN /\ host.was \in BOOLEAN /\ host.paused \in BOOLEAN
         /\ device.ram \in 0..use.writes /\ device.flash \in 0..use.writes
         /\ left.writes \in 0..use.writes /\ left.losses \in 0..use.losses
         /\ left.cuts \in 0..use.cuts /\ left.raw \in BOOLEAN /\ left.reconf \in 0..use.reconf
         /\ Spent \in Nat /\ Spent <= use.losses /\ Issued \in 0..use.writes
         /\ pulled \in BOOLEAN /\ overtaken \in BOOLEAN /\ revived \in BOOLEAN
         /\ failed \in BOOLEAN /\ crossed \in BOOLEAN
<1>1. /\ use \in Uses /\ cable \in BOOLEAN /\ pipe \in [Gen -> Pipe] /\ host.cur \in Gen
      /\ host.connected \in BOOLEAN /\ host.cache \in BOOLEAN /\ host.was \in BOOLEAN
      /\ host.paused \in BOOLEAN
      /\ device.ram \in 0..use.writes /\ device.flash \in 0..use.writes
      /\ left.writes \in 0..use.writes /\ left.losses \in 0..use.losses
      /\ left.cuts \in 0..use.cuts /\ left.raw \in BOOLEAN /\ left.reconf \in 0..use.reconf
      /\ pulled \in BOOLEAN /\ overtaken \in BOOLEAN /\ revived \in BOOLEAN
      /\ failed \in BOOLEAN /\ crossed \in BOOLEAN
  BY DEF TypeOK
<1>2. Typed(client, task)
  BY DEF TypeOK, Typed
<1>3. use.writes \in 0..Len(Writers) /\ use.losses \in Nat
  BY <1>1, UseIs
<1>4. Spent \in Nat /\ Spent <= use.losses
  BY <1>1, <1>3 DEF Spent
<1>5. Issued \in 0..use.writes
  BY <1>1, <1>3 DEF Issued
<1>6. host.cur \in Nat
  BY <1>1, UseIs
<1> QED BY <1>1, <1>2, <1>4, <1>5, <1>6

\* jobs are jobs of old, or one more that the worker can do; the first is new or as it was.
Offers(jobs, old, open) ==
  \A i \in 1..Len(jobs) : \/ \E k \in 1..Len(old) : jobs[i].op = old[k].op
                          \/ jobs[i].op = "open"
                          \/ open /\ jobs[i].op # "close"
Grows(jobs, old, open) ==
  /\ Offers(jobs, old, open)
  /\ jobs # <<>> => \/ Untried(jobs[1])
                    \/ old # <<>> /\ jobs[1].try = old[1].try /\ jobs[1].st = old[1].st

\* Jobs stay as they are,
LEMMA GrowsSame == ASSUME NEW jobs, NEW open PROVE Grows(jobs, jobs, open)
  BY DEF Grows, Offers

\* the first is done,
LEMMA GrowsTail ==
  ASSUME NEW tk, NEW jobs \in Seq(Jobs), NEW g, NEW open, Works(jobs, g, tk), jobs # <<>>
  PROVE  Grows(Tail(jobs), jobs, open)
<1>1. /\ Tail(jobs) \in Seq(Jobs)
      /\ \A i \in 1..Len(Tail(jobs)) : i + 1 \in 2..Len(jobs) /\ Tail(jobs)[i] = jobs[i + 1]
  BY Rest
<1>2. \A i \in 1..Len(Tail(jobs)) : i + 1 \in 1..Len(jobs) /\ Tail(jobs)[i].op = jobs[i + 1].op
  BY <1>1, Elements
<1>3. Tail(jobs) # <<>> => Untried(Tail(jobs)[1])
  <2> SUFFICES ASSUME Tail(jobs) # <<>> PROVE Untried(Tail(jobs)[1])
    OBVIOUS
  <2>1. 1 \in 1..Len(Tail(jobs))
    BY <1>1, Elements
  <2> QED BY <2>1, WorksTail
<1> QED BY <1>2, <1>3 DEF Grows, Offers

\* one is added,
LEMMA GrowsApp ==
  ASSUME NEW jobs \in Seq(Jobs), NEW j \in Jobs, NEW open, Untried(j),
         j.op = "open" \/ (open /\ j.op # "close")
  PROVE  Grows(Append(jobs, j), jobs, open)
<1> DEFINE p == Append(jobs, j)
<1>1. /\ Len(p) = Len(jobs) + 1 /\ p[Len(jobs) + 1] = j
      /\ \A i \in 1..Len(jobs) : p[i] = jobs[i]
      /\ \A i \in 1..Len(p) : i \in 1..Len(jobs) \/ i = Len(jobs) + 1
  BY Added
<1>2. Len(jobs) \in Nat /\ (jobs = <<>> => Len(jobs) = 0) /\ (jobs # <<>> => 1 \in 1..Len(jobs))
  BY Elements
<1> HIDE DEF p
<1>3. \A i \in 1..Len(p) : \/ \E k \in 1..Len(jobs) : p[i].op = jobs[k].op
                           \/ p[i].op = "open" \/ (open /\ p[i].op # "close")
  BY <1>1
<1>4. Untried(p[1]) \/ (jobs # <<>> /\ p[1].try = jobs[1].try /\ p[1].st = jobs[1].st)
  BY <1>1, <1>2
<1> QED BY <1>3, <1>4 DEF Grows, Offers, p

\* or one withdrawn.
LEMMA GrowsWithdrawn ==
  ASSUME NEW jobs \in Seq(Jobs), NEW open
  PROVE  Grows(Withdrawn(jobs), jobs, open)
<1> DEFINE p == Withdrawn(jobs)
<1>0. Len(jobs) \in Nat
  BY Elements
<1>1. CASE jobs # <<>> /\ jobs[1].task = "save"
  <2>1. /\ Len(p) = Len(jobs) /\ p[1] = [jobs[1] EXCEPT !.task = "none"]
        /\ \A i \in 2..Len(jobs) : p[i] = jobs[i]
    BY <1>1, WithdrawnIs
  <2>2. jobs[1] \in Jobs /\ 1 \in 1..Len(jobs)
    BY <1>1, Elements
  <2> HIDE DEF p
  <2>3. p[1].op = jobs[1].op /\ p[1].try = jobs[1].try /\ p[1].st = jobs[1].st
    BY <2>1, <2>2 DEF Jobs
  <2>4. \A i \in 1..Len(p) : i = 1 \/ i \in 2..Len(jobs)
    BY <2>1, <1>0
  <2>5. \A i \in 1..Len(p) : i \in 1..Len(jobs) /\ p[i].op = jobs[i].op
    BY <2>1, <2>2, <2>3, <2>4
  <2> QED BY <1>1, <2>3, <2>5 DEF Grows, Offers, p
<1>2. CASE ~(jobs # <<>> /\ jobs[1].task = "save")
  <2> DEFINE K == {k \in 1..Len(jobs) : jobs[k].task = "save"}
  <2>1. p = Without(jobs, K)
    BY <1>2, WithdrawnIs
  <2>2. K \in SUBSET (1..Len(jobs)) /\ \A k \in K : jobs[k].task = "save"
    OBVIOUS
  <2>3. CASE K = {}
    <3>1. p = jobs
      <4> HIDE DEF K
      <4> QED BY <2>1, <2>2, <2>3, WithoutIs
    <3> QED BY <3>1, GrowsSame
  <2>4. CASE K # {}
    <3>0. p \in Seq(Jobs)
      BY WithdrawnIs
    <3>1. PICK k \in K : /\ Len(p) = Len(jobs) - 1
                         /\ \A i \in 1..Len(jobs) - 1 : p[i] = jobs[IF i < k THEN i ELSE i + 1]
      <4> HIDE DEF K, p
      <4> QED BY <2>1, <2>2, <2>4, WithoutIs
    <3>2. k \in 1..Len(jobs) /\ jobs[k].task = "save"
      OBVIOUS
    <3> HIDE DEF p, K
    <3>3. jobs # <<>> /\ k # 1
      BY <3>2, <1>2, <1>0, Elements
    <3>4. \A i \in 1..Len(p) : \E m \in 1..Len(jobs) : p[i].op = jobs[m].op
      <4> SUFFICES ASSUME NEW i \in 1..Len(p) PROVE \E m \in 1..Len(jobs) : p[i].op = jobs[m].op
        OBVIOUS
      <4> DEFINE m == IF i < k THEN i ELSE i + 1
      <4>1. m \in 1..Len(jobs) /\ i \in 1..Len(jobs) - 1
        BY <3>1, <3>2, <1>0
      <4>2. p[i] = jobs[m]
        BY <3>1, <4>1
      <4> QED BY <4>1, <4>2
    <3>5. p # <<>> => p[1] = jobs[1]
      <4> SUFFICES ASSUME p # <<>> PROVE p[1] = jobs[1]
        OBVIOUS
      <4>1. 1 \in 1..Len(p)
        BY <3>0, Elements
      <4>2. 1 \in 1..Len(jobs) - 1 /\ 1 < k
        BY <4>1, <3>1, <3>2, <3>3, <1>0
      <4> QED BY <4>2, <3>1
    <3> QED BY <3>3, <3>4, <3>5 DEF Grows, Offers, p
  <2> QED BY <2>3, <2>4
<1> QED BY <1>1, <1>2

\* The transport of a client, when what it has to do shrinks, or grows by what it can do.
LEMMA ServesStep ==
  ASSUME NEW c, NEW c2, c2.open = c.open, c2.up = c.up, Serves(c),
         c2.queue = <<>> \/ c.queue # <<>> \/ (c.open /\ c.up), Offers(c2.jobs, c.jobs, c.open)
  PROVE  Serves(c2)
  BY DEF Serves, Offers

\* Payments, likewise.
LEMMA PaidStep ==
  ASSUME TypeOK, NEW c, NEW c2, NEW p, Paid(c, p), Grows(c2.jobs, c.jobs, c.open)
  PROVE  Paid(c2, p)
<1>1. Spent \in Nat
  BY StateIs
<1> QED BY <1>1 DEF Paid, Covered, Grows, Untried

\* The order of the writes, when some are taken out of the queue,
LEMMA OrderLeft ==
  ASSUME NEW q, NEW q2, NEW req, NEW n, Left(q2, q), Ascending(q), Sent(req, q, n)
  PROVE  Ascending(q2) /\ Sent(req, q2, n) /\ (Floor(req, q) => Floor(req, q2))
<1>1. PICK f \in [1..Len(q2) -> 1..Len(q)] :
        /\ \A i, k \in 1..Len(q2) : i < k => f[i] < f[k]
        /\ \A i \in 1..Len(q2) : q2[i] = q[f[i]]
  BY DEF Left
<1>2. \A i \in 1..Len(q2) : f[i] \in 1..Len(q)
  BY <1>1
<1>3. Ascending(q2)
  BY <1>1, <1>2 DEF Ascending
<1>4. Sent(req, q2, n)
  BY <1>1, <1>2 DEF Sent
<1>5. Floor(req, q) => Floor(req, q2)
  BY <1>1, <1>2 DEF Floor
<1> QED BY <1>3, <1>4, <1>5

\* or a newer one, or another command, is added.
LEMMA OrderApp ==
  ASSUME NEW q \in Seq(Tasks), NEW req, NEW n \in Nat, NEW t \in Tasks, NEW n2 \in {n, n + 1},
         Ascending(q), Sent(req, q, n),
         \A i \in 1..Len(q) : \A a \in 1..Len(Writers) : q[i] = Writers[a] => a <= n,
         \A a \in 1..Len(Writers) : t = Writers[a] => n2 = n + 1 /\ a = n2,
         device.ram \in Nat, device.ram <= n
  PROVE  /\ Ascending(Append(q, t)) /\ Sent(req, Append(q, t), n2)
         /\ Floor(req, q) => Floor(req, Append(q, t))
<1> DEFINE p == Append(q, t)
<1>1. /\ Len(p) = Len(q) + 1 /\ p[Len(q) + 1] = t
      /\ \A i \in 1..Len(q) : p[i] = q[i]
      /\ \A i \in 1..Len(p) : i \in 1..Len(q) \/ i = Len(q) + 1
  BY Added
<1>2. Len(q) \in Nat
  BY Elements
<1> HIDE DEF p
<1>3. Ascending(p)
  <2> SUFFICES ASSUME NEW i \in 1..Len(p), NEW k \in 1..Len(p), NEW a \in 1..Len(Writers),
                      NEW b \in 1..Len(Writers), i < k, p[i] = Writers[a], p[k] = Writers[b]
               PROVE  a < b
    BY DEF Ascending
  <2>1. i \in 1..Len(q) /\ q[i] = Writers[a]
    BY <1>1, <1>2
  <2>2. CASE k \in 1..Len(q)
    BY <2>1, <2>2, <1>1 DEF Ascending
  <2>3. CASE k = Len(q) + 1
    <3>1. b = n + 1 /\ a <= n
      BY <2>1, <2>3, <1>1
    <3> QED BY <3>1
  <2> QED BY <2>2, <2>3, <1>1
<1>4. ASSUME NEW i \in 1..Len(req), NEW a \in 1..Len(Writers), Sets(req[i], a) PROVE a <= n
  <2>1. PICK b \in 1..n : Sets(req[i], b)
    BY <1>4 DEF Sent, Sets
  <2>2. Writers[a] = Writers[b]
    BY <1>4, <2>1 DEF Sets
  <2>3. CASE b \in 1..Len(Writers)
    <3>1. a = b
      BY <2>2, <2>3, WritersAre
    <3> QED BY <3>1
  <2>4. CASE b \notin 1..Len(Writers)
    BY <2>1, <2>4, WritersAre
  <2> QED BY <2>3, <2>4
<1>5. Sent(req, p, n2)
  <2>1. \A i \in 1..Len(req) : req[i].op = "set" => \E a \in 1..n2 : Sets(req[i], a)
    <3> SUFFICES ASSUME NEW i \in 1..Len(req), req[i].op = "set"
                 PROVE  \E a \in 1..n2 : Sets(req[i], a)
      OBVIOUS
    <3>1. PICK a \in 1..n : Sets(req[i], a)
      BY DEF Sent
    <3>2. a \in 1..n2
      OBVIOUS
    <3> QED BY <3>1, <3>2
  <2>2. ASSUME NEW i \in 1..Len(req), NEW k \in 1..Len(p), NEW a \in 1..Len(Writers),
               NEW b \in 1..Len(Writers), Sets(req[i], a), p[k] = Writers[b]
        PROVE  a <= b
    <3>1. CASE k \in 1..Len(q)
      BY <2>2, <3>1, <1>1 DEF Sent
    <3>2. CASE k = Len(q) + 1
      <4>1. b = n + 1 /\ a <= n
        BY <2>2, <3>2, <1>1, <1>4
      <4> QED BY <4>1
    <3> QED BY <3>1, <3>2, <1>1
  <2> QED BY <2>1, <2>2 DEF Sent
<1>6. ASSUME Floor(req, q) PROVE Floor(req, p)
  <2>1. ASSUME NEW k \in 1..Len(p), NEW a \in 1..Len(Writers), p[k] = Writers[a]
        PROVE  device.ram <= a
    <3>1. CASE k \in 1..Len(q)
      BY <1>6, <2>1, <3>1, <1>1 DEF Floor
    <3>2. CASE k = Len(q) + 1
      <4>1. a = n + 1
        BY <2>1, <3>2, <1>1
      <4> QED BY <4>1
    <3> QED BY <3>1, <3>2, <1>1
  <2> QED BY <1>6, <2>1 DEF Floor
<1> QED BY <1>3, <1>5, <1>6 DEF p

\* A client that has anything to do is the current one, or one before it.
LEMMA NotFuture ==
  ASSUME NEW cl, NEW tk, Fresh(cl, tk), NEW g \in Gen, cl[g].queue # <<>> \/ cl[g].jobs # <<>>,
         TypeOK
  PROVE  g <= host.cur
<1>1. host.cur \in Nat /\ g \in Nat
  BY StateIs, UseIs
<1> QED BY <1>1, NewTyped DEF Fresh

\* Coroutine t moves to w, and client g has less to do, or more jobs it can do.
LEMMA RestMost ==
  ASSUME NEW cl, NEW tk, NEW n \in Nat, TypeOK, Sound(cl, tk, n),
         NEW g \in Gen, NEW cl2, NEW q, NEW jobs, Only(cl2, cl, g, q, jobs), g <= host.cur,
         Left(q, cl[g].queue), Serves(cl[g]) => Offers(jobs, cl[g].jobs, cl[g].open),
         NEW t \in Tasks, NEW w,
         w.gen <= host.cur, w.out = "crash" \/ w.at = "dead" => pulled,
         \A a \in 1..Len(Writers) : t = Writers[a] /\ a > n => w = Idle
  PROVE  /\ Lively(cl2, [tk EXCEPT ![t] = w]) /\ Fresh(cl2, [tk EXCEPT ![t] = w])
         /\ Ordered(cl2, [tk EXCEPT ![t] = w], n) /\ Past(cl2)
         /\ Keeps(cl[host.cur]) => Keeps(cl2[host.cur])
<1> DEFINE tk2 == [tk EXCEPT ![t] = w]
<1>0. /\ host.cur \in Gen /\ host.cur \in Nat /\ \A h \in Gen : h \in Nat
      /\ Lively(cl, tk) /\ Fresh(cl, tk) /\ Ordered(cl, tk, n) /\ Past(cl)
      /\ \A u \in Tasks : u # t => tk2[u] = tk[u]
      /\ tk2[t] = w
  BY StateIs, UseIs DEF Sound, Typed
<1> HIDE DEF tk2
<1>1. /\ cl2[g].queue = q /\ cl2[g].jobs = jobs
      /\ cl2[g].open = cl[g].open /\ cl2[g].up = cl[g].up /\ cl2[g].broken = cl[g].broken
      /\ \A h \in Gen : h # g => cl2[h] = cl[h]
  BY DEF Only
<1>2. q = <<>> \/ cl[g].queue # <<>>
  <2>1. cl2[g].queue \in Seq(Tasks) /\ cl[g].queue \in Seq(Tasks)
    BY ClientIs DEF Only, Sound, Typed
  <2>2. Len(q) <= Len(cl[g].queue)
    BY DEF Left
  <2> QED BY <1>1, <2>1, <2>2, Elements
<1>3. ASSUME NEW h \in Gen, Serves(cl[h]) PROVE Serves(cl2[h])
  <2>1. CASE h = g
    BY <1>1, <1>2, <1>3, <2>1, ServesStep
  <2>2. CASE h # g
    BY <1>1, <1>3, <2>2
  <2> QED BY <2>1, <2>2
<1>4. Lively(cl2, tk2)
  BY <1>0, <1>3 DEF Lively
<1>5. Fresh(cl2, tk2)
  BY <1>0, <1>1 DEF Fresh
<1>6. ASSUME NEW h \in Gen
      PROVE  /\ Ascending(cl2[h].queue) /\ Sent(pipe[h].req, cl2[h].queue, n)
             /\ Floor(pipe[h].req, cl[h].queue) => Floor(pipe[h].req, cl2[h].queue)
  <2>1. Ascending(cl[h].queue) /\ Sent(pipe[h].req, cl[h].queue, n)
    BY <1>0 DEF Ordered
  <2>2. CASE h = g
    BY <1>1, <2>1, <2>2, OrderLeft
  <2>3. CASE h # g
    BY <1>1, <2>1, <2>3
  <2> QED BY <2>2, <2>3
<1>7. Ordered(cl2, tk2, n)
  <2>1. \A a \in 1..Len(Writers) : a > n => tk2[Writers[a]] = Idle
    BY <1>0, WritersAre DEF Ordered
  <2> QED BY <2>1, <1>0, <1>6 DEF Ordered
<1>8. Past(cl2)
  BY <1>0, <1>1, <1>6 DEF Past
<1>9. Keeps(cl[host.cur]) => Keeps(cl2[host.cur])
  <2>1. CASE host.cur = g
    BY <1>1, <1>3, <2>1 DEF Keeps, Offers
  <2>2. CASE host.cur # g
    BY <1>0, <1>1, <2>2
  <2> QED BY <2>1, <2>2
<1> QED BY <1>4, <1>5, <1>7, <1>8, <1>9 DEF tk2

\* The same where the first job is new, or as it was.
LEMMA RestStep ==
  ASSUME NEW cl, NEW tk, NEW n \in Nat, TypeOK, Sound(cl, tk, n),
         NEW g \in Gen, NEW cl2, NEW q, NEW jobs, Only(cl2, cl, g, q, jobs), g <= host.cur,
         Left(q, cl[g].queue), Serves(cl[g]) => Grows(jobs, cl[g].jobs, cl[g].open),
         NEW t \in Tasks, NEW w,
         w.gen <= host.cur, w.out = "crash" \/ w.at = "dead" => pulled,
         \A a \in 1..Len(Writers) : t = Writers[a] /\ a > n => w = Idle
  PROVE  /\ Lively(cl2, [tk EXCEPT ![t] = w]) /\ Fresh(cl2, [tk EXCEPT ![t] = w])
         /\ Ordered(cl2, [tk EXCEPT ![t] = w], n) /\ Past(cl2) /\ Steady(cl2)
<1>1. Serves(cl[g]) => Offers(jobs, cl[g].jobs, cl[g].open)
  BY DEF Grows
<1>2. /\ Lively(cl2, [tk EXCEPT ![t] = w]) /\ Fresh(cl2, [tk EXCEPT ![t] = w])
      /\ Ordered(cl2, [tk EXCEPT ![t] = w], n) /\ Past(cl2)
      /\ Keeps(cl[host.cur]) => Keeps(cl2[host.cur])
  BY <1>1, RestMost
<1>3. Steady(cl) /\ host.cur \in Gen
  BY StateIs DEF Sound
<1>4. Keeps(cl[host.cur]) /\ Paid(cl[host.cur], pipe[host.cur])
        => Paid(cl2[host.cur], pipe[host.cur])
  <2>1. CASE host.cur = g
    <3>1. cl2[g].jobs = jobs
      BY DEF Only
    <3> QED BY <2>1, <3>1, PaidStep DEF Keeps
  <2>2. CASE host.cur # g
    BY <1>3, <2>2 DEF Only
  <2> QED BY <2>1, <2>2
<1>5. Steady(cl2)
  BY <1>2, <1>3, <1>4 DEF Steady
<1> QED BY <1>2, <1>5

\* Coroutine t leaves the lock to the next, for state w, in which it awaits no lock.
LEMMA Releases ==
  ASSUME NEW cl, NEW tk, NEW n \in Nat, TypeOK, Sound(cl, tk, n), NEW t \in Tasks,
         LET q == cl[tk[t].gen].queue IN q # <<>> /\ q[1] = t,
         tk[t].aw \notin {"exec", "close"},
         NEW w \in Coroutines, Fit(t, w), ~Locks(w), w.aw \notin {"exec", "close"},
         w.gen <= host.cur, w.out = "crash" \/ w.at = "dead" => pulled,
         NEW cl2, Only(cl2, cl, tk[t].gen, Tail(cl[tk[t].gen].queue), cl[tk[t].gen].jobs)
  PROVE  Sound(cl2, [tk EXCEPT ![t] = w], n)
<1> DEFINE g == tk[t].gen
           q == cl[g].queue
           jobs == cl[g].jobs
<1>0. /\ Typed(cl, tk) /\ Shape(cl, tk) /\ Fresh(cl, tk) /\ tk \in [Tasks -> Coroutines]
      /\ cl \in [Gen -> Client] /\ Ordered(cl, tk, n)
  BY DEF Sound, Typed
<1>1. g \in Gen /\ q \in Seq(Tasks) /\ jobs \in Seq(Jobs) /\ q # <<>> /\ q[1] = t
  BY <1>0, CoroutineIs, ClientIs
<1>2. Queues(q, g, tk) /\ Works(jobs, g, tk)
  BY <1>0, <1>1 DEF Shape
<1>3. ~HasJob(jobs, t)
  BY <1>0, <1>1, Absent
<1>4. \A a \in 1..Len(Writers) : t = Writers[a] /\ a > n => FALSE
  <2>1. Locks(tk[t])
    BY <1>1, <1>2, Elements DEF Queues
  <2> QED BY <2>1, <1>0 DEF Ordered, Idle, Locks
<1>5. Only(cl2, cl, g, Tail(q), jobs)
  OBVIOUS
<1> HIDE DEF g, q, jobs
<1>6. /\ Queues(Tail(q), g, [tk EXCEPT ![t] = w])
      /\ \A u : u # t /\ Queued(q, u) => Queued(Tail(q), u)
  BY <1>0, <1>1, <1>2, QueuesTail
<1>7. Works(jobs, g, [tk EXCEPT ![t] = w])
  BY <1>0, <1>1, <1>2, <1>3, WorksElse
<1>8. Typed(cl2, [tk EXCEPT ![t] = w]) /\ Shape(cl2, [tk EXCEPT ![t] = w])
  BY <1>0, <1>1, <1>5, <1>6, <1>7, ShapeStep DEF g, q
<1>9. g <= host.cur
  BY <1>0, <1>1, NotFuture DEF q
<1>10. Left(Tail(q), q) /\ Grows(jobs, jobs, cl[g].open)
  BY <1>1, TailLeft, GrowsSame
<1>11. /\ Lively(cl2, [tk EXCEPT ![t] = w]) /\ Fresh(cl2, [tk EXCEPT ![t] = w])
       /\ Ordered(cl2, [tk EXCEPT ![t] = w], n) /\ Past(cl2) /\ Steady(cl2)
  BY <1>1, <1>4, <1>5, <1>9, <1>10, RestStep DEF q, jobs
<1> QED BY <1>8, <1>11 DEF Sound

\* Coroutine t, which waits at no client, moves on without asking for anything.
LEMMA Moves ==
  ASSUME NEW cl, NEW tk, NEW n \in Nat, TypeOK, Sound(cl, tk, n), NEW t \in Tasks,
         tk[t].aw \in {"none", "opened", "closed"},
         t \in {"poll", "save", "update"} \/ tk[t].aw # "none",
         NEW w \in Coroutines, Fit(t, w), ~Locks(w), w.aw \notin {"exec", "close"},
         w.gen <= host.cur, w.out = "crash" \/ w.at = "dead" => pulled
  PROVE  Sound(cl, [tk EXCEPT ![t] = w], n)
<1> DEFINE g == host.cur
           q == cl[g].queue
           jobs == cl[g].jobs
<1>0. /\ Typed(cl, tk) /\ Shape(cl, tk) /\ tk \in [Tasks -> Coroutines]
      /\ cl \in [Gen -> Client] /\ Ordered(cl, tk, n) /\ g \in Gen /\ g \in Nat
  BY StateIs DEF Sound, Typed
<1>1. q \in Seq(Tasks) /\ jobs \in Seq(Jobs)
  BY <1>0, ClientIs
<1>2. Queues(q, g, tk) /\ Works(jobs, g, tk) /\ ~HasJob(jobs, t) /\ ~Queued(q, t)
  BY <1>0, Absent DEF Shape, Locks
<1>3. Only(cl, cl, g, q, jobs) /\ g <= host.cur
  BY <1>0 DEF Only
<1>4. \A a \in 1..Len(Writers) : t = Writers[a] /\ a > n => FALSE
  BY <1>0, WritersAre DEF Ordered, Idle
<1> HIDE DEF g, q, jobs
<1>5. Queues(q, g, [tk EXCEPT ![t] = w]) /\ Works(jobs, g, [tk EXCEPT ![t] = w])
  BY <1>0, <1>1, <1>2, QueuesElse, WorksElse
<1>6. \A u : u # t /\ Queued(q, u) => Queued(q, u)
  OBVIOUS
<1>7. Typed(cl, [tk EXCEPT ![t] = w]) /\ Shape(cl, [tk EXCEPT ![t] = w])
  BY <1>0, <1>3, <1>5, <1>6, ShapeStep DEF q
<1>8. Left(q, q) /\ Grows(jobs, jobs, cl[g].open)
  BY <1>1, SameLeft, GrowsSame
<1>9. /\ Lively(cl, [tk EXCEPT ![t] = w]) /\ Fresh(cl, [tk EXCEPT ![t] = w])
      /\ Ordered(cl, [tk EXCEPT ![t] = w], n) /\ Past(cl) /\ Steady(cl)
  BY <1>0, <1>3, <1>4, <1>8, RestStep DEF q, jobs
<1> QED BY <1>7, <1>9 DEF Sound

\* The save is cancelled, and w in its place.
LEMMA Cancels ==
  ASSUME NEW cl, NEW tk, NEW n \in Nat, TypeOK, Sound(cl, tk, n), tk["save"] = task["save"]
  PROVE  Sound(Cancelled(cl), [tk EXCEPT !["save"] = Sleeping], n)
<1> DEFINE g == task["save"].gen
           q == cl[g].queue
           jobs == cl[g].jobs
           K == {k \in 1..Len(q) : q[k] = "save"}
           w == Sleeping
           tk2 == [tk EXCEPT !["save"] = w]
           cl2 == Cancelled(cl)
<1>0. /\ Typed(cl, tk) /\ Shape(cl, tk) /\ Fresh(cl, tk) /\ tk \in [Tasks -> Coroutines]
      /\ cl \in [Gen -> Client] /\ use \in Uses /\ host.cur \in Nat
  BY StateIs DEF Sound, Typed
<1>1. "save" \in Tasks /\ \A a \in 1..Len(Writers) : "save" # Writers[a]
  BY TasksAre, WritersAre
<1>2. w \in Coroutines /\ Fit("save", w) /\ ~Locks(w) /\ w.aw = "none" /\ w.out = "none"
      /\ w.at = "sleep" /\ w.gen = 0
  BY <1>0, CoroutineTyped, AtsAre DEF Sleeping, Idle, Fit, Locks
<1> HIDE DEF w
<1>3. CASE task["save"].aw = "none"
  <2>1. cl2 = cl
    BY <1>3 DEF Cancelled
  <2> HIDE DEF cl2
  <2>2. tk["save"].aw = "none" /\ w.gen <= host.cur
    BY <1>0, <1>2, <1>3
  <2>3. Sound(cl, tk2, n)
    BY <1>1, <1>2, <2>2, Moves
  <2> QED BY <2>1, <2>3 DEF cl2, tk2, w
<1>4. CASE task["save"].aw # "none"
  <2>1. g \in Gen /\ q \in Seq(Tasks) /\ jobs \in Seq(Jobs) /\ Fit("save", tk["save"]) /\ g \in Nat
    BY <1>0, <1>1, CoroutineIs, ClientIs, UseIs DEF Shape
  <2>2. Queues(q, g, tk) /\ Works(jobs, g, tk)
    BY <1>0, <2>1 DEF Shape
  <2>3. Only(cl2, cl, g, Without(q, K), Withdrawn(jobs))
    BY <1>0, <1>4, <2>1, CancelledIs
  <2> HIDE DEF cl2
  <2>4. /\ Queues(Without(q, K), g, tk2)
        /\ \A u : u # "save" /\ Queued(q, u) => Queued(Without(q, K), u)
    <3> HIDE DEF q, g
    <3>1. LET p == Without(q, {k \in 1..Len(q) : q[k] = "save"})
          IN  /\ Queues(p, g, [tk EXCEPT !["save"] = w])
              /\ \A u : u # "save" /\ Queued(q, u) => Queued(p, u)
      BY <1>0, <1>1, <2>1, <2>2, QueuesWithout
    <3> QED BY <3>1
  <2>5. Works(Withdrawn(jobs), g, tk2)
    <3> HIDE DEF jobs, g
    <3> QED BY <1>0, <2>1, <2>2, WorksWithdrawn
  <2>6. Left(Without(q, K), q)
    <3>1. K \in SUBSET (1..Len(q))
      OBVIOUS
    <3> HIDE DEF K, q
    <3> QED BY <2>1, <3>1, WithoutIs
  <2>7. Grows(Withdrawn(jobs), jobs, cl[g].open)
    BY <2>1, GrowsWithdrawn
  <2> DEFINE q2 == Without(q, K)
             jobs2 == Withdrawn(jobs)
  <2>8. /\ Only(cl2, cl, g, q2, jobs2) /\ Queues(q2, g, tk2) /\ Works(jobs2, g, tk2)
        /\ \A u : u # "save" /\ Queued(cl[g].queue, u) => Queued(q2, u)
        /\ Left(q2, cl[g].queue) /\ Grows(jobs2, cl[g].jobs, cl[g].open)
    BY <2>3, <2>4, <2>5, <2>6, <2>7
  <2>9. g <= host.cur /\ w.gen <= host.cur
    BY <1>0, <1>1, <1>2 DEF Fresh
  <2> HIDE DEF cl2, g, q, jobs, q2, jobs2, tk2, K
  <2>10. Typed(cl2, tk2) /\ Shape(cl2, tk2)
    BY <1>0, <1>1, <1>2, <2>1, <2>8, ShapeStep DEF tk2, g
  <2>11. \A a \in 1..Len(Writers) : "save" = Writers[a] /\ a > n => w = Idle
    BY <1>1
  <2>12. /\ Only(cl2, cl, g, q2, jobs2) /\ Left(q2, cl[g].queue)
         /\ Grows(jobs2, cl[g].jobs, cl[g].open)
    BY <2>8
  <2>13. w.out = "crash" \/ w.at = "dead" => pulled
    BY <1>2
  <2>14. Lively(cl2, tk2) /\ Fresh(cl2, tk2) /\ Ordered(cl2, tk2, n) /\ Past(cl2) /\ Steady(cl2)
    BY <1>1, <2>1, <2>9, <2>11, <2>12, <2>13, RestStep DEF tk2
  <2> QED BY <2>10, <2>14 DEF Sound, cl2, tk2, w
<1> QED BY <1>3, <1>4

\* Coroutine t asks for the lock of the current client, and its job goes to the worker when it is
\* alone; a writer does so in its turn.
LEMMA Enters ==
  ASSUME NEW cl, NEW tk, NEW n \in Nat, TypeOK, Sound(cl, tk, n), NEW t \in Tasks,
         tk[t].aw = "none", ~Refuses(cl), NEW op \in Commands, op \in Ats(t),
         NEW n2 \in {n, n + 1}, \A a \in 1..Len(Writers) : t = Writers[a] => n2 = n + 1 /\ a = n2,
         NEW cl2,
         LET q == cl[host.cur].queue
             jobs == cl[host.cur].jobs
         IN  Only(cl2, cl, host.cur, Append(q, t),
                  IF q = <<>> THEN Append(jobs, Job(t, op)) ELSE jobs)
  PROVE  LET w == Asked(op, IF cl[host.cur].queue = <<>> THEN "exec" ELSE "lock", host.cur)
         IN  Sound(cl2, [tk EXCEPT ![t] = w], n2)
<1> DEFINE g == host.cur
           q == cl[g].queue
           jobs == cl[g].jobs
           q2 == Append(q, t)
           jobs2 == IF q = <<>> THEN Append(jobs, Job(t, op)) ELSE jobs
           w == Asked(op, IF q = <<>> THEN "exec" ELSE "lock", g)
           tk2 == [tk EXCEPT ![t] = w]
<1>0. /\ Typed(cl, tk) /\ Shape(cl, tk) /\ Lively(cl, tk) /\ Fresh(cl, tk) /\ Ordered(cl, tk, n)
      /\ Past(cl) /\ Steady(cl) /\ tk \in [Tasks -> Coroutines]
      /\ cl \in [Gen -> Client] /\ use \in Uses /\ g \in Gen /\ g \in Nat
      /\ device.ram \in Nat
  <2>1. Sound(cl, tk, n)
    OBVIOUS
  <2>2. use \in Uses /\ host.cur \in Gen /\ host.cur \in Nat /\ device.ram \in 0..use.writes
    BY ONLY TypeOK, StateIs
  <2>3. device.ram \in Nat
    BY ONLY <2>2
  <2> QED BY ONLY <2>1, <2>2, <2>3 DEF Sound, Typed
<1>1. q \in Seq(Tasks) /\ jobs \in Seq(Jobs) /\ cl[g].open /\ cl[g].up
  BY <1>0, ClientIs DEF Fresh, Refuses
<1>2. Queues(q, g, tk) /\ Works(jobs, g, tk) /\ ~HasJob(jobs, t) /\ ~Queued(q, t)
  BY <1>0, Absent DEF Shape, Locks
<1>3. /\ w \in Coroutines /\ w.at = op /\ w.gen = g /\ w.out = "none"
      /\ w.aw = IF q = <<>> THEN "exec" ELSE "lock"
  BY <1>0, CoroutineTyped DEF Asked
<1>4. op # "open" /\ op \notin {"idle", "dead", "sleep", "close"} /\ op \in Ops
  BY DEF Commands, Ops
<1> HIDE DEF w
<1>5. Fit(t, w) /\ Locks(w)
  BY <1>3, <1>4 DEF Fit, Locks
<1>6. Served(Job(t, op), g, w) \/ q # <<>>
  BY <1>3, <1>4, JobTyped DEF Served
<1>7. Only(cl2, cl, g, q2, jobs2)
  OBVIOUS
<1>8. Queues(q2, g, tk2) /\ \A u : Queued(q, u) \/ u = t => Queued(q2, u)
  <2> HIDE DEF q, g
  <2> QED BY <1>0, <1>1, <1>2, <1>3, <1>5, QueuesApp
<1>9. Works(jobs2, g, tk2)
  <2> HIDE DEF jobs, g, q
  <2>1. Works(jobs, g, tk2)
    BY <1>0, <1>1, <1>2, WorksElse
  <2>2. q = <<>> => Works(Append(jobs, Job(t, op)), g, tk2)
    BY <1>0, <1>1, <1>2, <1>4, <1>6, WorksApp
  <2> QED BY <2>1, <2>2
<1>10. Grows(jobs2, jobs, cl[g].open)
  <2>1. Job(t, op) \in Jobs /\ Untried(Job(t, op)) /\ Job(t, op).op = op
    BY <1>4, JobTyped
  <2> HIDE DEF jobs, g, q
  <2>2. Grows(Append(jobs, Job(t, op)), jobs, cl[g].open)
    BY <1>1, <1>4, <2>1, GrowsApp
  <2> QED BY <2>2, GrowsSame
<1> HIDE DEF q2, jobs2
<1>11. /\ cl2[g].queue = q2 /\ cl2[g].jobs = jobs2
       /\ cl2[g].open = cl[g].open /\ cl2[g].up = cl[g].up /\ cl2[g].broken = cl[g].broken
       /\ \A h \in Gen : h # g => cl2[h] = cl[h]
  BY <1>7 DEF Only
<1>12. \A u \in Tasks : u # t => tk2[u] = tk[u]
  BY <1>0
<1>13. tk2[t] = w
  BY <1>0
<1>14. Typed(cl2, tk2) /\ Shape(cl2, tk2)
  <2> HIDE DEF g, q, jobs, tk2
  <2>1. \A u : u # t /\ Queued(cl[g].queue, u) => Queued(q2, u)
    BY <1>8 DEF q
  <2>2. Locks(w) => w.gen = g /\ Queued(q2, t)
    BY <1>3, <1>8
  <2> QED BY <1>0, <1>3, <1>5, <1>7, <1>8, <1>9, <2>1, <2>2, ShapeStep DEF tk2
<1> HIDE DEF tk2, g
<1>15. Serves(cl[g]) => Serves(cl2[g])
  BY <1>1, <1>10, <1>11, ServesStep DEF jobs, Grows
<1>16. Lively(cl2, tk2)
  <2>1. (\A h \in Gen : Serves(cl[h])) => \A h \in Gen : Serves(cl2[h])
    BY <1>11, <1>15
  <2>2. \A u \in Tasks : tk2[u].out = "crash" \/ tk2[u].at = "dead" => pulled
    BY <1>0, <1>3, <1>4, <1>12, <1>13 DEF Lively
  <2> QED BY <1>0, <2>1, <2>2 DEF Lively
<1>17. Fresh(cl2, tk2)
  <2>1. \A u \in Tasks : tk2[u].gen <= g
    BY <1>0, <1>3, <1>12, <1>13 DEF Fresh, g
  <2> QED BY <1>0, <1>11, <2>1 DEF Fresh, g
<1>18. ASSUME NEW i \in 1..Len(q), NEW a \in 1..Len(Writers), q[i] = Writers[a]
       PROVE  a <= n
  <2>1. Locks(tk[Writers[a]])
    BY <1>2, <1>18 DEF Queues
  <2>2. tk[Writers[a]] # Idle
    BY <2>1 DEF Locks, Idle
  <2> QED BY <1>0, <2>2 DEF Ordered
<1>19. /\ Ascending(q2) /\ Sent(pipe[g].req, q2, n2)
       /\ Floor(pipe[g].req, q) => Floor(pipe[g].req, q2)
  <2>1. Ascending(q) /\ Sent(pipe[g].req, q, n) /\ device.ram <= n
    BY <1>0 DEF Ordered, q
  <2> QED BY <1>0, <1>1, <1>18, <2>1, OrderApp DEF q2
<1>20. Ordered(cl2, tk2, n2)
  <2>1. \A a \in 1..Len(Writers) : a > n2 => tk2[Writers[a]] = Idle
    <3> SUFFICES ASSUME NEW a \in 1..Len(Writers), a > n2 PROVE tk2[Writers[a]] = Idle
      OBVIOUS
    <3>1. a > n /\ Writers[a] # t /\ Writers[a] \in Tasks
      BY WritersAre
    <3> QED BY <3>1, <1>0, <1>12 DEF Ordered
  <2>2. \A h \in Gen : Ascending(cl[h].queue) /\ Sent(pipe[h].req, cl[h].queue, n)
    BY <1>0 DEF Ordered
  <2>3. \A h \in Gen : Sent(pipe[h].req, cl[h].queue, n) => Sent(pipe[h].req, cl[h].queue, n2)
    <3> SUFFICES ASSUME NEW h \in Gen, Sent(pipe[h].req, cl[h].queue, n)
                 PROVE  Sent(pipe[h].req, cl[h].queue, n2)
      OBVIOUS
    <3>1. 1..n \subseteq 1..n2
      OBVIOUS
    <3> QED BY <3>1 DEF Sent
  <2>4. \A h \in Gen : Ascending(cl2[h].queue) /\ Sent(pipe[h].req, cl2[h].queue, n2)
    BY <1>11, <1>19, <2>2, <2>3
  <2>5. device.ram <= n2 /\ device.flash <= n2
    <3>1. device.flash \in Nat
      BY StateIs, UseIs
    <3> QED BY <3>1, <1>0 DEF Ordered
  <2> QED BY <2>1, <2>4, <2>5 DEF Ordered
<1>21. Past(cl2)
  <2>1. \A h \in Gen : cl2[h].open = cl[h].open
    BY <1>11
  <2> QED BY <1>0, <1>11, <1>19, <2>1 DEF Past, g, q
<1>22. Steady(cl2)
  <2>1. Keeps(cl[g]) => Keeps(cl2[g])
    BY <1>10, <1>11, <1>15 DEF Keeps, Grows, Offers, jobs
  <2>2. Paid(cl[g], pipe[g]) => Paid(cl2[g], pipe[g])
    BY <1>10, <1>11, PaidStep DEF jobs
  <2> QED BY <1>0, <2>1, <2>2 DEF Steady, g
<1>23. Sound(cl2, tk2, n2)
  BY <1>14, <1>16, <1>17, <1>20, <1>21, <1>22 DEF Sound
<1> QED BY <1>23 DEF tk2, w, q, g

\* The next in the queue hands its request to the worker.
LEMMA Grants ==
  ASSUME NEW cl, NEW tk, NEW n \in Nat, TypeOK, Sound(cl, tk, n), NEW t \in Tasks,
         tk[t].aw = "lock", LET q == cl[tk[t].gen].queue IN q # <<>> /\ q[1] = t
  PROVE  Sound(Submit(cl, tk[t].gen, Job(t, tk[t].at)),
               [tk EXCEPT ![t] = [tk[t] EXCEPT !.aw = "exec"]], n)
<1> DEFINE g == tk[t].gen
           op == tk[t].at
           q == cl[g].queue
           jobs == cl[g].jobs
           jobs2 == Append(jobs, Job(t, op))
           cl2 == Submit(cl, g, Job(t, op))
           w == [tk[t] EXCEPT !.aw = "exec"]
           tk2 == [tk EXCEPT ![t] = w]
<1>0. /\ Typed(cl, tk) /\ Shape(cl, tk) /\ Lively(cl, tk) /\ Fresh(cl, tk) /\ Ordered(cl, tk, n)
      /\ tk \in [Tasks -> Coroutines] /\ cl \in [Gen -> Client] /\ use \in Uses
      /\ tk[t] \in Coroutines /\ Fit(t, tk[t])
  BY StateIs DEF Sound, Typed, Shape
<1>1. g \in Gen /\ q \in Seq(Tasks) /\ jobs \in Seq(Jobs) /\ q # <<>> /\ q[1] = t
  BY <1>0, CoroutineIs, ClientIs
<1>2. Queues(q, g, tk) /\ Works(jobs, g, tk) /\ ~HasJob(jobs, t)
  BY <1>0, <1>1, Absent DEF Shape
<1>3. op \in Commands
  BY <1>0, CoroutineIs DEF Fit
<1>4. op \in Ops /\ op # "open" /\ op # "close" /\ op \notin {"idle", "sleep", "dead"}
  BY <1>3 DEF Ops, Commands
<1>5. w \in Coroutines
  BY <1>0, CoroutineTyped
<1>6. w.at = op /\ w.gen = g /\ w.out = tk[t].out /\ w.aw = "exec"
  BY <1>0 DEF Coroutines
<1> HIDE DEF w
<1>7. Fit(t, w) /\ Locks(w)
  BY <1>0, <1>4, <1>6 DEF Fit, Locks
<1>8. Served(Job(t, op), g, w)
  BY <1>4, <1>6, JobTyped DEF Served
<1>9. Job(t, op) \in Jobs /\ Untried(Job(t, op)) /\ Job(t, op).op = op
  BY <1>4, JobTyped
<1>10. Only(cl2, cl, g, q, jobs2)
  BY <1>0, <1>1, <1>9, SubmitIs
<1>11. Queues(q, g, tk2)
  <2> HIDE DEF g, q
  <2> QED BY <1>0, <1>1, <1>2, <1>6, <1>7, QueuesHead
<1>12. Works(jobs2, g, tk2)
  <2> HIDE DEF jobs, g, op
  <2> QED BY <1>0, <1>1, <1>2, <1>4, <1>8, WorksApp
<1>13. Serves(cl[g]) => Grows(jobs2, jobs, cl[g].open)
  <2>1. Serves(cl[g]) => cl[g].open
    BY <1>1 DEF Serves
  <2> HIDE DEF jobs, g, q, op
  <2> QED BY <1>1, <1>4, <1>9, <2>1, GrowsApp
<1> HIDE DEF cl2, jobs2
<1>14. Left(q, q) /\ Queued(q, t)
  <2> HIDE DEF q
  <2> QED BY <1>1, SameLeft, Elements DEF Queued
<1>15. /\ g <= host.cur /\ (w.out = "crash" \/ w.at = "dead" => pulled)
       /\ \A a \in 1..Len(Writers) : t = Writers[a] /\ a > n => w = Idle
  BY <1>0, <1>4, <1>6 DEF Fresh, Lively, Ordered, Idle
<1> HIDE DEF g, q, jobs, tk2
<1>16. Typed(cl2, tk2) /\ Shape(cl2, tk2)
  BY <1>0, <1>1, <1>5, <1>6, <1>7, <1>10, <1>11, <1>12, <1>14, ShapeStep DEF tk2, g, q
<1>17. Lively(cl2, tk2) /\ Fresh(cl2, tk2) /\ Ordered(cl2, tk2, n) /\ Past(cl2) /\ Steady(cl2)
  BY <1>1, <1>6, <1>10, <1>13, <1>14, <1>15, RestStep DEF tk2, q, jobs
<1> QED BY <1>16, <1>17 DEF Sound, cl2, tk2, w, g, op

\* The poll opens the current client.
LEMMA Opens ==
  ASSUME NEW cl, NEW tk, NEW n \in Nat, TypeOK, Sound(cl, tk, n), tk["poll"] = Idle
  PROVE  Sound(Submit(cl, host.cur, Job("poll", "open")),
               [tk EXCEPT !["poll"] = Asked("open", "exec", host.cur)], n)
<1> DEFINE g == host.cur
           q == cl[g].queue
           jobs == cl[g].jobs
           jobs2 == Append(jobs, Job("poll", "open"))
           cl2 == Submit(cl, g, Job("poll", "open"))
           w == Asked("open", "exec", g)
           tk2 == [tk EXCEPT !["poll"] = w]
<1>0. /\ Typed(cl, tk) /\ Shape(cl, tk) /\ tk \in [Tasks -> Coroutines]
      /\ cl \in [Gen -> Client] /\ use \in Uses /\ g \in Gen /\ g \in Nat
  BY StateIs DEF Sound, Typed
<1>1. "poll" \in Tasks /\ (\A a \in 1..Len(Writers) : "poll" # Writers[a]) /\ tk["poll"].aw = "none"
  BY TasksAre, WritersAre DEF Idle
<1>2. q \in Seq(Tasks) /\ jobs \in Seq(Jobs)
  BY <1>0, ClientIs
<1>3. Queues(q, g, tk) /\ Works(jobs, g, tk) /\ ~HasJob(jobs, "poll") /\ ~Queued(q, "poll")
  BY <1>0, <1>1, Absent DEF Shape, Locks
<1>4. w \in Coroutines /\ w.at = "open" /\ w.gen = g /\ w.out = "none" /\ w.aw = "exec"
  BY <1>0, CoroutineTyped DEF Asked
<1>5. "open" \in Ops
  BY DEF Ops
<1> HIDE DEF w
<1>6. Fit("poll", w) /\ ~Locks(w)
  BY <1>4, AtsAre DEF Fit, Locks
<1>7. /\ Job("poll", "open") \in Jobs /\ Untried(Job("poll", "open"))
      /\ Job("poll", "open").op = "open"
  BY <1>1, <1>5, JobTyped
<1>8. Served(Job("poll", "open"), g, w)
  BY <1>4, <1>7 DEF Served
<1>9. Only(cl2, cl, g, q, jobs2)
  BY <1>0, <1>7, SubmitIs
<1>10. Queues(q, g, tk2)
  <2> HIDE DEF g, q
  <2> QED BY <1>0, <1>1, <1>2, <1>3, QueuesElse
<1>11. Works(jobs2, g, tk2)
  <2> HIDE DEF jobs, g
  <2> QED BY <1>0, <1>1, <1>2, <1>3, <1>5, <1>8, WorksApp
<1>12. Grows(jobs2, jobs, cl[g].open)
  <2> HIDE DEF jobs, g
  <2> QED BY <1>2, <1>7, GrowsApp
<1>13. Left(q, q)
  <2> HIDE DEF q
  <2> QED BY <1>2, SameLeft
<1> HIDE DEF cl2, jobs2
<1>14. /\ g <= host.cur /\ w.gen <= host.cur /\ (w.out = "crash" \/ w.at = "dead" => pulled)
       /\ \A a \in 1..Len(Writers) : "poll" = Writers[a] /\ a > n => w = Idle
  BY <1>0, <1>1, <1>4
<1>15. Only(cl2, cl, g, q, jobs2) /\ Left(q, cl[g].queue) /\ Grows(jobs2, cl[g].jobs, cl[g].open)
  BY <1>9, <1>12, <1>13
<1>16. tk["poll"].gen = g \/ tk["poll"].aw \in {"none", "opened", "closed"}
  BY <1>1
<1>17. \A u : u # "poll" /\ Queued(cl[g].queue, u) => Queued(q, u)
  OBVIOUS
<1> HIDE DEF g, q, jobs, tk2
<1>18. Typed(cl2, tk2) /\ Shape(cl2, tk2)
  BY <1>0, <1>1, <1>4, <1>6, <1>10, <1>11, <1>15, <1>16, <1>17, ShapeStep DEF tk2
<1>19. Lively(cl2, tk2) /\ Fresh(cl2, tk2) /\ Ordered(cl2, tk2, n) /\ Past(cl2) /\ Steady(cl2)
  BY <1>0, <1>1, <1>14, <1>15, RestStep DEF tk2
<1> QED BY <1>18, <1>19 DEF Sound, cl2, tk2, w, g

\* The worker of client g is done with its first job, and coroutine t, which waits for it, with w.
LEMMA Finishes ==
  ASSUME NEW cl, NEW tk, NEW n \in Nat, TypeOK, Sound(cl, tk, n), NEW g \in Gen,
         cl[g].jobs # <<>>, NEW t, t = cl[g].jobs[1].task, t # "none",
         NEW w \in Coroutines, w.at = tk[t].at, w.gen = tk[t].gen, w.out = "crash" => pulled,
         w.aw = CASE cl[g].jobs[1].op = "open" -> "opened"
                  [] cl[g].jobs[1].op = "close" -> "closed"
                  [] OTHER -> "back",
         NEW cl2, Only(cl2, cl, g, cl[g].queue, Tail(cl[g].jobs))
  PROVE  Sound(cl2, [tk EXCEPT ![t] = w], n)
<1> DEFINE q == cl[g].queue
           jobs == cl[g].jobs
           tk2 == [tk EXCEPT ![t] = w]
           op == jobs[1].op
           jobs2 == Tail(jobs)
<1>0. /\ Typed(cl, tk) /\ Shape(cl, tk) /\ Lively(cl, tk) /\ Fresh(cl, tk) /\ Ordered(cl, tk, n)
      /\ tk \in [Tasks -> Coroutines] /\ cl \in [Gen -> Client] /\ use \in Uses
  BY StateIs DEF Sound, Typed
<1>1. /\ q \in Seq(Tasks) /\ jobs \in Seq(Jobs) /\ jobs[1] \in Jobs
      /\ 1 \in 1..Len(jobs) /\ jobs # <<>>
  BY <1>0, ClientIs, Elements
<1>2. t \in Tasks
  BY <1>1, JobIs
<1>3. Queues(q, g, tk) /\ Works(jobs, g, tk) /\ Fit(t, tk[t])
  BY <1>0, <1>2 DEF Shape
<1>4. Served(jobs[1], g, tk[t])
  BY <1>1, <1>3 DEF Works, JobOK
<1>5. tk[t].gen = g /\ w.gen = g
  BY <1>4 DEF Served
<1>6. w.aw = CASE op = "open" -> "opened" [] op = "close" -> "closed" [] OTHER -> "back"
  OBVIOUS
<1>7. op = "close" => tk[t].aw = "close"
  BY <1>4 DEF Served
<1>8. op # "close" => tk[t].aw = "exec" /\ tk[t].at = op
  BY <1>4 DEF Served
<1>9. Fit(t, w) /\ (w.aw = "back" => op # "open" /\ op # "close")
  BY <1>3, <1>6, <1>7, <1>8 DEF Fit
<1> HIDE DEF q, jobs, op
<1>10. ASSUME w.aw = "back" PROVE Queues(q, g, tk2) /\ Queued(q, t)
  <2>1. Locks(tk[t]) /\ tk[t].aw # "lock" /\ Locks(w)
    BY <1>8, <1>9, <1>10 DEF Locks
  <2>2. q # <<>> /\ q[1] = t
    BY <1>0, <1>2, <1>5, <2>1, Holder DEF q
  <2>3. Queues(q, g, tk2)
    BY <1>0, <1>1, <1>2, <1>3, <1>5, <2>1, <2>2, QueuesHead
  <2>4. Queued(q, t)
    BY <1>1, <2>2, Elements DEF Queued
  <2> QED BY <2>3, <2>4
<1>11. ASSUME w.aw # "back" PROVE Queues(q, g, tk2) /\ ~Locks(w)
  <2>1. ~Locks(w) /\ ~Locks(tk[t])
    BY <1>6, <1>7, <1>8, <1>11 DEF Locks
  <2>2. ~Queued(q, t)
    BY <1>0, <1>2, <2>1, Absent DEF q
  <2>3. Queues(q, g, tk2)
    BY <1>0, <1>1, <1>2, <1>3, <2>2, QueuesElse
  <2> QED BY <2>1, <2>3
<1>12. Queues(q, g, tk2) /\ (Locks(w) => w.gen = g /\ Queued(q, t))
  BY <1>5, <1>10, <1>11
<1>13. Works(jobs2, g, tk) /\ ~HasJob(jobs2, t) /\ jobs2 \in Seq(Jobs)
  <2>1. t = jobs[1].task
    BY DEF jobs
  <2> QED BY <2>1, <1>1, <1>3, WorksTail, Rest
<1>14. Grows(jobs2, jobs, cl[g].open)
  BY <1>1, <1>3, GrowsTail
<1> HIDE DEF jobs2
<1>15. Works(jobs2, g, tk2)
  BY <1>0, <1>2, <1>13, WorksElse
<1>16. g <= host.cur
  BY <1>0, NotFuture DEF jobs
<1>17. \A a \in 1..Len(Writers) : t = Writers[a] /\ a > n => w = Idle
  BY <1>0, <1>7, <1>8 DEF Ordered, Idle
<1>18. w.out = "crash" \/ w.at = "dead" => pulled
  BY <1>0, <1>2 DEF Lively
<1>19. Only(cl2, cl, g, q, jobs2) /\ Left(q, cl[g].queue) /\ Grows(jobs2, cl[g].jobs, cl[g].open)
  <2>1. Left(q, q)
    BY <1>1, SameLeft
  <2> QED BY <1>14, <2>1 DEF q, jobs, jobs2
<1>20. \A u : u # t /\ Queued(cl[g].queue, u) => Queued(q, u)
  BY DEF q
<1> HIDE DEF tk2
<1>21. Typed(cl2, tk2) /\ Shape(cl2, tk2)
  BY <1>0, <1>2, <1>5, <1>9, <1>12, <1>15, <1>19, <1>20, ShapeStep DEF tk2
<1>22. Lively(cl2, tk2) /\ Fresh(cl2, tk2) /\ Ordered(cl2, tk2, n) /\ Past(cl2) /\ Steady(cl2)
  BY <1>0, <1>2, <1>5, <1>16, <1>17, <1>18, <1>19, RestStep DEF tk2
<1> QED BY <1>21, <1>22 DEF Sound, tk2

\* No coroutine waits for the jobs that change.
LEMMA Unwaited ==
  ASSUME NEW cl, NEW tk, NEW n \in Nat, TypeOK, Sound(cl, tk, n), NEW g \in Gen,
         cl[g].jobs # <<>>, NEW cl2, NEW jobs, Only(cl2, cl, g, cl[g].queue, jobs),
         Works(jobs, g, tk), Offers(jobs, cl[g].jobs, cl[g].open)
  PROVE  /\ Typed(cl2, tk) /\ Shape(cl2, tk) /\ Lively(cl2, tk) /\ Fresh(cl2, tk)
         /\ Ordered(cl2, tk, n) /\ Past(cl2)
         /\ Keeps(cl[host.cur]) => Keeps(cl2[host.cur])
         /\ Grows(jobs, cl[g].jobs, cl[g].open) => Sound(cl2, tk, n)
<1> DEFINE q == cl[g].queue
           w == tk["poll"]
<1>0. /\ Typed(cl, tk) /\ Shape(cl, tk) /\ Lively(cl, tk) /\ Fresh(cl, tk)
      /\ tk \in [Tasks -> Coroutines] /\ cl \in [Gen -> Client]
  BY DEF Sound, Typed
<1>1. Typed(cl2, tk) /\ Shape(cl2, tk)
  BY <1>0, ShapeJobs
<1>2. "poll" \in Tasks /\ \A a \in 1..Len(Writers) : "poll" # Writers[a]
  BY TasksAre, WritersAre
<1>3. g <= host.cur
  BY <1>0, NotFuture
<1>4. Left(q, cl[g].queue)
  <2>1. q \in Seq(Tasks)
    BY <1>0, ClientIs
  <2> QED BY <2>1, SameLeft
<1>5. w.gen <= host.cur /\ (w.out = "crash" \/ w.at = "dead" => pulled)
  BY <1>0, <1>2 DEF Fresh, Lively
<1>6. [tk EXCEPT !["poll"] = w] = tk
  BY <1>0, <1>2
<1> HIDE DEF w, q
<1>7. Only(cl2, cl, g, q, jobs)
  BY DEF q
<1>8. \A a \in 1..Len(Writers) : "poll" = Writers[a] /\ a > n => w = Idle
  BY <1>2
<1>9. /\ Lively(cl2, tk) /\ Fresh(cl2, tk) /\ Ordered(cl2, tk, n) /\ Past(cl2)
      /\ Keeps(cl[host.cur]) => Keeps(cl2[host.cur])
  BY <1>2, <1>3, <1>4, <1>5, <1>6, <1>7, <1>8, RestMost
<1>10. Grows(jobs, cl[g].jobs, cl[g].open) => Steady(cl2)
  BY <1>2, <1>3, <1>4, <1>5, <1>7, <1>8, RestStep
<1> QED BY <1>1, <1>9, <1>10 DEF Sound

(***************************************************************************)
(* Steps of the coroutines.                                                *)
(***************************************************************************)
Hosts == [connected : BOOLEAN, paused : BOOLEAN, cache : BOOLEAN, was : BOOLEAN, cur : Gen]

\* The changes a coroutine makes to the host.
LEMMA HostIs ==
  ASSUME NEW h \in Hosts
  PROVE  /\ h.connected \in BOOLEAN /\ h.paused \in BOOLEAN /\ h.cache \in BOOLEAN
         /\ h.was \in BOOLEAN /\ h.cur \in Gen
         /\ \A b \in BOOLEAN :
              /\ [h EXCEPT !.connected = b] \in Hosts /\ [h EXCEPT !.was = b] \in Hosts
              /\ [h EXCEPT !.paused = b] \in Hosts
              /\ [h EXCEPT !.connected = b].cur = h.cur /\ [h EXCEPT !.was = b].cur = h.cur
              /\ [h EXCEPT !.paused = b].cur = h.cur
         /\ \A a, b \in BOOLEAN :
              /\ [h EXCEPT !.connected = a, !.cache = b] \in Hosts
              /\ [h EXCEPT !.connected = a, !.cache = b].cur = h.cur
              /\ [h EXCEPT !.cache = b] \in Hosts /\ [h EXCEPT !.cache = b].cur = h.cur
         /\ LET r == [h EXCEPT !.cache = FALSE, !.connected = FALSE, !.paused = FALSE]
            IN  r \in Hosts /\ r.cur = h.cur
  BY DEF Hosts

\* What a state is made of, that a step of a coroutine leaves as it is.
LEMMA Carried ==
  ASSUME TypeOK, UNCHANGED <<use, pipe, cable, device, pulled, revived>>, host' \in Hosts,
         host'.cur = host.cur,
         left' \in [writes : 0..use.writes, losses : 0..use.losses, cuts : 0..use.cuts,
                    raw : BOOLEAN, reconf : 0..use.reconf],
         left'.losses = left.losses, left'.reconf = left.reconf,
         overtaken' \in BOOLEAN, failed' \in BOOLEAN, crossed' \in BOOLEAN,
         Sound(client', task', Issued')
  PROVE  TypeOK' /\ Sound(client, task, Issued)'
<1>1. TypeOK'
  BY DEF TypeOK, Sound, Typed, Hosts, Gen, Client, Jobs, Coroutines, Pipe, Requests, Tasks
<1>2. Typed(client, task)' /\ Shape(client, task)' /\ Lively(client, task)'
  BY DEF Sound, Typed, Shape, Lively, Gen, Tasks, Client, Jobs, Coroutines, Placed
<1>3. Fresh(client, task)'
  BY DEF Sound, Fresh, Gen, Tasks, NewClient
<1>4. Ordered(client, task, Issued)'
  BY DEF Sound, Ordered, Gen, Idle, Issued
<1>5. Past(client)'
  BY DEF Sound, Past, Gen, Floor
<1>6. Steady(client)'
  BY DEF Sound, Steady, Gen, Paid, Covered, Spent, Keeps
<1> QED BY <1>1, <1>2, <1>3, <1>4, <1>5, <1>6 DEF Sound

=============================================================================
