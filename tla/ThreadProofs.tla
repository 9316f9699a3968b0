---------------------------- MODULE ThreadProofs ----------------------------
(***************************************************************************)
(* What runs beside what, for any threads, keys, workers, jobs, clients    *)
(* and channels: the hub of Pub/Sub, whose methods run one at a time while *)
(* clients come and go, implements PubSubADT (PubSub); the locks of the    *)
(* shards and the atomicity they give to INCR, DECR and APPEND             *)
(* (StringRmw); and the mutex of the pool's receiver, which makes the pool *)
(* run one job at a time and implement SerialExecutor (ThreadPool).        *)
(***************************************************************************)
EXTENDS PubSub, StringRmw, ThreadPool, TLAPS

-----------------------------------------------------------------------------
\* Publish and subscribe (PubSub)

\* The elements of a sequence
Elements(s) == {s[i] : i \in 1..Len(s)}

\* One step of a walk through a list of arguments
LEMMA Walk ==
    ASSUME NEW S, NEW s \in Seq(S), s # << >>
    PROVE  /\ Tail(s) \in Seq(S) /\ Head(s) \in S
           /\ Head(s) \in Elements(s)
           /\ Elements(Tail(s)) \subseteq Elements(s)
           /\ Elements(s) \subseteq {Head(s)} \cup Elements(Tail(s))
<1>1. Len(s) \in Nat /\ Len(s) # 0 /\ Tail(s) \in Seq(S) /\ Len(Tail(s)) = Len(s) - 1
  OBVIOUS
<1>2. \A i \in 1..Len(Tail(s)) : Tail(s)[i] = s[i + 1]
  OBVIOUS
<1>3. Head(s) = s[1] /\ Head(s) \in S
  OBVIOUS
<1>4. Elements(Tail(s)) \subseteq Elements(s)
  BY <1>1, <1>2 DEF Elements
<1>5. ASSUME NEW i \in 1..Len(s) PROVE s[i] \in {Head(s)} \cup Elements(Tail(s))
  <2>1. CASE i = 1
    BY Zenon, <1>3, <2>1
  <2>2. CASE i # 1
    <3>1. i - 1 \in 1..Len(Tail(s)) /\ (i - 1) + 1 = i
      BY <1>1, <2>2
    <3>2. Tail(s)[i - 1] = s[i]
      BY Zenon, <1>2, <3>1
    <3> QED
      BY Zenon, <3>1, <3>2 DEF Elements
  <2> QED
    BY Zenon, <2>1, <2>2
<1>6. Elements(s) \subseteq {Head(s)} \cup Elements(Tail(s))
  BY Zenon, <1>5 DEF Elements
<1>7. Head(s) \in Elements(s)
  BY <1>1, <1>3 DEF Elements
<1> QED
  BY Zenon, <1>1, <1>3, <1>4, <1>6, <1>7

\* A message goes from what waits to what is written: the stream stays.
LEMMA Shifted ==
    ASSUME NEW S, NEW s \in Seq(S), NEW t \in Seq(S), t # << >>
    PROVE  Append(s, Head(t)) \o Tail(t) = s \o t
  OBVIOUS

\* A message that is sent is the last one of the stream.
LEMMA Appended ==
    ASSUME NEW S, NEW s \in Seq(S), NEW t \in Seq(S), NEW x \in S
    PROVE  s \o Append(t, x) = Append(s \o t, x)
  OBVIOUS

\* Writing what is there changes nothing.
LEMMA SameAt ==
    ASSUME NEW S, NEW f, f = [d \in S |-> f[d]], NEW c, NEW v, f[c] = v
    PROVE  [f EXCEPT ![c] = v] = f
  BY Zenon

\* The steps of each command.
StepsOf(o) ==
    CASE o = "subscribe" -> {"queued", "entry", "count", "done"}
      [] o = "unsubscribe" -> {"queued", "retain", "remove", "count", "done"}
      [] o = "unsubscribeAll" -> {"queued", "retain", "count", "done"}
      [] OTHER -> {"queued", "get", "send", "clean", "remove", "count", "done"}

\* Where a command is, what is left of its arguments, and what it has
\* counted.
Progress(j) ==
    /\ j.at \in StepsOf(j.request.op)
    /\ Elements(j.left) \subseteq Elements(j.request.args)
    /\ j.at = "queued" \/ (j.request.op = "publish" /\ j.at \notin {"count", "done"}) =>
         j.left = j.request.args
    /\ j.at \notin {"count", "done"} => j.left # << >>
    /\ j.at \in {"count", "done"} /\ j.request.op # "publish" => j.left = << >>
    /\ j.at \in {"queued", "get"} => j.dead = {}
    /\ j.at # "send" => j.togo = Nobody
    /\ j.at \in {"queued", "get"} \/ j.request.op # "publish" => j.reached = {}
    /\ j.request.op = "publish" => j.count = Cardinality(j.reached)

\* What the command j of c has done to the lists, the tasks being as in t:
\* for the channels it has gone through, c is in the list or is not, and a
\* message has reached all that are in the list and there.
Effect(lists, t, c, j) ==
    /\ j.at \notin {"queued", "done"} /\ j.request.op = "subscribe" =>
         \A ch \in Elements(j.request.args) : ch \in Elements(j.left) \/ lists[ch][c] > 0
    /\ j.at \notin {"queued", "done"} /\ j.request.op \in {"unsubscribe", "unsubscribeAll"} =>
         \A ch \in Elements(j.request.args) : ch \in Elements(j.left) \/ lists[ch][c] = 0
    /\ j.at = "remove" => lists[Head(j.left)] = Nobody
    /\ j.at \in {"send", "clean", "remove", "count"} /\ j.request.op = "publish" =>
         \A d \in Clients : lists[j.request.args[1]][d] > 0 =>
                              j.togo[d] > 0 \/ d \in j.reached \/ t[d] = "closed"
    /\ j.at = "send" =>
         \A d \in Clients : j.togo[d] > 0 => /\ lists[j.request.args[1]][d] > 0
                                             /\ d \notin j.reached
    /\ \A d \in j.dead : t[d] = "closed"

\* One command runs, the others wait for their turn or are done.
TurnInv ==
    /\ \A c, d \in Clients : Running(c) /\ Running(d) => c = d
    /\ \A i \in 1..Len(pending) : At(pending[i], "queued")
    /\ \A i, k \in 1..Len(pending) : pending[i] = pending[k] => i = k
    /\ \A c \in Clients : /\ task[c] = "ready" => call[c] = Unset
                          /\ At(c, "done") => task[c] = "waiting"

CallInv ==
    \A c \in Clients : call[c] # Unset => /\ Progress(call[c])
                                          /\ Effect(subscribers, task, c, call[c])

\* Those who were gone when a message was published are out of the list, or
\* the publication will come to them.
Found(p, c) ==
    /\ At(c, "send") \/ At(c, "clean")
    /\ Head(call[c].left) = p[2]
    /\ call[c].togo[p[1]] > 0 \/ p[1] \in call[c].dead

SweptInv ==
    \A p \in swept : /\ task[p[1]] = "closed"
                     /\ subscribers[p[2]][p[1]] > 0 => \E c \in Clients : Found(p, c)

HubInv == HubTypeOK /\ TurnInv /\ CallInv /\ SweptInv

-----------------------------------------------------------------------------

\* The empty list
LEMMA NobodyType == Nobody \in [Clients -> 0..1] /\ \A d \in Clients : Nobody[d] = 0
  BY DEF Nobody

\* At the start nobody is subscribed and no command is under way.
LEMMA InitHub == HubInit => HubInv
<1> SUFFICES ASSUME HubInit PROVE HubInv
  BY Zenon
<1>1. HubTypeOK
  BY NobodyType, PubSubAssumption DEF HubInit, HubTypeOK
<1>2. TurnInv
  BY DEF HubInit, TurnInv, Running, At
<1>3. CallInv
  BY Zenon DEF HubInit, CallInv
<1>4. SweptInv
  BY Zenon DEF HubInit, SweptInv
<1> QED
  BY Zenon, <1>1, <1>2, <1>3, <1>4 DEF HubInv

\* A task that has ended in t has ended in u.
StaysClosed(t, u) == \A d : t[d] = "closed" => u[d] = "closed"

\* The command waits for its turn or has been carried out.
Idles(j) == j.at \in {"queued", "done"}

\* A command that does not run has no part in the lists.
LEMMA Idle ==
    ASSUME NEW m, NEW n, NEW t, NEW u, NEW c, NEW j, Idles(j),
           Effect(m, t, c, j), StaysClosed(t, u)
    PROVE  Effect(n, u, c, j)
  BY Zenon DEF Effect, StaysClosed, Idles

\* A step of the command that runs.
LEMMA Runs ==
    ASSUME HubInv, NEW c \in Clients, Running(c), NEW k \in Calls(c),
           k.at \notin {"queued", "done"},
           call' = [call EXCEPT ![c] = k],
           pending' = pending, task' = task, budget' = budget, written' = written,
           subscribers' \in [Channels -> [Clients -> 0..1]],
           DOMAIN rx' = Clients, \A d \in Clients : rx'[d] \in Seq(Messages),
           swept' \subseteq Clients \X Channels,
           Progress(k), Effect(subscribers', task, c, k)
    PROVE  HubTypeOK' /\ TurnInv' /\ CallInv'
<1>0. k # Unset
  BY Zenon, UnsetAssumption
<1>1. /\ DOMAIN call = Clients /\ DOMAIN call' = Clients /\ call'[c] = k
      /\ \A d \in Clients : d # c => call'[d] = call[d]
  BY Zenon DEF HubInv, HubTypeOK
<1>2. HubTypeOK'
  BY Zenon, <1>1 DEF HubInv, HubTypeOK
<1>3. \A d \in Clients : d # c => ~Running(d)
  BY Zenon DEF HubInv, TurnInv
<1>4. TurnInv'
  <2>1. \A d \in Clients : Running(d)' => d = c
    BY Zenon, <1>0, <1>1, <1>3 DEF Running
  <2>2. \A d \in Clients : d # c => At(d, "queued")' = At(d, "queued") /\ At(d, "done")' = At(d, "done")
    BY Zenon, <1>1 DEF At
  <2>3. ~At(c, "queued") /\ ~At(c, "done")' /\ call[c] # Unset
    BY Zenon, <1>0, <1>1 DEF At, Running
  <2>4. \A i \in 1..Len(pending) : pending[i] \in Clients /\ At(pending[i], "queued")
    BY DEF HubInv, HubTypeOK, TurnInv
  <2>5. \A i \in 1..Len(pending) : At(pending[i], "queued")'
    BY Zenon, <2>2, <2>3, <2>4
  <2>6. \A i, l \in 1..Len(pending) : pending[i] = pending[l] => i = l
    BY Zenon DEF HubInv, TurnInv
  <2>7. ASSUME NEW d \in Clients
        PROVE  (task[d] = "ready" => call'[d] = Unset) /\ (At(d, "done")' => task[d] = "waiting")
    BY Zenon, <1>1, <2>2, <2>3 DEF HubInv, TurnInv
  <2> QED
    BY Zenon, <2>1, <2>5, <2>6, <2>7 DEF TurnInv
<1>5. CallInv'
  <2>1. ASSUME NEW d \in Clients, d # c, call[d] # Unset
        PROVE  Progress(call[d]) /\ Effect(subscribers', task, d, call[d])
    <3>1. Idles(call[d])
      BY Zenon, <1>3, <2>1 DEF Running, Idles
    <3>2. Progress(call[d]) /\ Effect(subscribers, task, d, call[d])
      BY Zenon, <2>1 DEF HubInv, CallInv
    <3>3. StaysClosed(task, task)
      BY Zenon DEF StaysClosed
    <3>4. Effect(subscribers', task, d, call[d])
      BY Zenon, <3>1, <3>2, <3>3, Idle
    <3> QED
      BY Zenon, <3>2, <3>4
  <2> QED
    BY Zenon, <1>1, <2>1 DEF CallInv
<1> QED
  BY Zenon, <1>2, <1>4, <1>5

\* What the parts of a command are
LEMMA Asked ==
    ASSUME NEW c \in Clients, NEW j \in Calls(c)
    PROVE  /\ j # Unset /\ j.request \in Requests[c] /\ j.request # Unset
           /\ j.request.op \in {"subscribe", "unsubscribe", "unsubscribeAll", "publish"}
           /\ j.request.args \in Seq(Channels) /\ j.request.args # << >>
           /\ j.request.op = "publish" => Len(j.request.args) = 1
           /\ j.left \in Seq(Channels) /\ j.at \in Steps /\ j.togo \in [Clients -> 0..1]
           /\ j.dead \subseteq Clients /\ j.count \in Nat /\ j.reached \subseteq Clients
<1>1. /\ j.request \in Requests[c] /\ j.left \in Seq(Channels) /\ j.at \in Steps
      /\ j.togo \in [Clients -> 0..1] /\ j.dead \subseteq Clients /\ j.count \in Nat
      /\ j.reached \subseteq Clients
  BY Zenon DEF Calls
<1>2. j # Unset /\ j.request # Unset
  BY Zenon, <1>1, UnsetAssumption
<1>3. /\ Requests[c] \subseteq [op : {"subscribe", "unsubscribe", "unsubscribeAll", "publish"},
                               args : Seq(Channels), msg : Nat]
      /\ \A r \in Requests[c] : /\ r.args # << >>
                                /\ r.op = "publish" => Len(r.args) = 1
  BY Zenon, PubSubAssumption
<1>4. PICK r \in Requests[c] : r = j.request
  BY Zenon, <1>1
<1>5. r \in [op : {"subscribe", "unsubscribe", "unsubscribeAll", "publish"},
            args : Seq(Channels), msg : Nat]
  BY Zenon, <1>1, <1>3, <1>4
<1>6. /\ r.op \in {"subscribe", "unsubscribe", "unsubscribeAll", "publish"}
      /\ r.args \in Seq(Channels)
  BY Zenon, <1>5
<1>7. r.args # << >> /\ (r.op = "publish" => Len(r.args) = 1)
  BY SMT, <1>3
<1>8. /\ j.request.op \in {"subscribe", "unsubscribe", "unsubscribeAll", "publish"}
      /\ j.request.args \in Seq(Channels)
  BY Zenon, <1>4, <1>6
<1>9. j.request.args # << >> /\ (j.request.op = "publish" => Len(j.request.args) = 1)
  BY Zenon, <1>4, <1>7
<1> QED
  BY Zenon, <1>1, <1>2, <1>8, <1>9

\* What the invariant says of the command that runs: it is the only one.
LEMMA Current ==
    ASSUME HubInv, NEW c \in Clients, NEW x, At(c, x), x \notin {"queued", "done"}
    PROVE  /\ call[c] \in Calls(c) /\ call[c].at = x /\ Running(c)
           /\ Progress(call[c]) /\ Effect(subscribers, task, c, call[c])
           /\ \A p \in swept : /\ task[p[1]] = "closed"
                               /\ subscribers[p[2]][p[1]] > 0 => Found(p, c)
<1>1. call[c] # Unset /\ call[c].at = x /\ Running(c)
  BY Zenon DEF At, Running
<1>2. call[c] \in Calls(c) /\ Progress(call[c]) /\ Effect(subscribers, task, c, call[c])
  BY Zenon, <1>1 DEF HubInv, HubTypeOK, CallInv
<1>3. ASSUME NEW p \in swept, NEW d \in Clients, Found(p, d) PROVE d = c
  <2>1. Running(d)
    BY Zenon, <1>3 DEF Found, At, Running
  <2> QED
    BY Zenon, <1>1, <2>1 DEF HubInv, TurnInv
<1>4. ASSUME NEW p \in swept
      PROVE  task[p[1]] = "closed" /\ (subscribers[p[2]][p[1]] > 0 => Found(p, c))
  BY Zenon, <1>3 DEF HubInv, SweptInv
<1> QED
  BY Zenon, <1>1, <1>2, <1>4

\* k is the command j gone on to a, with s left.
IsNext(k, j, a, s) ==
    /\ k.at = a /\ k.left = s /\ k.request = j.request /\ k.togo = j.togo
    /\ k.dead = j.dead /\ k.count = j.count /\ k.reached = j.reached

\* The command goes on at l, or, if nothing is left, to its answer.
GoneOn(c, j, l, s) ==
    \E k \in Calls(c), a \in Steps :
        /\ call' = [call EXCEPT ![c] = k] /\ IsNext(k, j, a, s)
        /\ s = << >> => a = "count"
        /\ s # << >> => a = l

\* Go does so.
LEMMA GoesOn ==
    ASSUME NEW c \in Clients, NEW j \in Calls(c), j = call[c], NEW l \in Steps,
           NEW s \in Seq(Channels), Go(c, l, s)
    PROVE  GoneOn(c, j, l, s)
<1>2. PICK a \in Steps : a = IF s = << >> THEN "count" ELSE l
  BY Zenon DEF Steps
<1>3. PICK k : k = [j EXCEPT !.at = a, !.left = s]
  BY Zenon
<1>4. k \in Calls(c) /\ IsNext(k, j, a, s)
  BY Zenon, <1>3 DEF IsNext, Calls
<1>5. call' = [call EXCEPT ![c] = k]
  BY Zenon, <1>2, <1>3 DEF Go
<1>6. (s = << >> => a = "count") /\ (s # << >> => a = l)
  BY Zenon, <1>2
<1> QED
  BY Zenon, <1>4, <1>5, <1>6 DEF GoneOn

\* SUBSCRIBE and UNSUBSCRIBE go from one channel to the next.
LEMMA WalksOn ==
    ASSUME NEW c \in Clients, NEW j \in Calls(c), NEW k \in Calls(c), NEW a \in Steps,
           NEW l \in Steps, Progress(j), IsNext(k, j, a, Tail(j.left)), j.left # << >>,
           j.request.op # "publish", l \in StepsOf(j.request.op), l \notin {"count", "queued", "done"},
           Tail(j.left) = << >> => a = "count", Tail(j.left) # << >> => a = l, j.at # "send", l # "send"
    PROVE  Progress(k) /\ k.at \notin {"queued", "done"} /\ k.request = j.request
<1>1. Tail(j.left) \in Seq(Channels) /\ Elements(Tail(j.left)) \subseteq Elements(j.left)
  BY Zenon, Asked, Walk
<1>2. a \in {"count", l} /\ "count" \in StepsOf(j.request.op)
  BY Zenon DEF StepsOf
<1>3. a \in StepsOf(j.request.op) /\ a \notin {"queued", "done", "send"}
  BY Zenon, <1>2
<1>4. k.left = << >> <=> a = "count"
  BY Zenon DEF IsNext
<1>5. j.togo = Nobody /\ j.reached = {} /\ Elements(j.left) \subseteq Elements(j.request.args)
  BY Zenon DEF Progress
<1>6. a \notin {"get"}
  BY Zenon, <1>3, Asked DEF StepsOf
<1> QED
  BY Zenon, <1>1, <1>3, <1>4, <1>5, <1>6 DEF Progress, IsNext

\* subscribers changes in the list of one channel only.
Lists(ch, list) ==
    /\ subscribers' \in [Channels -> [Clients -> 0..1]] /\ subscribers'[ch] = list
    /\ \A x \in Channels : x # ch => subscribers'[x] = subscribers[x]

\* An assignment to one entry of the map
LEMMA ListChanges ==
    ASSUME HubInv, NEW ch \in Channels, NEW list \in [Clients -> 0..1],
           subscribers' = [subscribers EXCEPT ![ch] = list]
    PROVE  Lists(ch, list)
<1>1. subscribers \in [Channels -> [Clients -> 0..1]]
  BY Zenon DEF HubInv, HubTypeOK
<1> QED
  BY Zenon, <1>1 DEF Lists

\* No client is twice in a list.
LEMMA ListType ==
    ASSUME HubInv, NEW ch \in Channels
    PROVE  subscribers[ch] \in [Clients -> 0..1]
  BY Zenon DEF HubInv, HubTypeOK

\* A step that sends and receives nothing
LEMMA RxSame ==
    ASSUME HubInv, rx' = rx
    PROVE  DOMAIN rx' = Clients /\ \A d \in Clients : rx'[d] \in Seq(Messages)
  BY Zenon DEF HubInv, HubTypeOK

\* While nothing is being published nobody who was gone is in a list.
LEMMA Quiet ==
    ASSUME HubInv, NEW c \in Clients, NEW x, At(c, x), x \notin {"queued", "done", "send", "clean"},
           NEW p \in swept
    PROVE  /\ p[1] \in Clients /\ p[2] \in Channels /\ task[p[1]] = "closed"
           /\ subscribers[p[2]][p[1]] = 0
<1>1. p[1] \in Clients /\ p[2] \in Channels
  BY Zenon DEF HubInv, HubTypeOK
<1>2. task[p[1]] = "closed" /\ (subscribers[p[2]][p[1]] > 0 => Found(p, c)) /\ call[c].at = x
  BY Zenon, Current
<1>3. ~Found(p, c)
  BY Zenon, <1>2 DEF Found, At
<1>4. subscribers[p[2]][p[1]] \in 0..1
  BY Zenon, <1>1, ListType
<1> QED
  BY <1>1, <1>2, <1>3, <1>4

-----------------------------------------------------------------------------
\* The refinement: a step of the hub is a step of the abstract Pub/Sub, or
\* changes nothing that clients can know.
Refines == [ADT!Next]_(ADT!vars)

\* A step clients cannot tell is a stuttering step of the abstract Pub/Sub.
LEMMA Rests ==
    ASSUME Connections' = Connections, Members' = Members, Streams' = Streams,
           Asking' = Asking, Reached' = Reached, Answers' = Answers
    PROVE  Refines
  BY Zenon DEF Refines, ADT!vars

\* Its own steps
LEMMA Acts ==
    ASSUME NEW c \in Clients,
           \/ ADT!Ask(c) \/ ADT!Finish(c) \/ ADT!Forget(c) \/ ADT!Disconnect(c)
           \/ \E d \in Clients : ADT!Deliver(c, d)
           \/ \E ch \in Channels : ADT!Join(c, ch) \/ ADT!Leave(c, ch)
    PROVE  Refines
  BY Zenon DEF Refines, ADT!Next

\* What stays while no task ends
LEMMA SameConnections ==
    ASSUME task' = task
    PROVE  /\ Connections' = Connections
           /\ subscribers' = subscribers => Members' = Members
           /\ rx' = rx /\ written' = written => Streams' = Streams
  BY Zenon DEF Connections, Members, Streams, Connected

\* The request of a command in the abstract Pub/Sub
LEMMA AskedFor ==
    ASSUME NEW c \in Clients, NEW j \in Calls(c), j = call[c]
    PROVE  /\ Asking[c] = j.request /\ Reached[c] = j.reached
           /\ \A o : ADT!Asks(c, o) <=> j.request.op = o
           /\ ADT!Named(c) = Elements(j.request.args)
<1>1. j # Unset /\ j.request # Unset
  BY Zenon, Asked
<1>2. Asking[c] = j.request /\ Reached[c] = j.reached
  BY Zenon, <1>1 DEF Asking, Reached
<1> QED
  BY Zenon, <1>1, <1>2 DEF ADT!Asks, ADT!Named, Elements

\* What clients know of a command
RequestIn(k) == IF k = Unset THEN Unset ELSE k.request
ReachedIn(k) == IF k = Unset THEN {} ELSE k.reached
AnswerIn(k) == IF k = Unset THEN Unset ELSE IF k.at = "done" THEN k.count ELSE Unset

\* The abstract Pub/Sub knows that much of the command of each client,
LEMMA Known ==
    ASSUME NEW c \in Clients
    PROVE  /\ Asking[c] = RequestIn(call[c]) /\ Reached[c] = ReachedIn(call[c])
           /\ Answers[c] = AnswerIn(call[c])
  BY Zenon DEF Asking, Reached, Answers, RequestIn, ReachedIn, AnswerIn, At

\* and changes with it.
LEMMA CommandChange ==
    ASSUME HubInv, NEW c \in Clients, NEW k, call' = [call EXCEPT ![c] = k]
    PROVE  /\ Asking' = [Asking EXCEPT ![c] = RequestIn(k)]
           /\ Reached' = [Reached EXCEPT ![c] = ReachedIn(k)]
           /\ Answers' = [Answers EXCEPT ![c] = AnswerIn(k)]
<1>1. /\ DOMAIN call = Clients /\ call'[c] = k
      /\ \A d \in Clients : d # c => call'[d] = call[d]
  BY Zenon DEF HubInv, HubTypeOK
<1>2. /\ Asking = [d \in Clients |-> RequestIn(call[d])]
      /\ Reached = [d \in Clients |-> ReachedIn(call[d])]
      /\ Answers = [d \in Clients |-> AnswerIn(call[d])]
  BY Zenon DEF Asking, Reached, Answers, RequestIn, ReachedIn, AnswerIn, At
<1>3. /\ Asking' = [d \in Clients |-> RequestIn(call'[d])]
      /\ Reached' = [d \in Clients |-> ReachedIn(call'[d])]
      /\ Answers' = [d \in Clients |-> AnswerIn(call'[d])]
  BY DEF Asking, Reached, Answers, RequestIn, ReachedIn, AnswerIn, At
<1>4. Asking' = [Asking EXCEPT ![c] = RequestIn(k)]
  BY Zenon, <1>1, <1>2, <1>3
<1>5. Reached' = [Reached EXCEPT ![c] = ReachedIn(k)]
  BY Zenon, <1>1, <1>2, <1>3
<1>6. Answers' = [Answers EXCEPT ![c] = AnswerIn(k)]
  BY Zenon, <1>1, <1>2, <1>3
<1> QED
  BY Zenon, <1>4, <1>5, <1>6

\* The task of a client waits for a reply or has written it.
LEMMA StillConnected ==
    ASSUME HubInv, NEW c \in Clients, NEW x, x # "closed", task[c] # "closed",
           task' = [task EXCEPT ![c] = x], subscribers' = subscribers, rx' = rx, written' = written
    PROVE  Connections' = Connections /\ Members' = Members /\ Streams' = Streams
<1>1. \A d \in Clients : Connected(d)' = Connected(d)
  <2>1. task'[c] = x /\ \A d \in Clients : d # c => task'[d] = task[d]
    BY Zenon DEF HubInv, HubTypeOK
  <2>2. ASSUME NEW d \in Clients PROVE Connected(d)' = Connected(d)
    <3>1. CASE d = c
      BY Zenon, <2>1, <3>1 DEF Connected
    <3>2. CASE d # c
      BY Zenon, <2>1, <3>2 DEF Connected
    <3> QED
      BY Zenon, <3>1, <3>2
  <2> QED
    BY Zenon, <2>2
<1>2. Connections' = Connections
  BY Zenon, <1>1 DEF Connections
<1>3. Members' = Members
  BY Zenon, <1>1 DEF Members
<1>4. Streams' = Streams
  BY Zenon, <1>1 DEF Streams
<1> QED
  BY Zenon, <1>2, <1>3, <1>4

\* While a command runs its client sees no change of the command itself.
LEMMA SameCommand ==
    ASSUME HubInv, NEW c \in Clients, NEW j \in Calls(c), j = call[c], j.at # "done",
           NEW k \in Calls(c), k.at # "done", call' = [call EXCEPT ![c] = k],
           k.request = j.request
    PROVE  /\ Asking' = Asking /\ Answers' = Answers
           /\ k.reached = j.reached => Reached' = Reached
<1>1. /\ DOMAIN call = Clients /\ call'[c] = k
      /\ \A d \in Clients : d # c => call'[d] = call[d]
  BY Zenon DEF HubInv, HubTypeOK
<1>2. j # Unset /\ k # Unset
  BY Zenon, Asked
<1>3. ASSUME NEW d \in Clients
      PROVE  /\ (IF call'[d] = Unset THEN Unset ELSE call'[d].request)
                  = (IF call[d] = Unset THEN Unset ELSE call[d].request)
             /\ (IF At(d, "done")' THEN call'[d].count ELSE Unset)
                  = (IF At(d, "done") THEN call[d].count ELSE Unset)
             /\ k.reached = j.reached => (IF call'[d] = Unset THEN {} ELSE call'[d].reached)
                                           = (IF call[d] = Unset THEN {} ELSE call[d].reached)
  <2>1. CASE d = c
    BY Zenon, <1>1, <1>2, <2>1 DEF At
  <2>2. CASE d # c
    BY Zenon, <1>1, <2>2 DEF At
  <2> QED
    BY Zenon, <2>1, <2>2
<1> QED
  BY <1>3 DEF Asking, Answers, Reached

\* The members of a channel after a change of its list.
There(list) == {d \in Clients : list[d] > 0 /\ Connected(d)}

\* Subscribing, unsubscribing and cleaning change one channel.
LEMMA MembersChange ==
    ASSUME NEW ch \in Channels, NEW list, Lists(ch, list), task' = task
    PROVE  /\ Members' = [Members EXCEPT ![ch] = There(list)]
           /\ There(list) = Members[ch] => Members' = Members
           /\ Members[ch] = There(subscribers[ch])
<1>1. \A x \in Channels : Members[x] = There(subscribers[x])
  BY Zenon DEF Members, There
<1>2. Members' = [x \in Channels |-> There(subscribers'[x])]
  BY Zenon DEF Members, There, Connected
<1>3. Members' = [Members EXCEPT ![ch] = There(list)]
  <2>1. DOMAIN Members = Channels
    BY Zenon DEF Members
  <2>2. \A x \in Channels : There(subscribers'[x]) = IF x = ch THEN There(list) ELSE Members[x]
    BY Zenon, <1>1 DEF Lists
  <2> HIDE DEF Members, There
  <2>3. [Members EXCEPT ![ch] = There(list)] = [x \in Channels |-> IF x = ch THEN There(list) ELSE Members[x]]
    BY Zenon, <2>1
  <2> QED
    BY Zenon, <1>2, <2>2, <2>3
<1>4. There(list) = Members[ch] => Members' = Members
  BY Zenon, <1>1, <1>2 DEF Lists, Members, There
<1> QED
  BY Zenon, <1>1, <1>3, <1>4

\* Cardinality is the same in the instance.
LEMMA HubSameFinite == \A S : ADT!IsFiniteSet(S) = IsFiniteSet(S)
  BY Zenon DEF IsFiniteSet, ADT!IsFiniteSet
LEMMA HubSameCard == \A S : ADT!Cardinality(S) = Cardinality(S)
  BY Zenon, HubSameFinite DEF Cardinality, ADT!Cardinality

\* subscribe, one channel (pubsub.rs:38-46): the client joins it.
LEMMA SubscribeHub ==
    ASSUME HubInv, NEW c \in Clients, SubscribeTo(c)
    PROVE  HubInv' /\ Refines
<1>1. PICK j \in Calls(c) : /\ j = call[c] /\ j.at = "entry" /\ Running(c) /\ Progress(j)
                            /\ Effect(subscribers, task, c, j)
  BY Zenon, Current DEF SubscribeTo
<1>2. j.left # << >> /\ j.request.op = "subscribe"
  BY Zenon, <1>1, Asked DEF Progress, StepsOf
<1>3. PICK ch \in Channels, s \in Seq(Channels) : ch = Head(j.left) /\ s = Tail(j.left)
  BY Zenon, <1>2, Asked, Walk
<1>4. PICK list : list = Push(subscribers[ch], c)
  BY Zenon
<1>5. list \in [Clients -> 0..1] /\ list[c] > 0 /\ \A d \in Clients \ {c} : list[d] = subscribers[ch][d]
  BY <1>4, ListType DEF Push
<1>6. /\ subscribers' = [subscribers EXCEPT ![ch] = list] /\ Go(c, "entry", s)
      /\ swept' = swept \ {<<c, ch>>} /\ pending' = pending /\ task' = task /\ rx' = rx
      /\ budget' = budget /\ written' = written
  BY Zenon, <1>1, <1>3, <1>4 DEF SubscribeTo
<1>7. Lists(ch, list)
  BY Zenon, <1>5, <1>6, ListChanges
<1>8. PICK k \in Calls(c), a \in Steps :
          /\ call' = [call EXCEPT ![c] = k] /\ IsNext(k, j, a, s)
          /\ s = << >> => a = "count"
          /\ s # << >> => a = "entry"
  <2>1. "entry" \in Steps
    BY Zenon DEF Steps
  <2>2. GoneOn(c, j, "entry", s)
    BY Zenon, <1>1, <1>6, <2>1, GoesOn
  <2> QED
    BY Zenon, <2>2 DEF GoneOn
<1>9. Progress(k) /\ k.at \notin {"queued", "done"} /\ k.request = j.request
  <2>1. "entry" \in Steps /\ "entry" \in StepsOf(j.request.op)
    BY Zenon, <1>2 DEF Steps, StepsOf
  <2> QED
    BY <1>1, <1>2, <1>3, <1>8, <2>1, WalksOn
<1>10. Effect(subscribers', task, c, k)
  <2>1. ASSUME NEW x \in Elements(j.request.args)
        PROVE  x \in Elements(s) \/ subscribers'[x][c] > 0
    <3>1. x \in Elements(j.left) \/ subscribers[x][c] > 0
      BY Zenon, <1>1, <1>2 DEF Effect
    <3>2. Elements(j.left) \subseteq {ch} \cup Elements(s)
      BY Zenon, <1>2, <1>3, Asked, Walk
    <3>3. x \in Channels
      BY Asked DEF Elements
    <3> QED
      BY Zenon, <1>5, <1>7, <3>1, <3>2, <3>3 DEF Lists
  <2>2. k.at \in {"entry", "count"} /\ k.left = s /\ k.dead = j.dead
    BY Zenon, <1>8 DEF IsNext
  <2>3. \A d \in k.dead : task[d] = "closed"
    BY Zenon, <1>1, <2>2 DEF Effect
  <2> QED
    BY Zenon, <1>2, <1>9, <2>1, <2>2, <2>3 DEF Effect
<1>11. SweptInv'
  <2>1. ASSUME NEW p \in swept' PROVE task[p[1]] = "closed" /\ subscribers'[p[2]][p[1]] = 0
    <3>1. p \in swept /\ p # <<c, ch>>
      BY Zenon, <1>6, <2>1
    <3>2. /\ p[1] \in Clients /\ p[2] \in Channels /\ task[p[1]] = "closed"
          /\ subscribers[p[2]][p[1]] = 0
      BY Zenon, <3>1, Quiet DEF SubscribeTo
    <3>3. ~(p[1] = c /\ p[2] = ch)
      BY <3>1 DEF HubInv, HubTypeOK
    <3> QED
      BY Zenon, <1>5, <1>7, <3>2, <3>3 DEF Lists
  <2> QED
    BY <1>6, <2>1 DEF SweptInv
<1>12. swept' \subseteq Clients \X Channels
  BY Zenon, <1>6 DEF HubInv, HubTypeOK
<1>13. HubTypeOK' /\ TurnInv' /\ CallInv'
  BY Zenon, <1>1, <1>6, <1>7, <1>8, <1>9, <1>10, <1>12, RxSame, Runs DEF Lists
<1>14. Refines
  <2>1. Connections' = Connections /\ Streams' = Streams
    BY Zenon, <1>6, SameConnections
  <2>2. k.at # "done" /\ k.reached = j.reached /\ j.at # "done"
    BY Zenon, <1>1, <1>8, <1>9 DEF IsNext
  <2>3. Asking' = Asking /\ Answers' = Answers /\ Reached' = Reached
    BY Zenon, <1>1, <1>8, <1>9, <2>2, SameCommand
  <2>4. /\ Members' = [Members EXCEPT ![ch] = There(list)] /\ Members[ch] = There(subscribers[ch])
        /\ There(list) = Members[ch] => Members' = Members
    BY Zenon, <1>6, <1>7, MembersChange
  <2>5. CASE Connected(c)
    <3>1. There(list) = Members[ch] \cup {c}
      BY Zenon, <1>5, <2>4, <2>5 DEF There
    <3>2. ADT!Asks(c, "subscribe") /\ ch \in ADT!Named(c)
      <4>1. ch \in Elements(j.left)
        BY Zenon, <1>2, <1>3, Asked, Walk
      <4>2. Elements(j.left) \subseteq Elements(j.request.args)
        BY Zenon, <1>1 DEF Progress
      <4>3. ch \in Elements(j.request.args)
        BY Zenon, <4>1, <4>2
      <4> QED
        BY <1>1, <1>2, <4>3, AskedFor
    <3>3. ADT!Join(c, ch)
      BY Zenon, <2>1, <2>3, <2>4, <3>1, <3>2 DEF ADT!Join
    <3> QED
      BY Zenon, <3>3, Acts
  <2>6. CASE ~Connected(c)
    <3>1. There(list) = Members[ch]
      BY Zenon, <1>5, <2>4, <2>6 DEF There
    <3> QED
      BY Zenon, <2>1, <2>3, <2>4, <3>1, Rests
  <2> QED
    BY Zenon, <2>5, <2>6
<1> QED
  BY Zenon, <1>11, <1>13, <1>14 DEF HubInv

\* The commands that end subscriptions
Leaving == {"unsubscribe", "unsubscribeAll"}

\* unsubscribe, one channel (pubsub.rs:59-64): the client leaves it.
LEMMA UnsubscribeHub ==
    ASSUME HubInv, NEW c \in Clients, UnsubscribeFrom(c)
    PROVE  HubInv' /\ Refines
<1>1. PICK j \in Calls(c) : /\ j = call[c] /\ j.at = "retain" /\ Running(c) /\ Progress(j)
                            /\ Effect(subscribers, task, c, j)
  BY Zenon, Current DEF UnsubscribeFrom
<1>2. j.left # << >> /\ j.request.op \in Leaving
  BY Zenon, <1>1, Asked DEF Progress, StepsOf, Leaving
<1>3. PICK ch \in Channels, s \in Seq(Channels) : ch = Head(j.left) /\ s = Tail(j.left)
  BY Zenon, <1>2, Asked, Walk
<1>4. PICK list : list = Without(subscribers[ch], {c})
  BY Zenon
<1>5. list \in [Clients -> 0..1] /\ list[c] = 0 /\ \A d \in Clients \ {c} : list[d] = subscribers[ch][d]
  BY <1>4, ListType DEF Without
<1>6. /\ subscribers' = [subscribers EXCEPT ![ch] = list]
      /\ swept' = swept /\ pending' = pending /\ task' = task /\ rx' = rx
      /\ budget' = budget /\ written' = written
      /\ \/ Go(c, "remove", j.left) /\ list = Nobody /\ j.request.op = "unsubscribe"
         \/ Go(c, "retain", s)
  BY Zenon, <1>1, <1>3, <1>4 DEF UnsubscribeFrom
<1>7. Lists(ch, list)
  BY Zenon, <1>5, <1>6, ListChanges
<1>8. ASSUME NEW x \in Elements(j.request.args)
      PROVE  (x \in Elements(s) \/ subscribers'[x][c] = 0) /\ (x \in Elements(j.left) \/ subscribers'[x][c] = 0)
  <2>1. x \in Elements(j.left) \/ subscribers[x][c] = 0
    BY Zenon, <1>1, <1>2 DEF Effect, Leaving
  <2>2. Elements(j.left) \subseteq {ch} \cup Elements(s)
    BY Zenon, <1>2, <1>3, Asked, Walk
  <2>3. x \in Channels
    BY Asked DEF Elements
  <2> QED
    BY Zenon, <1>5, <1>7, <2>1, <2>2, <2>3 DEF Lists
<1>9. SweptInv'
  <2>1. ASSUME NEW p \in swept' PROVE task[p[1]] = "closed" /\ subscribers'[p[2]][p[1]] = 0
    <3>1. /\ p[1] \in Clients /\ p[2] \in Channels /\ task[p[1]] = "closed"
          /\ subscribers[p[2]][p[1]] = 0
      BY Zenon, <1>6, <2>1, Quiet DEF UnsubscribeFrom
    <3> QED
      BY Zenon, <1>5, <1>7, <3>1 DEF Lists
  <2> QED
    BY <1>6, <2>1 DEF SweptInv
<1>10. swept' \subseteq Clients \X Channels
  BY Zenon, <1>6 DEF HubInv, HubTypeOK
<1>11. ASSUME NEW k \in Calls(c), call' = [call EXCEPT ![c] = k], Progress(k),
              k.at \notin {"queued", "done"}, Effect(subscribers', task, c, k),
              k.request = j.request, k.reached = j.reached
       PROVE  HubInv' /\ Refines
  <2>1. HubTypeOK' /\ TurnInv' /\ CallInv'
    BY Zenon, <1>1, <1>6, <1>7, <1>10, <1>11, RxSame, Runs DEF Lists
  <2>2. Connections' = Connections /\ Streams' = Streams
    BY Zenon, <1>6, SameConnections
  <2>3. k.at # "done" /\ j.at # "done"
    BY Zenon, <1>1, <1>11
  <2>4. Asking' = Asking /\ Answers' = Answers /\ Reached' = Reached
    BY Zenon, <1>1, <1>11, <2>3, SameCommand
  <2>5. Members' = [Members EXCEPT ![ch] = There(list)] /\ Members[ch] = There(subscribers[ch])
    BY Zenon, <1>6, <1>7, MembersChange
  <2>6. There(list) = Members[ch] \ {c}
    BY <1>5, <2>5 DEF There
  <2>7. ADT!Leaves(c) /\ ch \in ADT!Named(c)
    <3>1. ch \in Elements(j.left)
      BY Zenon, <1>2, <1>3, Asked, Walk
    <3>2. Elements(j.left) \subseteq Elements(j.request.args)
      BY Zenon, <1>1 DEF Progress
    <3>3. ch \in Elements(j.request.args)
      BY Zenon, <3>1, <3>2
    <3> QED
      BY <1>1, <1>2, <3>3, AskedFor DEF Leaving, ADT!Leaves
  <2>8. ADT!Leave(c, ch)
    BY Zenon, <2>2, <2>4, <2>5, <2>6, <2>7 DEF ADT!Leave
  <2> QED
    BY Zenon, <1>9, <2>1, <2>8, Acts DEF HubInv
<1>12. CASE Go(c, "retain", s)
  <2>1. "retain" \in Steps /\ "retain" \in StepsOf(j.request.op)
    BY Zenon, <1>2 DEF Steps, StepsOf, Leaving
  <2>2. GoneOn(c, j, "retain", s)
    BY Zenon, <1>1, <1>12, <2>1, GoesOn
  <2>3. PICK k \in Calls(c), a \in Steps :
          /\ call' = [call EXCEPT ![c] = k] /\ IsNext(k, j, a, s)
          /\ s = << >> => a = "count"
          /\ s # << >> => a = "retain"
    BY Zenon, <2>2 DEF GoneOn
  <2>4. Progress(k) /\ k.at \notin {"queued", "done"} /\ k.request = j.request
    BY <1>1, <1>2, <1>3, <2>1, <2>3, WalksOn DEF Leaving
  <2>5. k.at \in {"retain", "count"} /\ k.left = s /\ k.dead = j.dead /\ k.reached = j.reached
    BY Zenon, <2>3 DEF IsNext
  <2>6. \A d \in k.dead : task[d] = "closed"
    BY Zenon, <1>1, <2>5 DEF Effect
  <2>7. Effect(subscribers', task, c, k)
    BY Zenon, <1>2, <1>8, <2>4, <2>5, <2>6 DEF Effect, Leaving
  <2> QED
    BY Zenon, <1>11, <2>3, <2>4, <2>5, <2>7
<1>13. CASE Go(c, "remove", j.left) /\ list = Nobody /\ j.request.op = "unsubscribe"
  <2>1. "remove" \in Steps /\ j.left \in Seq(Channels)
    BY Zenon, Asked DEF Steps
  <2>2. GoneOn(c, j, "remove", j.left)
    BY Zenon, <1>1, <1>13, <2>1, GoesOn
  <2>3. PICK k \in Calls(c) :
          call' = [call EXCEPT ![c] = k] /\ IsNext(k, j, "remove", j.left)
    BY Zenon, <1>2, <2>2 DEF GoneOn
  <2>4. Progress(k)
    BY Zenon, <1>1, <1>2, <1>13, <2>3 DEF Progress, IsNext, StepsOf
  <2>5. \A d \in k.dead : task[d] = "closed"
    BY Zenon, <1>1, <2>3 DEF Effect, IsNext
  <2>6. subscribers'[Head(j.left)] = Nobody
    BY Zenon, <1>3, <1>7, <1>13 DEF Lists
  <2>7. Effect(subscribers', task, c, k)
    BY Zenon, <1>8, <1>13, <2>3, <2>5, <2>6 DEF Effect, IsNext
  <2> QED
    BY Zenon, <1>11, <2>3, <2>4, <2>7 DEF IsNext
<1> QED
  BY Zenon, <1>6, <1>12, <1>13

\* The removal of a channel (pubsub.rs:67, 110), which is still empty.
LEMMA RemoveHub ==
    ASSUME HubInv, NEW c \in Clients, RemoveChannel(c)
    PROVE  HubInv' /\ Refines
<1>1. PICK j \in Calls(c) : /\ j = call[c] /\ j.at = "remove" /\ Running(c) /\ Progress(j)
                            /\ Effect(subscribers, task, c, j)
  BY Zenon, Current DEF RemoveChannel
<1>2. j.left # << >> /\ j.request.op \in {"unsubscribe", "publish"}
  BY Zenon, <1>1, Asked DEF Progress, StepsOf
<1>3. PICK ch \in Channels, s \in Seq(Channels) : ch = Head(j.left) /\ s = Tail(j.left)
  BY Zenon, <1>2, Asked, Walk
<1>4. subscribers[ch] = Nobody
  BY Zenon, <1>1, <1>3 DEF Effect
<1>5. /\ subscribers' = [subscribers EXCEPT ![ch] = Nobody] /\ Go(c, "retain", s)
      /\ swept' = swept /\ pending' = pending /\ task' = task /\ rx' = rx
      /\ budget' = budget /\ written' = written
  BY Zenon, <1>1, <1>3 DEF RemoveChannel
<1>6. subscribers' = subscribers
  BY Zenon, <1>4, <1>5 DEF HubInv, HubTypeOK
<1>7. SweptInv'
  <2>1. ASSUME NEW p \in swept' PROVE task[p[1]] = "closed" /\ subscribers'[p[2]][p[1]] = 0
    BY Zenon, <1>5, <1>6, <2>1, Quiet DEF RemoveChannel
  <2> QED
    BY <1>5, <2>1 DEF SweptInv
<1>8. "retain" \in Steps
  BY Zenon DEF Steps
<1>9. GoneOn(c, j, "retain", s)
  BY Zenon, <1>1, <1>5, <1>8, GoesOn
<1>10. PICK k \in Calls(c), a \in Steps :
          /\ call' = [call EXCEPT ![c] = k] /\ IsNext(k, j, a, s)
          /\ s = << >> => a = "count"
          /\ s # << >> => a = "retain"
  BY Zenon, <1>9 DEF GoneOn
<1>11. \A d \in k.dead : task[d] = "closed"
  BY Zenon, <1>1, <1>10 DEF Effect, IsNext
<1>12. Progress(k) /\ k.at \notin {"queued", "done"} /\ Effect(subscribers', task, c, k)
  <2>1. CASE j.request.op = "unsubscribe"
    <3>1. "retain" \in StepsOf(j.request.op)
      BY Zenon, <2>1 DEF StepsOf
    <3>2. Progress(k) /\ k.at \notin {"queued", "done"} /\ k.request = j.request
      BY <1>1, <1>2, <1>3, <1>8, <1>10, <2>1, <3>1, WalksOn
    <3>3. ASSUME NEW x \in Elements(j.request.args)
          PROVE  x \in Elements(s) \/ subscribers[x][c] = 0
      <4>1. x \in Elements(j.left) \/ subscribers[x][c] = 0
        BY Zenon, <1>1, <2>1 DEF Effect
      <4>2. Elements(j.left) \subseteq {ch} \cup Elements(s)
        BY Zenon, <1>2, <1>3, Asked, Walk
      <4> QED
        BY Zenon, <1>4, <4>1, <4>2, NobodyType
    <3>4. k.at \in {"retain", "count"} /\ k.left = s
      BY Zenon, <1>10 DEF IsNext
    <3> QED
      BY Zenon, <1>6, <1>11, <2>1, <3>2, <3>3, <3>4 DEF Effect
  <2>2. CASE j.request.op = "publish"
    <3>1. j.left = j.request.args /\ Len(j.left) = 1 /\ j.left \in Seq(Channels)
      BY Zenon, <1>1, <2>2, Asked DEF Progress
    <3>2. s = << >>
      BY <1>3, <3>1
    <3>3. IsNext(k, j, "count", << >>)
      BY Zenon, <1>10, <3>2
    <3>4. Progress(k)
      <4>1. Elements(<< >>) = {}
        BY DEF Elements
      <4> QED
        BY Zenon, <1>1, <2>2, <3>3, <4>1 DEF Progress, IsNext, StepsOf
    <3>5. Effect(subscribers, task, c, k)
      BY Zenon, <1>1, <1>11, <2>2, <3>3 DEF Effect, IsNext
    <3> QED
      BY Zenon, <1>6, <3>3, <3>4, <3>5 DEF IsNext
  <2> QED
    BY Zenon, <1>2, <2>1, <2>2
<1>13. HubTypeOK' /\ TurnInv' /\ CallInv'
  <2>1. subscribers' \in [Channels -> [Clients -> 0..1]] /\ swept' \subseteq Clients \X Channels
    BY Zenon, <1>5, <1>6 DEF HubInv, HubTypeOK
  <2> QED
    BY Zenon, <1>1, <1>5, <1>10, <1>12, <2>1, RxSame, Runs
<1>14. Refines
  <2>1. Connections' = Connections /\ Streams' = Streams /\ Members' = Members
    BY Zenon, <1>5, <1>6, SameConnections
  <2>2. k.at # "done" /\ k.reached = j.reached /\ j.at # "done" /\ k.request = j.request
    BY Zenon, <1>1, <1>10, <1>12 DEF IsNext
  <2>3. Asking' = Asking /\ Answers' = Answers /\ Reached' = Reached
    BY Zenon, <1>1, <1>10, <2>2, SameCommand
  <2> QED
    BY Zenon, <2>1, <2>3, Rests
<1> QED
  BY Zenon, <1>7, <1>13, <1>14 DEF HubInv

\* A publication has one channel.
LEMMA Topical ==
    ASSUME NEW c \in Clients, NEW j \in Calls(c), Progress(j), j.at \in {"get", "send", "clean"}
    PROVE  /\ j.request.op = "publish" /\ j.left = j.request.args /\ j.left # << >>
           /\ Head(j.left) = j.request.args[1] /\ Head(j.left) \in Channels
<1>1. j.request.op = "publish"
  BY Zenon, Asked DEF Progress, StepsOf
<1>2. j.left = j.request.args /\ j.left # << >> /\ j.left \in Seq(Channels)
  BY Zenon, <1>1, Asked DEF Progress
<1> QED
  BY <1>1, <1>2

\* publish finds the list of the channel (pubsub.rs:96).
LEMMA GetHub ==
    ASSUME HubInv, NEW c \in Clients, Get(c)
    PROVE  HubInv' /\ Refines
<1>1. PICK j \in Calls(c) : /\ j = call[c] /\ j.at = "get" /\ Running(c) /\ Progress(j)
                            /\ Effect(subscribers, task, c, j)
  BY Zenon, Current DEF Get
<1>2. PICK ch \in Channels : ch = Head(j.left) /\ ch = j.request.args[1]
  BY Zenon, <1>1, Topical
<1>3. PICK list \in [Clients -> 0..1] : list = subscribers[ch]
  BY Zenon, ListType
<1>4. PICK a \in Steps : a = IF list = Nobody THEN "count" ELSE "send"
  BY Zenon DEF Steps
<1>5. PICK k : k = [j EXCEPT !.at = a, !.togo = list]
  BY Zenon
<1>6. /\ call' = [call EXCEPT ![c] = k] /\ subscribers' = subscribers
      /\ swept' = swept \cup ({d \in Clients : task[d] = "closed"} \X {ch})
      /\ pending' = pending /\ task' = task /\ rx' = rx /\ budget' = budget /\ written' = written
  BY Zenon, <1>1, <1>2, <1>3, <1>4, <1>5 DEF Get
<1>7. /\ k \in Calls(c) /\ k.at = a /\ k.left = j.left /\ k.request = j.request
      /\ k.togo = list /\ k.dead = j.dead /\ k.count = j.count /\ k.reached = j.reached
  BY Zenon, <1>5 DEF Calls
<1>8. Progress(k)
  <2>1. j.request.op = "publish" /\ j.reached = {} /\ j.left # << >>
    BY Zenon, <1>1, Topical DEF Progress
  <2> QED
    BY Zenon, <1>1, <1>4, <1>7, <2>1 DEF Progress, StepsOf
<1>9. Effect(subscribers, task, c, k)
  <2>1. j.dead = {} /\ j.reached = {} /\ j.request.op = "publish" /\ k.at \in {"send", "count"}
    BY Zenon, <1>1, <1>4, <1>7, Topical DEF Progress
  <2> QED
    BY Zenon, <1>2, <1>3, <1>7, <2>1 DEF Effect
<1>10. swept' \subseteq Clients \X Channels
  BY Zenon, <1>6 DEF HubInv, HubTypeOK
<1>11. HubTypeOK' /\ TurnInv' /\ CallInv'
  <2>1. subscribers' \in [Channels -> [Clients -> 0..1]] /\ k.at \notin {"queued", "done"}
    BY Zenon, <1>4, <1>6, <1>7 DEF HubInv, HubTypeOK
  <2> QED
    BY Zenon, <1>1, <1>6, <1>7, <1>8, <1>9, <1>10, <2>1, RxSame, Runs
<1>12. SweptInv'
  <2>1. ASSUME NEW p \in swept' PROVE task[p[1]] = "closed" /\ (subscribers[p[2]][p[1]] > 0 => Found(p, c)')
    <3>1. CASE p \in swept
      <4>1. task[p[1]] = "closed" /\ subscribers[p[2]][p[1]] = 0
        BY Zenon, <3>1, Quiet DEF Get
      <4> QED
        BY <4>1
    <3>2. CASE p \in {d \in Clients : task[d] = "closed"} \X {ch}
      <4>1. p[1] \in Clients /\ task[p[1]] = "closed" /\ p[2] = ch
        BY Zenon, <3>2
      <4>2. ASSUME list[p[1]] > 0 PROVE Found(p, c)'
        <5>1. list # Nobody
          BY <4>1, <4>2, NobodyType
        <5>2. call'[c] = k /\ k # Unset
          BY Zenon, <1>6, <1>7, Asked DEF HubInv, HubTypeOK
        <5> QED
          BY Zenon, <1>2, <1>4, <1>7, <4>1, <4>2, <5>1, <5>2 DEF Found, At
      <4> QED
        BY Zenon, <1>3, <4>1, <4>2
    <3> QED
      BY Zenon, <1>6, <2>1, <3>1, <3>2
  <2> QED
    BY Zenon, <1>6, <2>1 DEF SweptInv
<1>13. Refines
  <2>1. Connections' = Connections /\ Streams' = Streams /\ Members' = Members
    BY Zenon, <1>6, SameConnections
  <2>2. k.at # "done" /\ j.at # "done"
    BY Zenon, <1>1, <1>4, <1>7
  <2>3. Asking' = Asking /\ Answers' = Answers /\ Reached' = Reached
    BY Zenon, <1>1, <1>6, <1>7, <2>2, SameCommand
  <2> QED
    BY Zenon, <2>1, <2>3, Rests
<1> QED
  BY Zenon, <1>11, <1>12, <1>13 DEF HubInv

\* Those that failed are taken out (pubsub.rs:105-107): nobody who is there.
LEMMA CleanHub ==
    ASSUME HubInv, NEW c \in Clients, Clean(c)
    PROVE  HubInv' /\ Refines
<1>1. PICK j \in Calls(c) : /\ j = call[c] /\ j.at = "clean" /\ Running(c) /\ Progress(j)
                            /\ Effect(subscribers, task, c, j)
  BY Zenon, Current DEF Clean
<1>2. /\ j.request.op = "publish" /\ j.left = j.request.args /\ j.left # << >>
      /\ j.left \in Seq(Channels)
  BY Zenon, <1>1, Topical, Asked
<1>3. PICK ch \in Channels : ch = Head(j.left) /\ ch = j.request.args[1]
  BY Zenon, <1>1, Topical
<1>4. PICK list : list = Without(subscribers[ch], j.dead)
  BY Zenon
<1>5. /\ list \in [Clients -> 0..1]
      /\ \A d \in Clients : list[d] > 0 => subscribers[ch][d] > 0 /\ d \notin j.dead
  BY <1>4, ListType DEF Without
<1>6. /\ subscribers' = [subscribers EXCEPT ![ch] = list]
      /\ swept' = swept /\ pending' = pending /\ task' = task /\ rx' = rx
      /\ budget' = budget /\ written' = written
      /\ \/ Go(c, "remove", j.left) /\ list = Nobody
         \/ Go(c, "count", << >>)
  BY Zenon, <1>1, <1>3, <1>4 DEF Clean
<1>7. Lists(ch, list)
  BY Zenon, <1>5, <1>6, ListChanges
<1>8. PICK k \in Calls(c), a \in Steps, s \in Seq(Channels) :
          /\ call' = [call EXCEPT ![c] = k] /\ IsNext(k, j, a, s)
          /\ (a = "count" /\ s = << >>) \/ (a = "remove" /\ s = j.left /\ list = Nobody)
  <2>1. "remove" \in Steps /\ "count" \in Steps /\ << >> \in Seq(Channels)
    BY DEF Steps
  <2>2. CASE Go(c, "remove", j.left) /\ list = Nobody
    <3>1. GoneOn(c, j, "remove", j.left)
      BY Zenon, <1>1, <1>2, <2>1, <2>2, GoesOn
    <3> QED
      BY Zenon, <1>2, <2>1, <2>2, <3>1 DEF GoneOn
  <2>3. CASE Go(c, "count", << >>)
    <3>1. GoneOn(c, j, "count", << >>)
      BY Zenon, <1>1, <2>1, <2>3, GoesOn
    <3> QED
      BY Zenon, <2>1, <3>1 DEF GoneOn
  <2> QED
    BY Zenon, <1>6, <2>2, <2>3
<1>9. /\ k.at = a /\ k.left = s /\ k.request = j.request /\ k.togo = j.togo
      /\ k.dead = j.dead /\ k.count = j.count /\ k.reached = j.reached
      /\ a \in {"count", "remove"}
  BY Zenon, <1>8 DEF IsNext
<1>10. Progress(k)
  <2>1. Elements(<< >>) = {}
    BY DEF Elements
  <2> QED
    BY Zenon, <1>1, <1>2, <1>8, <1>9, <2>1 DEF Progress, StepsOf
<1>11. j.togo = Nobody /\ \A d \in j.dead : task[d] = "closed"
  BY Zenon, <1>1 DEF Progress, Effect
<1>12. Effect(subscribers', task, c, k)
  <2>1. ASSUME NEW d \in Clients, subscribers'[ch][d] > 0
        PROVE  d \in j.reached \/ task[d] = "closed"
    <3>1. subscribers[ch][d] > 0
      BY Zenon, <1>5, <1>7, <2>1 DEF Lists
    <3>2. j.togo[d] > 0 \/ d \in j.reached \/ task[d] = "closed"
      BY Zenon, <1>1, <1>2, <1>3, <3>1 DEF Effect
    <3> QED
      BY <1>11, <3>2, NobodyType
  <2>2. a = "remove" => subscribers'[Head(s)] = Nobody
    BY Zenon, <1>3, <1>7, <1>8 DEF Lists
  <2> QED
    BY Zenon, <1>2, <1>3, <1>9, <1>11, <2>1, <2>2 DEF Effect
<1>13. SweptInv'
  <2>1. ASSUME NEW p \in swept' PROVE task[p[1]] = "closed" /\ ~(subscribers'[p[2]][p[1]] > 0)
    <3>1. p \in swept /\ p[1] \in Clients /\ p[2] \in Channels
      BY Zenon, <1>6, <2>1 DEF HubInv, HubTypeOK
    <3>2. task[p[1]] = "closed" /\ (subscribers[p[2]][p[1]] > 0 => Found(p, c))
      BY Zenon, <3>1, Current DEF Clean
    <3>3. Found(p, c) => p[2] = ch /\ p[1] \in j.dead
      BY <1>1, <1>3, <1>11, <3>1, NobodyType DEF Found
    <3>4. CASE p[2] = ch
      BY Zenon, <1>5, <1>7, <3>1, <3>2, <3>3, <3>4 DEF Lists
    <3>5. CASE p[2] # ch
      BY Zenon, <1>7, <3>1, <3>2, <3>3, <3>5 DEF Lists
    <3> QED
      BY Zenon, <3>4, <3>5
  <2> QED
    BY Zenon, <1>6, <2>1 DEF SweptInv
<1>14. HubTypeOK' /\ TurnInv' /\ CallInv'
  <2>1. swept' \subseteq Clients \X Channels /\ k.at \notin {"queued", "done"}
    BY Zenon, <1>6, <1>9 DEF HubInv, HubTypeOK
  <2> QED
    BY Zenon, <1>1, <1>6, <1>7, <1>8, <1>10, <1>12, <2>1, RxSame, Runs DEF Lists
<1>15. Refines
  <2>1. Connections' = Connections /\ Streams' = Streams
    BY Zenon, <1>6, SameConnections
  <2>2. k.at # "done" /\ j.at # "done"
    BY Zenon, <1>1, <1>9
  <2>3. Asking' = Asking /\ Answers' = Answers /\ Reached' = Reached
    BY Zenon, <1>1, <1>8, <1>9, <2>2, SameCommand
  <2>4. There(list) = There(subscribers[ch])
    BY Zenon, <1>4, <1>5, <1>11, ListType DEF There, Without, Connected
  <2>5. Members' = Members
    BY Zenon, <1>6, <1>7, <2>4, MembersChange
  <2> QED
    BY Zenon, <2>1, <2>3, <2>5, Rests
<1> QED
  BY Zenon, <1>13, <1>14, <1>15 DEF HubInv

\* What a command has done stays true when tasks end.
LEMMA Later ==
    ASSUME NEW m, NEW t, NEW u, NEW c, NEW j, Effect(m, t, c, j), StaysClosed(t, u)
    PROVE  Effect(m, u, c, j)
  BY Zenon DEF Effect, StaysClosed

\* A step that leaves the lists alone.
LEMMA Steady ==
    ASSUME HubInv, NEW c \in Clients, NEW k, call' = [call EXCEPT ![c] = k],
           k # Unset => k \in Calls(c) /\ Progress(k) /\ Effect(subscribers, task', c, k),
           k = call[c] \/ ~(At(c, "send") \/ At(c, "clean")),
           subscribers' = subscribers, swept' = swept, StaysClosed(task, task')
    PROVE  /\ DOMAIN call' = Clients /\ \A d \in Clients : call'[d] # Unset => call'[d] \in Calls(d)
           /\ CallInv' /\ SweptInv'
<1>1. /\ DOMAIN call = Clients /\ DOMAIN call' = Clients /\ call'[c] = k
      /\ \A d \in Clients : d # c => call'[d] = call[d]
  BY Zenon DEF HubInv, HubTypeOK
<1>2. \A d \in Clients : call'[d] # Unset => call'[d] \in Calls(d)
  BY Zenon, <1>1 DEF HubInv, HubTypeOK
<1>3. ASSUME NEW d \in Clients, d # c, call[d] # Unset
      PROVE  Progress(call[d]) /\ Effect(subscribers, task', d, call[d])
  <2>1. Progress(call[d]) /\ Effect(subscribers, task, d, call[d])
    BY Zenon, <1>3 DEF HubInv, CallInv
  <2> QED
    BY Zenon, <2>1, Later
<1>4. CallInv'
  BY Zenon, <1>1, <1>3 DEF CallInv
<1>5. ASSUME NEW p, NEW d \in Clients, Found(p, d) PROVE Found(p, d)'
  <2>1. call'[d] = call[d]
    BY Zenon, <1>1, <1>5 DEF Found
  <2> QED
    BY Zenon, <1>5, <2>1 DEF Found, At
<1>6. SweptInv'
  BY Zenon, <1>5 DEF HubInv, SweptInv, StaysClosed
<1> QED
  BY Zenon, <1>1, <1>2, <1>4, <1>6

\* Nothing is taken up: a task goes on to x, its command to k.
LEMMA Turns ==
    ASSUME HubInv, NEW c \in Clients, NEW k, call' = [call EXCEPT ![c] = k],
           NEW x, task' = [task EXCEPT ![c] = x], pending' = pending,
           k = Unset \/ k = call[c] \/ k.at = "done",
           k = call[c] \/ ~At(c, "queued"),
           x = "ready" => k = Unset,
           k # Unset => k.at # "done" \/ x = "waiting"
    PROVE  TurnInv'
<1>1. /\ DOMAIN call = Clients /\ call'[c] = k
      /\ \A d \in Clients : d # c => call'[d] = call[d]
  BY Zenon DEF HubInv, HubTypeOK
<1>2. task'[c] = x /\ \A d \in Clients : d # c => task'[d] = task[d]
  BY Zenon DEF HubInv, HubTypeOK
<1>3. \A d \in Clients : Running(d)' => Running(d)
  BY Zenon, <1>1 DEF Running
<1>4. \A d \in Clients : At(d, "queued") => At(d, "queued")'
  BY Zenon, <1>1 DEF At
<1>5. \A i \in 1..Len(pending) : pending[i] \in Clients
  BY DEF HubInv, HubTypeOK
<1>6. ASSUME NEW d \in Clients
      PROVE  (task'[d] = "ready" => call'[d] = Unset) /\ (At(d, "done")' => task'[d] = "waiting")
  <2>1. CASE d = c
    BY Zenon, <1>1, <1>2, <2>1 DEF At
  <2>2. CASE d # c
    BY Zenon, <1>1, <1>2, <2>2 DEF At, HubInv, TurnInv
  <2> QED
    BY Zenon, <2>1, <2>2
<1> QED
  BY Zenon, <1>3, <1>4, <1>5, <1>6 DEF HubInv, TurnInv

\* The reply is written (server.rs:219-224).
LEMMA ReplyHub ==
    ASSUME HubInv, NEW c \in Clients, Reply(c)
    PROVE  HubInv' /\ Refines
<1>1. /\ call' = [call EXCEPT ![c] = Unset] /\ task' = [task EXCEPT ![c] = "ready"]
      /\ subscribers' = subscribers /\ pending' = pending /\ rx' = rx /\ budget' = budget
      /\ written' = written /\ swept' = swept /\ At(c, "done") /\ task[c] = "waiting"
  BY Zenon DEF Reply
<1>2. StaysClosed(task, task')
  BY <1>1 DEF StaysClosed, HubInv, HubTypeOK
<1>3. ~At(c, "send") /\ ~At(c, "clean") /\ ~At(c, "queued")
  BY Zenon, <1>1 DEF At
<1>4. /\ DOMAIN call' = Clients /\ \A d \in Clients : call'[d] # Unset => call'[d] \in Calls(d)
      /\ CallInv' /\ SweptInv'
  BY Zenon, <1>1, <1>2, <1>3, Steady
<1>5. TurnInv'
  BY Zenon, <1>1, <1>3, Turns
<1>6. task' \in [Clients -> {"ready", "waiting", "closed"}]
  BY Zenon, <1>1 DEF HubInv, HubTypeOK
<1>7. HubTypeOK'
  BY Zenon, <1>1, <1>4, <1>6 DEF HubInv, HubTypeOK
<1>8. Refines
  <2>1. Connections' = Connections /\ Members' = Members /\ Streams' = Streams
    BY Zenon, <1>1, StillConnected
  <2>2. /\ Asking' = [Asking EXCEPT ![c] = Unset] /\ Reached' = [Reached EXCEPT ![c] = {}]
        /\ Answers' = [Answers EXCEPT ![c] = Unset]
    BY Zenon, <1>1, CommandChange DEF RequestIn, ReachedIn, AnswerIn
  <2>3. Answers[c] # Unset
    <3>1. call[c] # Unset /\ call[c].at = "done" /\ call[c] \in Calls(c)
      BY Zenon, <1>1 DEF At, HubInv, HubTypeOK
    <3>2. Answers[c] = call[c].count /\ call[c].count \in Nat
      BY Zenon, <3>1, Known, Asked DEF AnswerIn
    <3> QED
      BY Zenon, <3>2, UnsetAssumption
  <2>4. ADT!Forget(c)
    BY Zenon, <2>1, <2>2, <2>3 DEF ADT!Forget
  <2> QED
    BY Zenon, <2>4, Acts
<1> QED
  BY Zenon, <1>4, <1>5, <1>7, <1>8 DEF HubInv

\* A connection ends (server.rs:235).
LEMMA CloseHub ==
    ASSUME HubInv, NEW c \in Clients, Close(c)
    PROVE  HubInv' /\ Refines
<1>1. PICK k : k = IF At(c, "done") THEN Unset ELSE call[c]
  BY Zenon
<1>2. /\ call' = [call EXCEPT ![c] = k] /\ task' = [task EXCEPT ![c] = "closed"]
      /\ subscribers' = subscribers /\ pending' = pending /\ rx' = [rx EXCEPT ![c] = << >>]
      /\ budget' = budget /\ written' = written /\ swept' = swept
  BY Zenon, <1>1 DEF Close
<1>3. StaysClosed(task, task')
  BY <1>2 DEF StaysClosed, HubInv, HubTypeOK
<1>4. /\ k = Unset \/ k = call[c]
      /\ k = call[c] \/ ~(At(c, "send") \/ At(c, "clean"))
      /\ k = call[c] \/ ~At(c, "queued")
      /\ k # Unset => k.at # "done"
  BY Zenon, <1>1 DEF At
<1>5. ASSUME k # Unset PROVE k \in Calls(c) /\ Progress(k) /\ Effect(subscribers, task', c, k)
  <2>1. k \in Calls(c) /\ Progress(k) /\ Effect(subscribers, task, c, k)
    BY Zenon, <1>4, <1>5 DEF HubInv, HubTypeOK, CallInv
  <2> QED
    BY Zenon, <1>3, <2>1, Later
<1>6. /\ DOMAIN call' = Clients /\ \A d \in Clients : call'[d] # Unset => call'[d] \in Calls(d)
      /\ CallInv' /\ SweptInv'
  BY Zenon, <1>2, <1>3, <1>4, <1>5, Steady
<1>7. TurnInv'
  BY Zenon, <1>2, <1>4, Turns
<1>8. task' \in [Clients -> {"ready", "waiting", "closed"}]
  BY Zenon, <1>2 DEF HubInv, HubTypeOK
<1>9. DOMAIN rx' = Clients /\ \A d \in Clients : rx'[d] \in Seq(Messages)
  <2>1. << >> \in Seq(Messages)
    OBVIOUS
  <2> QED
    BY Zenon, <1>2, <2>1 DEF HubInv, HubTypeOK
<1>10. HubTypeOK'
  BY Zenon, <1>2, <1>6, <1>8, <1>9 DEF HubInv, HubTypeOK
<1>11. Refines
  <2>1. task'[c] = "closed" /\ task[c] # "closed" /\ \A d \in Clients : d # c => task'[d] = task[d]
    BY Zenon, <1>2 DEF Close, HubInv, HubTypeOK
  <2>2. ~Connected(c)' /\ Connected(c) /\ \A d \in Clients : d # c => Connected(d)' = Connected(d)
    BY Zenon, <2>1 DEF Connected
  <2>3. Connections[c] /\ Connections' = [Connections EXCEPT ![c] = FALSE]
    <3>1. ASSUME NEW d \in Clients PROVE Connected(d)' = IF d = c THEN FALSE ELSE Connected(d)
      <4>1. CASE d = c
        BY Zenon, <2>1, <4>1 DEF Connected
      <4>2. CASE d # c
        BY Zenon, <2>2, <4>2
      <4> QED
        BY Zenon, <4>1, <4>2
    <3>2. Connections[c] /\ DOMAIN Connections = Clients /\ \A d \in Clients : Connections[d] = Connected(d)
      BY Zenon, <2>2 DEF Connections
    <3>3. Connections' = [d \in Clients |-> Connected(d)']
      BY Zenon DEF Connections
    <3>4. [Connections EXCEPT ![c] = FALSE] = [d \in Clients |-> IF d = c THEN FALSE ELSE Connected(d)]
      BY Zenon, <3>2
    <3> QED
      BY Zenon, <3>1, <3>2, <3>3, <3>4
  <2>4. Members' = [ch \in Channels |-> Members[ch] \ {c}]
    BY Zenon, <1>2, <2>2 DEF Members
  <2>5. Streams' = [Streams EXCEPT ![c] = << >>]
    <3>1. \A d \in Clients : d # c => rx'[d] = rx[d]
      BY Zenon, <1>2 DEF HubInv, HubTypeOK
    <3>2. Streams' = [d \in Clients |-> IF Connected(d)' THEN written'[d] \o rx'[d] ELSE << >>]
      BY Zenon DEF Streams
    <3>3. ASSUME NEW d \in Clients
          PROVE  (IF Connected(d)' THEN written'[d] \o rx'[d] ELSE << >>) = IF d = c THEN << >> ELSE Streams[d]
      <4>1. CASE d = c
        BY Zenon, <2>2, <4>1
      <4>2. CASE d # c
        <5>1. Streams[d] = IF Connected(d) THEN written[d] \o rx[d] ELSE << >>
          BY Zenon DEF Streams
        <5> QED
          BY Zenon, <1>2, <2>2, <3>1, <4>2, <5>1
      <4> QED
        BY Zenon, <4>1, <4>2
    <3>4. DOMAIN Streams = Clients
      BY Zenon DEF Streams
    <3> HIDE DEF Streams
    <3>5. [Streams EXCEPT ![c] = << >>] = [d \in Clients |-> IF d = c THEN << >> ELSE Streams[d]]
      BY Zenon, <3>4
    <3> QED
      BY Zenon, <3>2, <3>3, <3>5
  <2>6. /\ Asking' = [Asking EXCEPT ![c] = RequestIn(k)]
        /\ Reached' = [Reached EXCEPT ![c] = ReachedIn(k)]
        /\ Answers' = [Answers EXCEPT ![c] = AnswerIn(k)]
    BY Zenon, <1>2, CommandChange
  <2>7. AnswerIn(k) = Unset
    BY Zenon, <1>4 DEF AnswerIn
  <2>8. /\ RequestIn(k) = IF Answers[c] = Unset THEN Asking[c] ELSE Unset
        /\ ReachedIn(k) = IF Answers[c] = Unset THEN Reached[c] ELSE {}
    <3>1. CASE At(c, "done")
      <4>1. call[c] # Unset /\ call[c].at = "done" /\ call[c] \in Calls(c) /\ k = Unset
        BY Zenon, <1>1, <3>1 DEF At, HubInv, HubTypeOK
      <4>2. Answers[c] = call[c].count /\ call[c].count \in Nat
        BY Zenon, <4>1, Known, Asked DEF AnswerIn
      <4>3. Answers[c] # Unset
        BY Zenon, <4>2, UnsetAssumption
      <4> QED
        BY Zenon, <4>1, <4>3 DEF RequestIn, ReachedIn
    <3>2. CASE ~At(c, "done")
      <4>1. k = call[c]
        BY Zenon, <1>1, <3>2
      <4> QED
        BY Zenon, <2>7, <4>1, Known
    <3> QED
      BY Zenon, <3>1, <3>2
  <2>9. ADT!Disconnect(c)
    BY Zenon, <2>3, <2>4, <2>5, <2>6, <2>7, <2>8 DEF ADT!Disconnect
  <2> QED
    BY Zenon, <2>9, Acts
<1> QED
  BY Zenon, <1>6, <1>7, <1>10, <1>11 DEF HubInv

\* A message is written (server.rs:226-229, 239-242).
LEMMA ReceiveHub ==
    ASSUME HubInv, NEW c \in Clients, Receive(c)
    PROVE  HubInv' /\ Refines
<1>1. /\ call' = call /\ task' = task /\ subscribers' = subscribers /\ pending' = pending
      /\ budget' = budget /\ swept' = swept /\ rx[c] # << >>
      /\ rx' = [rx EXCEPT ![c] = Tail(rx[c])] /\ written' = [written EXCEPT ![c] = Append(written[c], Head(rx[c]))]
  BY Zenon DEF Receive
<1>2. DOMAIN rx = Clients /\ DOMAIN written = Clients /\ rx[c] \in Seq(Messages) /\ written[c] \in Seq(Messages)
  BY Zenon DEF HubInv, HubTypeOK
<1>3. Tail(rx[c]) \in Seq(Messages) /\ Append(written[c], Head(rx[c])) \in Seq(Messages)
  BY <1>1, <1>2
<1>4. ASSUME NEW d \in Clients PROVE rx'[d] \in Seq(Messages) /\ written'[d] \in Seq(Messages)
  BY Zenon, <1>1, <1>2, <1>3 DEF HubInv, HubTypeOK
<1>5. DOMAIN rx' = Clients /\ DOMAIN written' = Clients
  BY Zenon, <1>1, <1>2
<1>6. HubTypeOK'
  BY Zenon, <1>1, <1>4, <1>5 DEF HubInv, HubTypeOK
<1>7. TurnInv'
  BY Zenon, <1>1 DEF HubInv, TurnInv, Running, At
<1>8. CallInv'
  BY Zenon, <1>1 DEF HubInv, CallInv
<1>9. SweptInv'
  BY Zenon, <1>1 DEF HubInv, SweptInv, Found, At
<1>10. Refines
  <2>1. Connections' = Connections /\ Members' = Members
    BY Zenon, <1>1, SameConnections
  <2>2. Asking' = Asking /\ Reached' = Reached /\ Answers' = Answers
    BY Zenon, <1>1 DEF Asking, Reached, Answers, At
  <2>3. written'[c] \o rx'[c] = written[c] \o rx[c]
    <3>1. written'[c] = Append(written[c], Head(rx[c])) /\ rx'[c] = Tail(rx[c])
      BY Zenon, <1>1, <1>2
    <3> QED
      BY Zenon, <1>1, <1>2, <3>1, Shifted
  <2>4. \A d \in Clients : written'[d] \o rx'[d] = written[d] \o rx[d]
    BY Zenon, <1>1, <1>2, <2>3
  <2>5. Streams' = Streams
    BY Zenon, <1>1, <2>4 DEF Streams, Connected
  <2> QED
    BY Zenon, <2>1, <2>2, <2>5, Rests
<1> QED
  BY Zenon, <1>6, <1>7, <1>8, <1>9, <1>10 DEF HubInv

\* The pool takes up a command (thread_pool.rs:21-22).
LEMMA StartHub ==
    ASSUME HubInv, NEW c \in Clients, Start(c)
    PROVE  HubInv' /\ Refines
<1>1. /\ pending' \in Seq(Clients) /\ 1 \in 1..Len(pending) /\ c = pending[1]
      /\ \A i \in 1..Len(pending') : pending'[i] = pending[i + 1] /\ i + 1 \in 1..Len(pending) /\ i + 1 # 1
      /\ \A i \in 1..Len(pending) : pending[i] \in Clients
  <2>1. PICK s \in Seq(Clients) : s = pending
    BY Zenon DEF HubInv, HubTypeOK
  <2>2. s # << >> /\ pending' = Tail(s) /\ c = Head(s)
    BY Zenon, <2>1 DEF Start
  <2>3. /\ Tail(s) \in Seq(Clients) /\ 1 \in 1..Len(s) /\ c = s[1] /\ Len(Tail(s)) = Len(s) - 1
        /\ \A i \in 1..Len(s) : s[i] \in Clients
    BY <2>2
  <2>4. ASSUME NEW i \in 1..Len(Tail(s)) PROVE Tail(s)[i] = s[i + 1] /\ i + 1 \in 1..Len(s) /\ i + 1 # 1
    BY <2>2, <2>3
  <2> QED
    BY Zenon, <2>1, <2>2, <2>3, <2>4
<1>2. PICK j \in Calls(c) : /\ j = call[c] /\ j.at = "queued" /\ Progress(j)
                            /\ Effect(subscribers, task, c, j)
  BY Zenon, <1>1 DEF HubInv, TurnInv, CallInv, HubTypeOK, At
<1>3. PICK a : a = FirstStep(j.request.op)
  BY Zenon
<1>4. a \in StepsOf(j.request.op) /\ a \in {"entry", "get", "retain"} /\ (a = "get" <=> j.request.op = "publish")
  BY Zenon, <1>3, Asked DEF FirstStep, StepsOf
<1>5. PICK k : k = [j EXCEPT !.at = a]
  BY Zenon
<1>6. /\ call' = [call EXCEPT ![c] = k] /\ task' = task /\ subscribers' = subscribers
      /\ rx' = rx /\ budget' = budget /\ written' = written /\ swept' = swept
      /\ \A d \in Clients : ~Running(d)
  BY Zenon, <1>2, <1>3, <1>5 DEF Start
<1>7. /\ k \in Calls(c) /\ k.at = a /\ k.left = j.left /\ k.request = j.request
      /\ k.togo = j.togo /\ k.dead = j.dead /\ k.count = j.count /\ k.reached = j.reached
  BY Zenon, <1>4, <1>5 DEF Calls, Steps
<1>8. Progress(k)
  BY Zenon, <1>2, <1>4, <1>7 DEF Progress
<1>9. Effect(subscribers, task', c, k)
  <2>1. j.left = j.request.args /\ j.dead = {}
    BY Zenon, <1>2 DEF Progress
  <2> QED
    BY Zenon, <1>4, <1>6, <1>7, <2>1 DEF Effect
<1>10. ~At(c, "send") /\ ~At(c, "clean") /\ StaysClosed(task, task')
  BY Zenon, <1>2, <1>6 DEF At, StaysClosed
<1>11. /\ DOMAIN call' = Clients /\ \A d \in Clients : call'[d] # Unset => call'[d] \in Calls(d)
       /\ CallInv' /\ SweptInv'
  BY Zenon, <1>6, <1>7, <1>8, <1>9, <1>10, Steady
<1>12. /\ call'[c] = k /\ k # Unset /\ call[c] # Unset /\ \A d \in Clients : d # c => call'[d] = call[d]
  BY Zenon, <1>2, <1>6, <1>7, Asked DEF HubInv, HubTypeOK
<1>13. TurnInv'
  <2>1. \A d \in Clients : Running(d)' => d = c
    BY Zenon, <1>6, <1>12 DEF Running
  <2>2. \A i \in 1..Len(pending) : pending[i] \in Clients /\ At(pending[i], "queued")
    BY Zenon, <1>1 DEF HubInv, TurnInv
  <2>3. \A i, l \in 1..Len(pending) : pending[i] = pending[l] => i = l
    BY Zenon DEF HubInv, TurnInv
  <2>4. ASSUME NEW i \in 1..Len(pending') PROVE call'[pending'[i]] # Unset /\ call'[pending'[i]].at = "queued"
    <3>1. PICK d \in Clients : d = pending'[i] /\ d # c /\ At(d, "queued")
      BY Zenon, <1>1, <2>2, <2>3
    <3> QED
      BY Zenon, <1>12, <3>1 DEF At
  <2>5. \A i, l \in 1..Len(pending') : pending'[i] = pending'[l] => i = l
    <3>1. ASSUME NEW i \in 1..Len(pending'), NEW l \in 1..Len(pending'), pending'[i] = pending'[l]
          PROVE  i = l
      <4>1. i + 1 = l + 1
        BY Zenon, <1>1, <2>3, <3>1
      <4> QED
        BY <4>1
    <3> QED
      BY Zenon, <3>1
  <2>6. ASSUME NEW d \in Clients
        PROVE  (task[d] = "ready" => call'[d] = Unset) /\ (At(d, "done")' => task[d] = "waiting")
    <3>1. CASE d = c
      <4>1. ~At(c, "done")' /\ task[c] # "ready"
        BY Zenon, <1>4, <1>7, <1>12 DEF At, HubInv, TurnInv
      <4> QED
        BY Zenon, <3>1, <4>1
    <3>2. CASE d # c
      BY Zenon, <1>12, <3>2 DEF At, HubInv, TurnInv
    <3> QED
      BY Zenon, <3>1, <3>2
  <2> QED
    BY Zenon, <1>6, <2>1, <2>4, <2>5, <2>6 DEF TurnInv, At
<1>14. HubTypeOK'
  BY Zenon, <1>1, <1>6, <1>11 DEF HubInv, HubTypeOK
<1>15. Refines
  <2>1. Connections' = Connections /\ Streams' = Streams /\ Members' = Members
    BY Zenon, <1>6, SameConnections
  <2>2. k.at # "done" /\ j.at # "done"
    BY Zenon, <1>2, <1>4, <1>7
  <2>3. Asking' = Asking /\ Answers' = Answers /\ Reached' = Reached
    BY Zenon, <1>2, <1>6, <1>7, <2>2, SameCommand
  <2> QED
    BY Zenon, <2>1, <2>3, Rests
<1> QED
  BY Zenon, <1>11, <1>13, <1>14, <1>15 DEF HubInv

\* What the proofs need of Cardinality.
Counting ==
    /\ Cardinality({}) = 0
    /\ \A S \in SUBSET Channels : Cardinality(S) \in Nat
    /\ \A S \in SUBSET Clients, d \in Clients :
          d \notin S => Cardinality(S \cup {d}) = Cardinality(S) + 1

\* A command is handed to the pool (server.rs:213).
LEMMA IssueHub ==
    ASSUME Counting, HubInv, NEW c \in Clients, NEW r \in Requests[c], Issue(c, r)
    PROVE  HubInv' /\ Refines
<1>1. PICK k : k = NewCall(r)
  BY Zenon
<1>2. /\ call' = [call EXCEPT ![c] = k] /\ task' = [task EXCEPT ![c] = "waiting"]
      /\ pending' = Append(pending, c) /\ subscribers' = subscribers /\ rx' = rx
      /\ written' = written /\ swept' = swept /\ task[c] = "ready"
      /\ budget[c] > 0 /\ budget' = [budget EXCEPT ![c] = budget[c] - 1]
  BY Zenon, <1>1 DEF Issue
<1>3. call[c] = Unset /\ ~At(c, "send") /\ ~At(c, "clean") /\ ~At(c, "queued") /\ ~Running(c)
  BY Zenon, <1>2 DEF HubInv, TurnInv, At, Running
<1>4. StaysClosed(task, task')
  BY <1>2 DEF StaysClosed, HubInv, HubTypeOK
<1>5. /\ k.request = r /\ k.left = r.args /\ k.at = "queued" /\ k.togo = Nobody
      /\ k.dead = {} /\ k.count = 0 /\ k.reached = {}
  BY Zenon, <1>1 DEF NewCall
<1>6. k \in Calls(c) /\ r.op \in {"subscribe", "unsubscribe", "unsubscribeAll", "publish"} /\ r.args # << >>
  <2>1. /\ r \in [op : {"subscribe", "unsubscribe", "unsubscribeAll", "publish"},
                  args : Seq(Channels), msg : Nat]
        /\ r.args # << >>
    BY Zenon, PubSubAssumption
  <2>2. /\ r.op \in {"subscribe", "unsubscribe", "unsubscribeAll", "publish"}
        /\ r.args \in Seq(Channels)
    BY Zenon, <2>1
  <2> QED
    BY Zenon, <1>1, <2>1, <2>2, NobodyType DEF NewCall, Calls, Steps
<1>7. Progress(k)
  <2>1. Cardinality({}) = 0
    BY Zenon DEF Counting
  <2>2. k.at \in StepsOf(r.op)
    BY Zenon, <1>5, <1>6 DEF StepsOf
  <2> QED
    BY Zenon, <1>5, <1>6, <2>1, <2>2 DEF Progress
<1>8. Effect(subscribers, task', c, k)
  BY Zenon, <1>5 DEF Effect
<1>9. /\ DOMAIN call' = Clients /\ \A d \in Clients : call'[d] # Unset => call'[d] \in Calls(d)
      /\ CallInv' /\ SweptInv'
  BY Zenon, <1>2, <1>3, <1>4, <1>6, <1>7, <1>8, Steady
<1>10. /\ call'[c] = k /\ k # Unset /\ task'[c] = "waiting"
       /\ \A d \in Clients : d # c => call'[d] = call[d] /\ task'[d] = task[d]
  BY Zenon, <1>2, <1>6, Asked DEF HubInv, HubTypeOK
<1>11. TurnInv'
  <2>1. \A d \in Clients : Running(d)' => Running(d)
    BY Zenon, <1>5, <1>10 DEF Running
  <2>2. /\ pending \in Seq(Clients) /\ pending' \in Seq(Clients) /\ Len(pending') = Len(pending) + 1
        /\ pending'[Len(pending) + 1] = c /\ \A i \in 1..Len(pending) : pending'[i] = pending[i]
    BY <1>2 DEF HubInv, HubTypeOK
  <2>3. \A i \in 1..Len(pending) : pending[i] \in Clients /\ pending[i] # c /\ At(pending[i], "queued")
    BY <1>3, <2>2 DEF HubInv, TurnInv
  <2>4. \A i \in 1..Len(pending) : call'[pending[i]] # Unset /\ call'[pending[i]].at = "queued"
    BY Zenon, <1>10, <2>3 DEF At
  <2>5. \A i \in 1..Len(pending') : i \in 1..Len(pending) \/ i = Len(pending) + 1
    BY <2>2
  <2>6. \A i \in 1..Len(pending') : call'[pending'[i]] # Unset /\ call'[pending'[i]].at = "queued"
    BY Zenon, <1>5, <1>10, <2>2, <2>4, <2>5
  <2>7. \A i, l \in 1..Len(pending) : pending[i] = pending[l] => i = l
    BY Zenon DEF HubInv, TurnInv
  <2>8. \A i, l \in 1..Len(pending') : pending'[i] = pending'[l] => i = l
    BY <2>2, <2>3, <2>7
  <2>9. ASSUME NEW d \in Clients
        PROVE  (task'[d] = "ready" => call'[d] = Unset) /\ (At(d, "done")' => task'[d] = "waiting")
    <3>1. CASE d = c
      BY Zenon, <1>5, <1>10, <3>1 DEF At
    <3>2. CASE d # c
      BY Zenon, <1>10, <3>2 DEF At, HubInv, TurnInv
    <3> QED
      BY Zenon, <3>1, <3>2
  <2>10. \A d, e \in Clients : Running(d)' /\ Running(e)' => d = e
    BY Zenon, <2>1 DEF HubInv, TurnInv
  <2> QED
    BY Zenon, <2>6, <2>8, <2>9, <2>10 DEF TurnInv, At
<1>12. /\ task' \in [Clients -> {"ready", "waiting", "closed"}] /\ pending' \in Seq(Clients)
       /\ budget' \in [Clients -> Nat]
  BY <1>2 DEF HubInv, HubTypeOK
<1>13. HubTypeOK'
  BY Zenon, <1>2, <1>9, <1>12 DEF HubInv, HubTypeOK
<1>14. Refines
  <2>1. Connections' = Connections /\ Members' = Members /\ Streams' = Streams
    BY Zenon, <1>2, StillConnected
  <2>2. /\ Asking' = [Asking EXCEPT ![c] = r] /\ Reached' = [Reached EXCEPT ![c] = {}]
        /\ Answers' = [Answers EXCEPT ![c] = Unset]
    <3>1. RequestIn(k) = r /\ ReachedIn(k) = {} /\ AnswerIn(k) = Unset
      BY Zenon, <1>5, <1>10 DEF RequestIn, ReachedIn, AnswerIn
    <3>2. /\ Asking' = [Asking EXCEPT ![c] = RequestIn(k)]
          /\ Reached' = [Reached EXCEPT ![c] = ReachedIn(k)]
          /\ Answers' = [Answers EXCEPT ![c] = AnswerIn(k)]
      BY Zenon, <1>2, CommandChange
    <3> QED
      BY Zenon, <3>1, <3>2
  <2>3. Asking[c] = Unset /\ Reached[c] = {} /\ Answers[c] = Unset
    BY Zenon, <1>3, Known DEF RequestIn, ReachedIn, AnswerIn
  <2>4. DOMAIN Asking = Clients /\ DOMAIN Reached = Clients /\ DOMAIN Answers = Clients
    BY Zenon DEF Asking, Reached, Answers
  <2>5. Reached' = Reached /\ Answers' = Answers /\ Asking'[c] = r
    <3>1. Reached = [d \in Clients |-> Reached[d]] /\ Answers = [d \in Clients |-> Answers[d]]
      BY Zenon DEF Reached, Answers
    <3>2. Reached' = Reached
      BY Zenon, <2>2, <2>3, <3>1, SameAt
    <3>3. Answers' = Answers
      BY Zenon, <2>2, <2>3, <3>1, SameAt
    <3> QED
      BY Zenon, <2>2, <2>4, <3>2, <3>3
  <2>6. Connections[c]
    BY Zenon, <1>2 DEF Connections, Connected
  <2>7. ADT!Ask(c)
    BY Zenon, <2>1, <2>2, <2>3, <2>5, <2>6 DEF ADT!Ask
  <2> QED
    BY Zenon, <2>7, Acts
<1> QED
  BY Zenon, <1>9, <1>11, <1>13, <1>14 DEF HubInv

\* The answer of a command (pubsub.rs:114, 118-123)
LEMMA CountHub ==
    ASSUME Counting, HubInv, NEW c \in Clients, Count(c)
    PROVE  HubInv' /\ Refines
<1>1. PICK j \in Calls(c) : /\ j = call[c] /\ j.at = "count" /\ Running(c) /\ Progress(j)
                            /\ Effect(subscribers, task, c, j)
  BY Zenon, Current DEF Count
<1>2. PICK n : n = IF j.request.op = "publish" THEN j.count
                   ELSE Cardinality({ch \in Channels : subscribers[ch][c] > 0})
  BY Zenon
<1>3. PICK full : full = [j EXCEPT !.at = "done", !.count = n]
  BY Zenon
<1>4. PICK k : k = IF task[c] = "closed" THEN Unset ELSE full
  BY Zenon
<1>5. /\ call' = [call EXCEPT ![c] = k] /\ task' = task
      /\ subscribers' = subscribers /\ pending' = pending /\ rx' = rx
      /\ budget' = budget /\ written' = written /\ swept' = swept
  BY Zenon, <1>1, <1>2, <1>3, <1>4 DEF Count
<1>6. StaysClosed(task, task')
  BY Zenon, <1>5 DEF StaysClosed
<1>7. ~At(c, "send") /\ ~At(c, "clean") /\ ~At(c, "queued") /\ call[c] # Unset
  BY Zenon, <1>1, Asked DEF At
<1>8. n \in Nat
  <2>1. {ch \in Channels : subscribers[ch][c] > 0} \in SUBSET Channels
    BY Zenon
  <2>2. Cardinality({ch \in Channels : subscribers[ch][c] > 0}) \in Nat /\ j.count \in Nat
    BY Zenon, <2>1, Asked DEF Counting
  <2> QED
    BY Zenon, <1>2, <2>2
<1>9. /\ full \in Calls(c) /\ full.at = "done" /\ full.left = j.left /\ full.request = j.request
      /\ full.togo = j.togo /\ full.dead = j.dead /\ full.count = n /\ full.reached = j.reached
  BY Zenon, <1>3, <1>8 DEF Calls, Steps
<1>10. Progress(full) /\ Effect(subscribers, task', c, full)
  <2>1. Progress(full)
    BY Zenon, <1>1, <1>2, <1>9 DEF Progress, StepsOf
  <2>2. Effect(subscribers, task', c, full)
    BY Zenon, <1>1, <1>5, <1>9 DEF Effect
  <2> QED
    BY Zenon, <2>1, <2>2
<1>11. k # Unset => k = full /\ task[c] = "waiting"
  BY Zenon, <1>4, <1>7 DEF HubInv, TurnInv, HubTypeOK
<1>12. /\ DOMAIN call' = Clients /\ \A d \in Clients : call'[d] # Unset => call'[d] \in Calls(d)
       /\ CallInv' /\ SweptInv'
  BY Zenon, <1>5, <1>6, <1>7, <1>9, <1>10, <1>11, Steady
<1>13. TurnInv'
  <2>1. task' = [task EXCEPT ![c] = task[c]]
    BY Zenon, <1>5 DEF HubInv, HubTypeOK
  <2>2. task[c] = "ready" => k = Unset
    BY Zenon, <1>11
  <2>3. (k = Unset \/ k.at = "done") /\ (k # Unset => task[c] = "waiting")
    BY Zenon, <1>9, <1>11
  <2> QED
    BY Zenon, <1>5, <1>7, <2>1, <2>2, <2>3, Turns
<1>14. HubTypeOK'
  BY Zenon, <1>5, <1>12 DEF HubInv, HubTypeOK
<1>15. Refines
  <2>1. Connections' = Connections /\ Members' = Members /\ Streams' = Streams
    BY Zenon, <1>5, SameConnections
  <2>2. /\ Asking' = [Asking EXCEPT ![c] = RequestIn(k)]
        /\ Reached' = [Reached EXCEPT ![c] = ReachedIn(k)]
        /\ Answers' = [Answers EXCEPT ![c] = AnswerIn(k)]
    BY Zenon, <1>5, CommandChange
  <2>3. CASE task[c] = "closed"
    <3>1. RequestIn(k) = Unset /\ ReachedIn(k) = {} /\ AnswerIn(k) = Unset
      BY Zenon, <1>4, <2>3 DEF RequestIn, ReachedIn, AnswerIn
    <3>2. ~Connections[c]
      BY Zenon, <2>3 DEF Connections, Connected
    <3>3. ADT!Forget(c)
      BY Zenon, <2>1, <2>2, <3>1, <3>2 DEF ADT!Forget
    <3> QED
      BY Zenon, <3>3, Acts
  <2>4. CASE task[c] # "closed"
    <3>1. k = full /\ k # Unset
      BY Zenon, <1>4, <1>9, <2>4, Asked
    <3>2. RequestIn(k) = j.request /\ ReachedIn(k) = j.reached /\ AnswerIn(k) = n
      BY Zenon, <1>9, <3>1 DEF RequestIn, ReachedIn, AnswerIn
    <3>3. Asking[c] = j.request /\ Reached[c] = j.reached /\ Answers[c] = Unset /\ Connections[c]
      <4>1. j # Unset /\ j.at # "done"
        BY Zenon, <1>1, Asked
      <4>2. Asking[c] = j.request /\ Reached[c] = j.reached /\ Answers[c] = Unset
        BY Zenon, <1>1, <4>1, Known DEF RequestIn, ReachedIn, AnswerIn
      <4>3. Connections[c]
        BY Zenon, <2>4 DEF Connections, Connected
      <4> QED
        BY Zenon, <4>2, <4>3
    <3>4. Asking' = Asking /\ Reached' = Reached
      <4>1. Asking = [d \in Clients |-> Asking[d]] /\ Reached = [d \in Clients |-> Reached[d]]
        BY Zenon DEF Asking, Reached
      <4>2. Asking' = Asking
        BY Zenon, <2>2, <3>2, <3>3, <4>1, SameAt
      <4>3. Reached' = Reached
        BY Zenon, <2>2, <3>2, <3>3, <4>1, SameAt
      <4> QED
        BY Zenon, <4>2, <4>3
    <3>5. /\ \A o : ADT!Asks(c, o) <=> j.request.op = o
          /\ ADT!Named(c) = Elements(j.request.args)
      BY Zenon, <1>1, AskedFor
    <3>6. \A x \in Elements(j.request.args) : x \in Channels /\ (c \in Members[x] <=> subscribers[x][c] > 0)
      <4>1. \A x \in Elements(j.request.args) : x \in Channels
        BY Asked DEF Elements
      <4> QED
        BY Zenon, <2>4, <4>1 DEF Members, Connected
    <3>7. j.request.op # "publish" => Elements(j.left) = {}
      BY <1>1 DEF Progress, Elements
    <3>8. ADT!Asks(c, "subscribe") => \A x \in ADT!Named(c) : c \in Members[x]
      <4>1. j.request.op = "subscribe" => \A x \in Elements(j.request.args) : x \in Elements(j.left) \/ subscribers[x][c] > 0
        BY Zenon, <1>1 DEF Effect
      <4> QED
        BY Zenon, <3>5, <3>6, <3>7, <4>1
    <3>9. ADT!Leaves(c) => \A x \in ADT!Named(c) : c \notin Members[x]
      <4>1. j.request.op \in Leaving => \A x \in Elements(j.request.args) : x \in Elements(j.left) \/ subscribers[x][c] = 0
        BY Zenon, <1>1 DEF Effect, Leaving
      <4> QED
        BY <3>5, <3>6, <3>7, <4>1 DEF ADT!Leaves, Leaving
    <3>10. ADT!Asks(c, "publish") => Members[ADT!Topic(c)] \subseteq Reached[c]
      <4>1. SUFFICES ASSUME j.request.op = "publish" PROVE Members[j.request.args[1]] \subseteq j.reached
        BY Zenon, <3>3, <3>5 DEF ADT!Topic
      <4>2. j.togo = Nobody
        BY Zenon, <1>1 DEF Progress
      <4>3. \A d \in Clients : subscribers[j.request.args[1]][d] > 0 => d \in j.reached \/ task[d] = "closed"
        BY <1>1, <4>1, <4>2, NobodyType DEF Effect
      <4>4. j.request.args[1] \in Channels
        BY <4>1, Asked
      <4> QED
        BY Zenon, <4>3, <4>4 DEF Members, Connected
    <3>11. n = IF ADT!Asks(c, "publish") THEN ADT!Cardinality(Reached[c]) ELSE ADT!Memberships(c)
      <4>1. j.request.op = "publish" => n = Cardinality(j.reached)
        BY Zenon, <1>1, <1>2 DEF Progress
      <4>2. j.request.op # "publish" => n = Cardinality({ch \in Channels : subscribers[ch][c] > 0})
        BY Zenon, <1>2
      <4>3. {ch \in Channels : subscribers[ch][c] > 0} = {ch \in Channels : c \in Members[ch]}
        BY Zenon, <2>4 DEF Members, Connected
      <4>4. ADT!Asks(c, "publish") <=> j.request.op = "publish"
        BY Zenon, <3>5
      <4>5. ADT!Memberships(c) = Cardinality({ch \in Channels : c \in Members[ch]})
        BY Zenon, HubSameCard DEF ADT!Memberships
      <4>6. ADT!Cardinality(Reached[c]) = Cardinality(j.reached)
        BY Zenon, <3>3, HubSameCard
      <4> QED
        BY Zenon, <4>1, <4>2, <4>3, <4>4, <4>5, <4>6
    <3>12. ADT!Finish(c)
      BY Zenon, <2>1, <2>2, <3>2, <3>3, <3>4, <3>8, <3>9, <3>10, <3>11 DEF ADT!Finish
    <3> QED
      BY Zenon, <3>12, Acts
  <2> QED
    BY Zenon, <2>3, <2>4
<1> QED
  BY Zenon, <1>12, <1>13, <1>14, <1>15 DEF HubInv

\* The message is sent to one subscriber (pubsub.rs:98-102).
LEMMA SendHub ==
    ASSUME Counting, HubInv, NEW c \in Clients, NEW d \in Clients, SendTo(c, d)
    PROVE  HubInv' /\ Refines
<1>1. PICK j \in Calls(c) : /\ j = call[c] /\ j.at = "send" /\ Running(c) /\ Progress(j)
                            /\ Effect(subscribers, task, c, j)
  BY Zenon, Current DEF SendTo
<1>2. /\ j.request.op = "publish" /\ j.left = j.request.args /\ j.left # << >>
      /\ j.togo \in [Clients -> 0..1] /\ j.request \in Messages
  <2>1. j.togo \in [Clients -> 0..1] /\ j.request \in Requests[c]
    BY Zenon, Asked
  <2>2. j.request \in Messages
    BY Zenon, <2>1 DEF Messages
  <2>3. j.at \in {"get", "send", "clean"}
    BY Zenon, <1>1
  <2> QED
    BY Zenon, <1>1, <2>1, <2>2, <2>3, Topical
<1>3. PICK ch \in Channels : ch = Head(j.left) /\ ch = j.request.args[1]
  BY Zenon, <1>1, Topical
<1>4. PICK togo : togo = [j.togo EXCEPT ![d] = j.togo[d] - 1]
  BY Zenon
<1>5. /\ j.togo[d] > 0 /\ togo \in [Clients -> 0..1] /\ togo[d] = 0
      /\ \A e \in Clients : e # d => togo[e] = j.togo[e]
  <2>1. j.togo[d] > 0
    BY Zenon, <1>1 DEF SendTo
  <2> QED
    BY <1>2, <1>4, <2>1
<1>6. PICK dead : dead = IF task[d] = "closed" THEN j.dead \cup {d} ELSE j.dead
  BY Zenon
<1>7. PICK n : n = IF task[d] = "closed" THEN j.count ELSE j.count + 1
  BY Zenon
<1>8. PICK r : r = IF task[d] = "closed" THEN j.reached ELSE j.reached \cup {d}
  BY Zenon
<1>9. PICK a : a = IF togo # Nobody THEN "send" ELSE IF dead = {} THEN "count" ELSE "clean"
  BY Zenon
<1>10. PICK k : k = [j EXCEPT !.at = a, !.togo = togo, !.dead = dead, !.count = n, !.reached = r]
  BY Zenon
<1>11. call' = [call EXCEPT ![c] = k]
  BY Zenon, <1>1, <1>4, <1>6, <1>7, <1>8, <1>9, <1>10 DEF SendTo
<1>12. /\ subscribers' = subscribers /\ pending' = pending /\ task' = task /\ budget' = budget
       /\ written' = written /\ swept' = swept
       /\ rx' = IF task[d] = "closed" THEN rx ELSE [rx EXCEPT ![d] = Append(rx[d], j.request)]
  BY Zenon, <1>1 DEF SendTo
<1>13. /\ dead \subseteq Clients /\ n \in Nat /\ r \subseteq Clients /\ a \in {"send", "count", "clean"}
       /\ j.dead \subseteq dead /\ j.reached \subseteq r
  BY <1>6, <1>7, <1>8, <1>9, Asked
<1>14. /\ k \in Calls(c) /\ k.at = a /\ k.left = j.left /\ k.request = j.request
       /\ k.togo = togo /\ k.dead = dead /\ k.count = n /\ k.reached = r
  BY Zenon, <1>5, <1>10, <1>13 DEF Calls, Steps
<1>15. d \notin j.reached /\ subscribers[ch][d] > 0
  BY Zenon, <1>1, <1>3, <1>5 DEF Effect
<1>16. n = Cardinality(r)
  <2>1. j.count = Cardinality(j.reached)
    BY Zenon, <1>1, <1>2 DEF Progress
  <2>2. Cardinality(j.reached \cup {d}) = Cardinality(j.reached) + 1
    BY Zenon, <1>15, Asked DEF Counting
  <2> QED
    BY Zenon, <1>7, <1>8, <2>1, <2>2
<1>17. Progress(k)
  <2>1. a \in StepsOf("publish") /\ (a # "send" => togo = Nobody)
    BY Zenon, <1>9, <1>13 DEF StepsOf
  <2>2. Elements(j.left) \subseteq Elements(j.request.args)
    BY Zenon, <1>1 DEF Progress
  <2> QED
    BY Zenon, <1>2, <1>13, <1>14, <1>16, <2>1, <2>2 DEF Progress
<1>18. \A e \in dead : task[e] = "closed"
  BY Zenon, <1>1, <1>6 DEF Effect
<1>19. Effect(subscribers, task, c, k)
  <2>1. ASSUME NEW e \in Clients, subscribers[ch][e] > 0
        PROVE  togo[e] > 0 \/ e \in r \/ task[e] = "closed"
    <3>1. j.togo[e] > 0 \/ e \in j.reached \/ task[e] = "closed"
      BY Zenon, <1>1, <1>2, <1>3, <2>1 DEF Effect
    <3>2. CASE e = d
      BY Zenon, <1>8, <3>2
    <3>3. CASE e # d
      BY Zenon, <1>5, <1>13, <3>1, <3>3
    <3> QED
      BY Zenon, <3>2, <3>3
  <2>2. ASSUME NEW e \in Clients, togo[e] > 0
        PROVE  subscribers[ch][e] > 0 /\ e \notin r
    <3>1. e # d
      BY <1>5, <2>2
    <3>2. subscribers[ch][e] > 0 /\ e \notin j.reached
      BY Zenon, <1>1, <1>3, <1>5, <2>2, <3>1 DEF Effect
    <3> QED
      BY Zenon, <1>8, <3>1, <3>2
  <2> QED
    BY Zenon, <1>2, <1>3, <1>13, <1>14, <1>18, <2>1, <2>2 DEF Effect
<1>20. DOMAIN rx' = Clients /\ \A e \in Clients : rx'[e] \in Seq(Messages)
  <2>1. /\ DOMAIN rx = Clients /\ rx[d] \in Seq(Messages)
        /\ \A e \in Clients : rx[e] \in Seq(Messages)
    BY Zenon DEF HubInv, HubTypeOK
  <2>2. Append(rx[d], j.request) \in Seq(Messages)
    BY <1>2, <2>1
  <2> QED
    BY Zenon, <1>12, <2>1, <2>2
<1>21. HubTypeOK' /\ TurnInv' /\ CallInv'
  <2>1. /\ subscribers' \in [Channels -> [Clients -> 0..1]] /\ swept' \subseteq Clients \X Channels
        /\ k.at \notin {"queued", "done"}
    BY Zenon, <1>12, <1>13, <1>14 DEF HubInv, HubTypeOK
  <2> QED
    BY Zenon, <1>1, <1>11, <1>12, <1>14, <1>17, <1>19, <1>20, <2>1, Runs
<1>22. SweptInv'
  <2>1. ASSUME NEW p \in swept PROVE task[p[1]] = "closed" /\ (subscribers[p[2]][p[1]] > 0 => Found(p, c)')
    <3>1. p[1] \in Clients
      BY Zenon DEF HubInv, HubTypeOK
    <3>2. task[p[1]] = "closed" /\ (subscribers[p[2]][p[1]] > 0 => Found(p, c))
      BY Zenon, Current DEF SendTo
    <3>3. ASSUME Found(p, c) PROVE Found(p, c)'
      <4>1. p[2] = ch /\ (j.togo[p[1]] > 0 \/ p[1] \in j.dead)
        BY Zenon, <1>1, <1>3, <3>3 DEF Found
      <4>2. togo[p[1]] > 0 \/ p[1] \in dead
        <5>1. CASE p[1] = d
          BY Zenon, <1>6, <3>2, <5>1
        <5>2. CASE p[1] # d
          BY Zenon, <1>5, <1>13, <3>1, <4>1, <5>2
        <5> QED
          BY Zenon, <5>1, <5>2
      <4>3. togo # Nobody \/ dead # {}
        BY <3>1, <4>2, NobodyType
      <4>4. a \in {"send", "clean"}
        BY Zenon, <1>9, <4>3
      <4>5. call'[c] = k /\ k # Unset
        BY Zenon, <1>11, <1>14, Asked DEF HubInv, HubTypeOK
      <4> QED
        BY Zenon, <1>3, <1>14, <4>1, <4>2, <4>4, <4>5 DEF Found, At
    <3> QED
      BY Zenon, <3>2, <3>3
  <2> QED
    BY Zenon, <1>12, <2>1 DEF SweptInv
<1>23. Refines
  <2>1. Connections' = Connections /\ Members' = Members
    BY Zenon, <1>12, SameConnections
  <2>2. k.at # "done" /\ j.at # "done" /\ k.request = j.request
    BY Zenon, <1>1, <1>13, <1>14
  <2>3. Asking' = Asking /\ Answers' = Answers /\ (r = j.reached => Reached' = Reached)
    BY Zenon, <1>1, <1>11, <1>14, <2>2, SameCommand
  <2>4. CASE task[d] = "closed"
    <3>1. r = j.reached /\ rx' = rx
      BY Zenon, <1>8, <1>12, <2>4
    <3>2. Streams' = Streams
      BY Zenon, <1>12, <3>1, SameConnections
    <3> QED
      BY Zenon, <2>1, <2>3, <3>1, <3>2, Rests
  <2>5. CASE task[d] # "closed"
    <3>1. r = j.reached \cup {d} /\ rx' = [rx EXCEPT ![d] = Append(rx[d], j.request)]
      BY Zenon, <1>8, <1>12, <2>5
    <3>2. Asking[c] = j.request /\ Reached[c] = j.reached
      BY Zenon, <1>1, AskedFor
    <3>3. ADT!Asks(c, "publish") /\ ADT!Topic(c) = ch
      BY Zenon, <1>1, <1>2, <1>3, <3>2, AskedFor DEF ADT!Topic
    <3>4. d \in Members[ch] \ Reached[c]
      BY Zenon, <1>15, <2>5, <3>2 DEF Members, Connected
    <3>5. Reached' = [Reached EXCEPT ![c] = Reached[c] \cup {d}]
      <4>1. ReachedIn(k) = r
        BY Zenon, <1>14, Asked DEF ReachedIn
      <4>2. Reached' = [Reached EXCEPT ![c] = ReachedIn(k)]
        BY Zenon, <1>11, CommandChange
      <4> QED
        BY Zenon, <3>1, <3>2, <4>1, <4>2
    <3>6. ASSUME NEW e \in Clients \ {c} PROVE ~ADT!Publishing(e)
      <4>1. SUFFICES ASSUME ADT!Publishing(e) PROVE FALSE
        BY Zenon
      <4>2. ~Running(e)
        BY Zenon, <1>1 DEF HubInv, TurnInv
      <4>3. Reached[e] # {} /\ Answers[e] = Unset
        BY Zenon, <4>1 DEF ADT!Publishing
      <4>4. call[e] # Unset /\ call[e].reached # {} /\ call[e] \in Calls(e) /\ Progress(call[e])
        BY Zenon, <4>3, Known DEF ReachedIn, HubInv, HubTypeOK, CallInv
      <4>5. call[e].at = "done" \/ call[e].at = "queued"
        BY Zenon, <4>2, <4>4 DEF Running
      <4>6. call[e].at = "done"
        BY Zenon, <4>4, <4>5 DEF Progress
      <4>7. Answers[e] = call[e].count /\ call[e].count \in Nat
        BY Zenon, <4>4, <4>6, Known, Asked DEF AnswerIn
      <4> QED
        BY Zenon, <4>3, <4>7, UnsetAssumption
    <3>7. Streams' = [Streams EXCEPT ![d] = Append(Streams[d], Asking[c])]
      <4>1. written[d] \in Seq(Messages) /\ rx[d] \in Seq(Messages) /\ DOMAIN rx = Clients
        BY Zenon DEF HubInv, HubTypeOK
      <4>2. Streams[d] = written[d] \o rx[d] /\ DOMAIN Streams = Clients
        BY Zenon, <2>5 DEF Streams, Connected
      <4>3. written[d] \o Append(rx[d], j.request) = Append(Streams[d], Asking[c])
        <5>1. j.request \in Messages
          BY Zenon, <1>2
        <5>2. written[d] \o Append(rx[d], j.request) = Append(written[d] \o rx[d], j.request)
          <6>1. PICK s \in Seq(Messages), t \in Seq(Messages), m \in Messages :
                  s = written[d] /\ t = rx[d] /\ m = j.request
            BY Zenon, <4>1, <5>1
          <6>2. s \o Append(t, m) = Append(s \o t, m)
            BY Appended
          <6> QED
            BY Zenon, <6>1, <6>2
        <5> QED
          BY Zenon, <3>2, <4>2, <5>2
      <4>4. rx'[d] = Append(rx[d], j.request) /\ \A e \in Clients : e # d => rx'[e] = rx[e]
        BY Zenon, <3>1, <4>1
      <4>5. Streams' = [e \in Clients |-> IF Connected(e) THEN written[e] \o rx'[e] ELSE << >>]
        <5>1. Streams' = [e \in Clients |-> IF Connected(e)' THEN written'[e] \o rx'[e] ELSE << >>]
          BY Zenon DEF Streams
        <5>2. written' = written /\ \A e \in Clients : Connected(e)' = Connected(e)
          BY Zenon, <1>12 DEF Connected
        <5> QED
          BY Zenon, <5>1, <5>2
      <4>6. ASSUME NEW e \in Clients
            PROVE  (IF Connected(e) THEN written[e] \o rx'[e] ELSE << >>)
                     = IF e = d THEN Append(Streams[d], Asking[c]) ELSE Streams[e]
        <5>1. CASE e = d
          BY Zenon, <2>5, <4>3, <4>4, <5>1 DEF Connected
        <5>2. CASE e # d
          <6>1. Streams[e] = IF Connected(e) THEN written[e] \o rx[e] ELSE << >>
            BY Zenon DEF Streams
          <6> QED
            BY Zenon, <4>4, <5>2, <6>1
        <5> QED
          BY Zenon, <5>1, <5>2
      <4> HIDE DEF Streams
      <4>7. [Streams EXCEPT ![d] = Append(Streams[d], Asking[c])]
              = [e \in Clients |-> IF e = d THEN Append(Streams[d], Asking[c]) ELSE Streams[e]]
        BY Zenon, <4>2
      <4> QED
        BY Zenon, <4>5, <4>6, <4>7
    <3>8. ADT!Deliver(c, d)
      BY Zenon, <2>1, <2>3, <3>3, <3>4, <3>5, <3>6, <3>7 DEF ADT!Deliver
    <3> QED
      BY Zenon, <3>8, Acts
  <2> QED
    BY Zenon, <2>4, <2>5
<1> QED
  BY Zenon, <1>21, <1>22, <1>23 DEF HubInv

\* Every step keeps the invariant and maps to a step or to none.
LEMMA NextHub == Counting /\ HubInv /\ [HubNext]_hubVars => HubInv' /\ Refines
<1> SUFFICES ASSUME Counting, HubInv, [HubNext]_hubVars PROVE HubInv' /\ Refines
  BY Zenon
<1>1. CASE UNCHANGED hubVars
  <2>1. HubTypeOK' /\ CallInv' /\ SweptInv'
    BY Zenon, <1>1 DEF hubVars, HubInv, HubTypeOK, CallInv, SweptInv, Found, At
  <2>2. TurnInv'
    BY Zenon, <1>1 DEF hubVars, HubInv, TurnInv, Running, At
  <2>3. Connections' = Connections /\ Members' = Members /\ Streams' = Streams
    BY Zenon, <1>1, SameConnections DEF hubVars
  <2>4. Asking' = Asking /\ Reached' = Reached /\ Answers' = Answers
    BY Zenon, <1>1 DEF hubVars, Asking, Reached, Answers, At
  <2> QED
    BY Zenon, <2>1, <2>2, <2>3, <2>4, Rests DEF HubInv
<1>2. CASE HubNext
  BY Zenon, <1>2, IssueHub, ReplyHub, ReceiveHub, CloseHub, StartHub, SubscribeHub, UnsubscribeHub,
     RemoveHub, GetHub, SendHub, CleanHub, CountHub DEF HubNext, ClientTask, HubStep
<1> QED
  BY Zenon, <1>1, <1>2

\* The initial states
LEMMA HubInitRefines == HubInit => ADT!Init
<1> SUFFICES ASSUME HubInit PROVE ADT!Init
  BY Zenon
<1>1. Connections = [c \in Clients |-> TRUE]
  BY Zenon DEF HubInit, Connections, Connected
<1>2. Members = [ch \in Channels |-> {}]
  BY NobodyType DEF HubInit, Members
<1>3. Streams = [c \in Clients |-> << >>]
  <2>1. << >> \o << >> = << >>
    OBVIOUS
  <2> QED
    BY Zenon, <2>1 DEF HubInit, Streams
<1>4. /\ Asking = [c \in Clients |-> Unset] /\ Reached = [c \in Clients |-> {}]
      /\ Answers = [c \in Clients |-> Unset]
  BY Zenon DEF HubInit, Asking, Reached, Answers, At
<1> QED
  BY Zenon, <1>1, <1>2, <1>3, <1>4 DEF ADT!Init

-----------------------------------------------------------------------------
(* The locks of the shards *)

\* The part of a command's code a thread is in fits its command.
PathInv ==
    \A t \in Threads :
        /\ pc[t] \in {"lock"} \cup Inside => op[t] \in Locking
        /\ pc[t] \in {"look", "lookAgain", "put"} => op[t] \in Plain

\* What a thread has read of a counter under the lock is still there when it
\* writes.
GotInv ==
    \A t \in Threads :
        pc[t] = "write" /\ key[t] \in Counters => /\ got[t] = val[key[t]]
                           /\ Accepted(op[t], Number(got[t]))

LockingInv == TypeOK /\ PathInv /\ LockInv

USE ShardAssumption, OpsAssumption, IntAssumption, NoneAssumption

LEMMA NumberType ==
    ASSUME NEW v \in Strings \cup {None}
    PROVE  Number(v) \in Int
BY DEF Number, Strings

LEMMA UpdatedType ==
    ASSUME NEW o, NEW n \in Int
    PROVE  Updated(o, n) \in Int
<1>1. CASE o = "incr"
  BY <1>1 DEF Updated
<1>2. CASE o = "decr"
  BY <1>2 DEF Updated
<1>3. CASE o # "incr" /\ o # "decr"
  BY <1>3 DEF Updated
<1> QED
  BY Zenon, <1>1, <1>2, <1>3

LEMMA InitLocking == Init => LockingInv
<1> SUFFICES ASSUME Init PROVE LockingInv
  BY Zenon
<1>1. TypeOK
  BY Zenon DEF Init, TypeOK, Inside
<1> QED
  BY Zenon, <1>1 DEF Init, LockingInv, PathInv, LockInv, Inside

-----------------------------------------------------------------------------
(* One lemma per action. *)

LEMMA CallLocking ==
    ASSUME LockingInv, NEW t \in Threads, NEW k \in Keys, NEW o \in Ops[k], Call(t, o, k)
    PROVE  LockingInv'
<1> USE DEF LockingInv
<1>0. o \in Locking \cup Plain
  BY Zenon
<1>1. TypeOK'
  BY <1>0 DEF Call, TypeOK, Inside
<1>2. PathInv'
  BY Zenon, <1>0 DEF Call, TypeOK, PathInv, Inside, Locking, Plain
<1>3. LockInv'
  BY Zenon DEF Call, TypeOK, LockInv, Inside
<1> QED
  BY Zenon, <1>1, <1>2, <1>3

LEMMA LockLocking ==
    ASSUME LockingInv, NEW t \in Threads, Lock(t)
    PROVE  LockingInv'
<1> USE DEF LockingInv
<1>0. ShardOf[key[t]] \in Shards
  BY Zenon DEF Lock, TypeOK
<1>1. TypeOK'
  BY Zenon, <1>0 DEF Lock, TypeOK, Inside
<1>2. PathInv'
  BY Zenon DEF Lock, TypeOK, PathInv, Inside
<1>3. LockInv'
  BY Zenon, <1>0 DEF Lock, TypeOK, LockInv, Inside
<1> QED
  BY Zenon, <1>1, <1>2, <1>3

LEMMA ReadLocking ==
    ASSUME LockingInv, NEW t \in Threads, Read(t)
    PROVE  LockingInv'
<1> USE DEF LockingInv
<1>0. key[t] \in Keys /\ val[key[t]] \in Strings \cup {None}
  BY Zenon DEF Read, TypeOK
<1>00. \/ reply' = reply
       \/ reply' = [reply EXCEPT ![t] = <<key[t], None>>]
  BY Zenon DEF Read
<1>000. reply' \in [Threads -> (Keys \cup {None}) \X (Int \cup {None})]
  BY <1>0, <1>00 DEF TypeOK
<1>1. TypeOK'
  BY <1>0, <1>000 DEF Read, TypeOK, Inside
<1>2. PathInv'
  BY DEF Read, TypeOK, PathInv, Inside
<1>3. LockInv'
  BY Zenon DEF Read, TypeOK, LockInv, Inside
<1> QED
  BY Zenon, <1>1, <1>2, <1>3

LEMMA WriteLocking ==
    ASSUME LockingInv, NEW t \in Threads, Write(t)
    PROVE  LockingInv'
<1> USE DEF LockingInv
<1> DEFINE n == Updated(op[t], Number(got[t]))
<1>0. n \in Int /\ [n |-> n, exp |-> FALSE] \in Strings
  <2>1. Number(got[t]) \in Int
    BY Zenon, NumberType DEF TypeOK
  <2>2. n \in Int
    BY Zenon, <2>1, UpdatedType
  <2> HIDE DEF n
  <2> QED
    BY Zenon, <2>2 DEF Strings
<1>00. /\ pc[t] = "write" /\ pc' = [pc EXCEPT ![t] = "unlock"]
       /\ val' = [val EXCEPT ![key[t]] = [n |-> n, exp |-> FALSE]]
       /\ reply' = [reply EXCEPT ![t] = <<key[t], n>>] /\ key[t] \in Keys
       /\ UNCHANGED <<lock, op, key, got, calls>>
  BY Zenon DEF Write, TypeOK
<1> HIDE DEF n
<1>1. TypeOK'
  BY Zenon, <1>0, <1>00 DEF TypeOK, Inside
<1>2. PathInv'
  BY Zenon, <1>00 DEF TypeOK, PathInv, Inside
<1>3. LockInv'
  BY Zenon, <1>00 DEF TypeOK, LockInv, Inside
<1> QED
  BY Zenon, <1>1, <1>2, <1>3

LEMMA UnlockLocking ==
    ASSUME LockingInv, NEW t \in Threads, Unlock(t)
    PROVE  LockingInv'
<1> USE DEF LockingInv
<1>1. TypeOK'
  BY Zenon DEF Unlock, Return, TypeOK, Inside
<1>2. PathInv'
  BY Zenon DEF Unlock, Return, TypeOK, PathInv, Inside
<1>3. LockInv'
  BY Zenon DEF Unlock, Return, TypeOK, LockInv, Inside
<1> QED
  BY Zenon, <1>1, <1>2, <1>3

\* A command without the lock that returns early
LEMMA ReturnLocking ==
    ASSUME LockingInv, NEW t \in Threads, pc[t] \notin Inside, Return(t),
           reply' \in [Threads -> (Keys \cup {None}) \X (Int \cup {None})],
           UNCHANGED <<val, lock, calls>>
    PROVE  LockingInv'
<1> USE DEF LockingInv
<1>1. /\ pc' \in [Threads -> {"idle", "lock", "look", "lookAgain", "put"} \cup Inside]
      /\ op' \in [Threads -> Locking \cup Plain \cup {None}]
      /\ key' \in [Threads -> Keys \cup {None}]
      /\ got' \in [Threads -> Strings \cup {None}]
  BY Zenon DEF Return, TypeOK
<1>2. /\ pc'[t] = "idle"
      /\ \A u \in Threads \ {t} : /\ pc'[u] = pc[u] /\ op'[u] = op[u]
                                 /\ key'[u] = key[u] /\ got'[u] = got[u]
  BY Zenon DEF Return, TypeOK
<1>3. TypeOK'
  BY Zenon, <1>1, <1>2 DEF TypeOK
<1>4. PathInv'
  BY Zenon, <1>1, <1>2 DEF PathInv, Inside
<1>5. LockInv'
  BY Zenon, <1>1, <1>2 DEF LockInv, Inside
<1> QED
  BY Zenon, <1>3, <1>4, <1>5

LEMMA LookLocking ==
    ASSUME LockingInv, NEW t \in Threads, Look(t)
    PROVE  LockingInv'
<1>0. key[t] \in Keys /\ val[key[t]] \in Strings \cup {None} /\ pc[t] = "look"
  BY Zenon DEF Look, TypeOK, LockingInv
<1>1. reply' \in [Threads -> (Keys \cup {None}) \X (Int \cup {None})]
  BY Zenon, <1>0 DEF Look, TypeOK, LockingInv
<1>2. CASE GivesUp(op[t], val[key[t]])
  <2>1. Return(t) /\ UNCHANGED <<val, lock, calls>>
    BY Zenon, <1>2 DEF Look
  <2> QED
    BY Zenon, <1>0, <1>1, <2>1, ReturnLocking DEF Inside
<1>3. CASE ~GivesUp(op[t], val[key[t]])
  <2> USE DEF LockingInv
  <2>0. op[t] = "expire" => val[key[t]] # None
    BY Zenon, <1>3 DEF GivesUp
  <2>1. \/ pc' = [pc EXCEPT ![t] = "lookAgain"]
        \/ pc' = [pc EXCEPT ![t] = "put"] /\ op[t] # "persist"
    BY Zenon, <1>3 DEF Look
  <2>2. /\ got' = [got EXCEPT ![t] = val[key[t]]]
        /\ UNCHANGED <<op, key, val, lock, calls>>
    BY Zenon, <1>3 DEF Look
  <2>3. TypeOK'
    BY Zenon, <1>0, <1>1, <2>0, <2>1, <2>2 DEF TypeOK, Inside
  <2>4. PathInv'
    BY <1>0, <2>1, <2>2 DEF TypeOK, PathInv, Inside
  <2>5. LockInv'
    BY <1>0, <2>1, <2>2 DEF TypeOK, LockInv, Inside
  <2> QED
    BY Zenon, <2>3, <2>4, <2>5
<1> QED
  BY Zenon, <1>2, <1>3

LEMMA LookAgainLocking ==
    ASSUME LockingInv, NEW t \in Threads, LookAgain(t)
    PROVE  LockingInv'
<1>0. key[t] \in Keys /\ val[key[t]] \in Strings \cup {None} /\ pc[t] = "lookAgain"
  BY Zenon DEF LookAgain, TypeOK, LockingInv
<1>1. reply' \in [Threads -> (Keys \cup {None}) \X (Int \cup {None})]
  BY <1>0 DEF LookAgain, TypeOK, LockingInv
<1>2. CASE val[key[t]] = None
  <2>1. Return(t) /\ UNCHANGED <<val, lock, calls>>
    BY Zenon, <1>2 DEF LookAgain
  <2> QED
    BY Zenon, <1>0, <1>1, <2>1, ReturnLocking DEF Inside
<1>3. CASE val[key[t]] # None
  <2> USE DEF LockingInv
  <2>1. /\ pc' = [pc EXCEPT ![t] = "put"]
        /\ got' = [got EXCEPT ![t] = val[key[t]]]
        /\ UNCHANGED <<op, key, val, lock, calls>>
    BY Zenon, <1>3 DEF LookAgain
  <2>2. TypeOK'
    BY Zenon, <1>0, <1>1, <1>3, <2>1 DEF TypeOK, Inside
  <2>3. PathInv'
    BY Zenon, <1>0, <2>1 DEF TypeOK, PathInv, Inside
  <2>4. LockInv'
    BY Zenon, <1>0, <2>1 DEF TypeOK, LockInv, Inside
  <2> QED
    BY Zenon, <2>2, <2>3, <2>4
<1> QED
  BY Zenon, <1>2, <1>3

LEMMA PutLocking ==
    ASSUME LockingInv, NEW t \in Threads, Put(t)
    PROVE  LockingInv'
<1> USE DEF LockingInv
<1>0. PICK v : /\ val' = [val EXCEPT ![key[t]] = v]
               /\ v \in Strings \cup {None}
  <2>1. [n |-> 0, exp |-> FALSE] \in Strings
    BY DEF Strings
  <2>2. CASE op[t] \in {"expire", "persist"}
    <3>1. got[t] \in Strings
      BY Zenon, <2>2 DEF Put, TypeOK
    <3>2. /\ [n |-> got[t].n, exp |-> TRUE] \in Strings
          /\ [n |-> got[t].n, exp |-> FALSE] \in Strings
      BY Zenon, <3>1 DEF Strings
    <3> QED
      BY Zenon, <2>2, <3>2 DEF Put
  <2>3. CASE op[t] \in {"set", "setnx"}
    BY Zenon, <2>1, <2>3 DEF Put
  <2>4. CASE op[t] \notin {"set", "setnx", "expire", "persist"}
    BY Zenon, <2>4 DEF Put
  <2> QED
    BY Zenon, <2>2, <2>3, <2>4
<1>00. /\ pc[t] = "put" /\ key[t] \in Keys
       /\ reply' = [reply EXCEPT ![t] = <<key[t], 1>>]
       /\ Return(t) /\ UNCHANGED <<lock, calls>>
  BY Zenon DEF Put, TypeOK
<1>1. TypeOK'
  BY <1>0, <1>00 DEF Return, TypeOK, Inside
<1>2. PathInv'
  BY Zenon, <1>00 DEF Return, TypeOK, PathInv, Inside
<1>3. LockInv'
  BY Zenon, <1>00 DEF Return, TypeOK, LockInv, Inside
<1> QED
  BY Zenon, <1>1, <1>2, <1>3

LEMMA NextLocking == LockingInv /\ [Next]_vars => LockingInv'
<1> SUFFICES ASSUME LockingInv, [Next]_vars PROVE LockingInv'
  BY Zenon
<1>1. CASE UNCHANGED vars
  BY Zenon, <1>1 DEF vars, LockingInv, TypeOK, PathInv, LockInv
<1> QED
  BY Zenon, <1>1, CallLocking, LockLocking, ReadLocking, WriteLocking, UnlockLocking,
     LookLocking, LookAgainLocking, PutLocking
  DEF Next, LockingStep, PlainStep

\* The variables keep their types, whatever commands are mixed.
THEOREM TypeCorrect == Spec => []TypeOK
<1>1. LockingInv => TypeOK
  BY Zenon DEF LockingInv
<1> QED
  BY <1>1, InitLocking, NextLocking, PTL DEF Spec

\* A thread inside INCR, DECR or APPEND holds the lock of its shard, for any
\* number of threads, keys and shards and any mix of commands.
THEOREM Locked == Spec => []LockInv
<1>1. LockingInv => LockInv
  BY Zenon DEF LockingInv
<1> QED
  BY <1>1, InitLocking, NextLocking, PTL DEF Spec

-----------------------------------------------------------------------------
(* Atomicity of INCR, DECR and APPEND on counters. *)

IInv == LockingInv /\ GotInv

\* A command without a lock is not on a counter.
LEMMA PlainElsewhere ==
    ASSUME LockingInv, NEW t \in Threads, PlainStep(t)
    PROVE  key[t] \in Keys \ Counters
<1>1. op[t] \in Plain /\ key[t] \in Keys /\ op[t] \in Ops[key[t]]
  BY Zenon DEF PlainStep, Look, LookAgain, Put, LockingInv, PathInv, TypeOK
<1>2. op[t] \notin Locking
  BY Zenon, <1>1 DEF Plain, Locking
<1> QED
  BY Zenon, <1>1, <1>2 DEF Counters

LEMMA NextGot ==
    ASSUME IInv, [Next]_vars
    PROVE  GotInv'
<1> USE DEF IInv, LockingInv
<1>1. ASSUME NEW t \in Threads, NEW k \in Keys, NEW o \in Ops[k], Call(t, o, k)
      PROVE  GotInv'
  BY Zenon, <1>1 DEF Call, TypeOK, GotInv, Inside
<1>2. ASSUME NEW t \in Threads, Lock(t) PROVE GotInv'
  BY Zenon, <1>2 DEF Lock, TypeOK, GotInv, Inside
<1>3. ASSUME NEW t \in Threads, Read(t) PROVE GotInv'
  BY <1>3 DEF Read, TypeOK, GotInv, Inside
<1>4. ASSUME NEW t \in Threads, Write(t) PROVE GotInv'
  <2> SUFFICES ASSUME NEW u \in Threads, pc'[u] = "write", key'[u] \in Counters
               PROVE  got'[u] = val'[key'[u]] /\ Accepted(op'[u], Number(got'[u]))
    BY Zenon DEF GotInv, Counters
  <2>1. /\ pc[t] = "write" /\ key[t] \in Keys
        /\ pc' = [pc EXCEPT ![t] = "unlock"]
        /\ \A k \in Keys : k # key[t] => val'[k] = val[k]
        /\ UNCHANGED <<op, key, got>>
    BY Zenon, <1>4 DEF Write, TypeOK
  <2>2. u # t /\ pc[u] = "write" /\ key[u] \in Keys
    BY Zenon, <2>1 DEF TypeOK
  <2>3. key[u] # key[t]
    BY Zenon, <2>1, <2>2 DEF LockInv, Inside
  <2> QED
    BY Zenon, <2>1, <2>2, <2>3 DEF GotInv
<1>5. ASSUME NEW t \in Threads, Unlock(t) PROVE GotInv'
  BY Zenon, <1>5 DEF Unlock, Return, TypeOK, GotInv, Inside
<1>6. ASSUME NEW t \in Threads, PlainStep(t) PROVE GotInv'
  <2> SUFFICES ASSUME NEW u \in Threads, pc'[u] = "write", key'[u] \in Counters
               PROVE  got'[u] = val'[key'[u]] /\ Accepted(op'[u], Number(got'[u]))
    BY Zenon DEF GotInv, Counters
  <2>1. key[t] \in Keys \ Counters
    BY Zenon, <1>6, PlainElsewhere
  <2>2. /\ u # t /\ pc[u] = "write"
        /\ key'[u] = key[u] /\ op'[u] = op[u] /\ got'[u] = got[u]
    BY <1>6 DEF PlainStep, Look, LookAgain, Put, Return, TypeOK
  <2>3. \A k \in Keys : k # key[t] => val'[k] = val[k]
    BY Zenon, <1>6 DEF PlainStep, Look, LookAgain, Put, TypeOK
  <2> QED
    BY Zenon, <2>1, <2>2, <2>3 DEF GotInv, TypeOK
<1>7. CASE UNCHANGED vars
  BY Zenon, <1>7 DEF vars, GotInv
<1> QED
  BY Zenon, <1>1, <1>2, <1>3, <1>4, <1>5, <1>6, <1>7 DEF Next, LockingStep

CounterVal == [k \in Counters |-> val[k]]

LEMMA SameArithmetic ==
    ASSUME NEW o, NEW n \in Int
    PROVE  Updated(o, n) = Atomic!New(o, n) /\ (Accepted(o, n) <=> Atomic!Fits(o, n))
<1>1. Updated(o, n) = Atomic!New(o, n)
  BY Zenon DEF Updated, Atomic!New
<1> QED
  BY Zenon, <1>1 DEF Accepted, InRange, Atomic!Fits

\* An answer about another key, with the counters left alone
LEMMA IsElsewhere ==
    ASSUME LockingInv, NEW t \in Threads, key[t] \in Keys \ Counters, NEW r,
           reply' = [reply EXCEPT ![t] = <<key[t], r>>],
           \A k \in Counters : val'[k] = val[k]
    PROVE  Atomic!Next
<1>1. /\ reply'[t][1] = key[t]
      /\ \A u \in Threads \ {t} : reply'[u] = reply[u]
  BY Zenon DEF LockingInv, TypeOK
<1>2. CounterVal' = CounterVal
  BY Zenon DEF CounterVal, Counters
<1>3. Atomic!Elsewhere(t)
  BY Zenon, <1>1, <1>2 DEF Atomic!Elsewhere, CounterVal
<1> QED
  BY Zenon, <1>3 DEF Atomic!Next

LEMMA SucceedIsNext ==
    ASSUME NEW t \in Threads, NEW k \in Counters, NEW o \in Locking, Atomic!Succeed(t, k, o)
    PROVE  Atomic!Next
BY DEF Atomic!Next

\* A step is the abstract operation (the write, or the read that fails), an
\* answer about another key, or it changes neither values nor answers.
LEMMA NextAtomic ==
    ASSUME IInv, [Next]_vars
    PROVE  [Atomic!Next]_<<CounterVal, reply>>
<1> USE DEF IInv, LockingInv
<1>0. ASSUME UNCHANGED <<val, reply>> PROVE UNCHANGED <<CounterVal, reply>>
  BY Zenon, <1>0 DEF CounterVal
<1>1. ASSUME NEW t \in Threads, Read(t) PROVE [Atomic!Next]_<<CounterVal, reply>>
  <2>0. key[t] \in Keys /\ op[t] \in Locking /\ val' = val
    BY Zenon, <1>1 DEF Read, TypeOK, PathInv, Inside
  <2>1. CASE Accepted(op[t], Number(val[key[t]]))
    BY Zenon, <1>0, <1>1, <2>1 DEF Read
  <2>2. CASE ~Accepted(op[t], Number(val[key[t]])) /\ key[t] \in Counters
    <3>1. reply' = [reply EXCEPT ![t] = <<key[t], None>>]
      BY Zenon, <1>1, <2>2 DEF Read
    <3>2. Number(val[key[t]]) = Atomic!Old(key[t]) /\ Number(val[key[t]]) \in Int
      BY Zenon, <2>0, <2>2, NumberType DEF Number, Atomic!Old, TypeOK
    <3>3. ~Atomic!Fits(op[t], Atomic!Old(key[t]))
      BY Zenon, <2>2, <3>2, SameArithmetic
    <3>4. Atomic!Fail(t, key[t], op[t])
      BY Zenon, <2>0, <3>1, <3>3 DEF Atomic!Fail
    <3> QED
      BY Zenon, <2>0, <2>2, <3>4 DEF Atomic!Next
  <2>3. CASE ~Accepted(op[t], Number(val[key[t]])) /\ key[t] \notin Counters
    BY Zenon, <1>1, <2>0, <2>3, IsElsewhere DEF Read
  <2> QED
    BY Zenon, <2>1, <2>2, <2>3
<1>2. ASSUME NEW t \in Threads, Write(t) PROVE [Atomic!Next]_<<CounterVal, reply>>
  <2> DEFINE n == Updated(op[t], Number(got[t]))
  <2>1. /\ op[t] \in Locking /\ key[t] \in Keys /\ pc[t] = "write"
        /\ reply' = [reply EXCEPT ![t] = <<key[t], n>>]
        /\ val' = [val EXCEPT ![key[t]] = [n |-> n, exp |-> FALSE]]
    BY Zenon, <1>2 DEF Write, TypeOK, PathInv, Inside
  <2>2. CASE key[t] \in Counters
    <3>1. got[t] = val[key[t]] /\ Accepted(op[t], Number(got[t]))
      BY Zenon, <2>1, <2>2 DEF GotInv
    <3>2. Number(got[t]) = Atomic!Old(key[t]) /\ Number(got[t]) \in Int
      BY Zenon, <2>1, <2>2, <3>1, NumberType DEF Number, Atomic!Old, TypeOK
    <3>3. n = Atomic!New(op[t], Atomic!Old(key[t])) /\ Atomic!Fits(op[t], Atomic!Old(key[t]))
      BY Zenon, <3>1, <3>2, SameArithmetic
    <3> HIDE DEF n
    <3>4. CounterVal' = [CounterVal EXCEPT ![key[t]] = [n |-> n, exp |-> FALSE]]
      BY Zenon, <2>1, <2>2 DEF CounterVal, Counters, TypeOK
    <3>5. PICK k \in Counters, o \in Locking : k = key[t] /\ o = op[t]
      BY Zenon, <2>1, <2>2
    <3>6. Atomic!Succeed(t, k, o)
      BY Zenon, <2>1, <3>3, <3>4, <3>5 DEF Atomic!Succeed, CounterVal
    <3> QED
      BY Zenon, <3>6, SucceedIsNext
  <2>3. CASE key[t] \notin Counters
    <3> HIDE DEF n
    <3>1. \A k \in Counters : val'[k] = val[k]
      BY Zenon, <2>1, <2>3 DEF TypeOK, Counters
    <3> QED
      BY Zenon, <2>1, <2>3, <3>1, IsElsewhere
  <2> QED
    BY Zenon, <2>2, <2>3
<1>3. ASSUME NEW t \in Threads, PlainStep(t) PROVE [Atomic!Next]_<<CounterVal, reply>>
  <2>1. key[t] \in Keys \ Counters
    BY Zenon, <1>3, PlainElsewhere
  <2>2. \A k \in Counters : val'[k] = val[k]
    BY Zenon, <1>3, <2>1 DEF PlainStep, Look, LookAgain, Put, TypeOK, Counters
  <2>3. UNCHANGED <<val, reply>> \/ \E r : reply' = [reply EXCEPT ![t] = <<key[t], r>>]
    BY Zenon, <1>3 DEF PlainStep, Look, LookAgain, Put
  <2> QED
    BY Zenon, <1>0, <2>1, <2>2, <2>3, IsElsewhere
<1>4. ASSUME NEW t \in Threads, NEW k \in Keys, NEW o \in Ops[k], Call(t, o, k)
      PROVE  UNCHANGED <<val, reply>>
  BY Zenon, <1>4 DEF Call
<1>5. ASSUME NEW t \in Threads, Lock(t) \/ Unlock(t) PROVE UNCHANGED <<val, reply>>
  BY Zenon, <1>5 DEF Lock, Unlock
<1>6. CASE UNCHANGED vars
  BY Zenon, <1>0, <1>6 DEF vars
<1> QED
  BY Zenon, <1>0, <1>1, <1>2, <1>3, <1>4, <1>5, <1>6 DEF Next, LockingStep

\* string.rs:366: INCR, DECR and APPEND are atomic on every key that no other
\* command touches, for any number of threads, keys and shards and whatever
\* the threads do to other keys.
THEOREM Atomicity == Spec => ImplementsAtomic
<1>1. Init => IInv
  BY Zenon, InitLocking DEF Init, IInv, GotInv
<1>2. IInv /\ [Next]_vars => IInv'
  BY Zenon, NextLocking, NextGot DEF IInv
<1>3. Init => Atomic!Init
  BY Zenon DEF Init, Atomic!Init, Counters
<1>4. IInv /\ [Next]_vars => [Atomic!Next]_<<CounterVal, reply>>
  BY Zenon, NextAtomic
<1> QED
  BY <1>1, <1>2, <1>3, <1>4, PTL DEF Spec, ImplementsAtomic, Atomic!Spec, CounterVal

-----------------------------------------------------------------------------
(* The pool *)

\* Whoever waits in recv() or has a job in hand holds the mutex, and nobody
\* else does.
HolderInv ==
    \A w \in Workers : mutex = w <=> wpc[w] \in Busy \cup {"recv"}

\* A poisoned mutex is never taken again.
PoisonInv == poisoned => mutex = Nothing

\* The inductive invariant.
PoolIInv == PoolTypeOK /\ HolderInv /\ PoisonInv

USE WorkersAssumption, NothingAssumption DEF Busy, Locations, Replies

LEMMA ExitTypes ==
    ASSUME NEW w \in Workers, PoolTypeOK, Exit(w)
    PROVE  /\ queue' \in Seq(Jobs)
           /\ answer' \in [Jobs -> Replies]
           /\ wpc' = [wpc EXCEPT ![w] = "dead"]
<1> DEFINE other == \E v \in Workers \ {w} : wpc[v] # "dead"
<1>1. CASE other
  BY Zenon, <1>1 DEF PoolTypeOK, Exit
<1>2. CASE ~other
  <2>1. queue' = << >>
    BY Zenon, <1>2 DEF Exit
  <2>2. queue' \in Seq(Jobs)
    BY <2>1
  <2>3. answer' = [j \in Jobs |-> IF Queued(j) THEN "aborted" ELSE answer[j]]
    BY Zenon, <1>2 DEF Exit
  <2>4. answer' \in [Jobs -> Replies]
    BY Zenon, <2>3 DEF PoolTypeOK
  <2> QED
    BY Zenon, <2>2, <2>4 DEF Exit
<1> QED
  BY Zenon, <1>1, <1>2

LEMMA InitPool == PoolInit => PoolIInv
<1> SUFFICES ASSUME PoolInit PROVE PoolIInv
  BY Zenon
<1>1. PoolTypeOK
  <2>1. queue \in Seq(Jobs)
    BY DEF PoolInit
  <2>2. open \in BOOLEAN /\ poisoned \in BOOLEAN
    BY Zenon DEF PoolInit
  <2>3. wpc \in [Workers -> Locations] /\ job \in [Workers -> Jobs \cup {Nothing}]
    BY Zenon DEF PoolInit
  <2>4. \A w \in Workers : job[w] \in Jobs <=> wpc[w] \in Busy
    BY Zenon DEF PoolInit
  <2>5. answer \in [Jobs -> Replies]
    BY Zenon DEF PoolInit
  <2> QED
    BY Zenon, <2>1, <2>2, <2>3, <2>4, <2>5 DEF PoolInit, PoolTypeOK
<1>2. HolderInv
  BY Zenon DEF PoolInit, HolderInv
<1>3. PoisonInv
  BY Zenon DEF PoolInit, PoisonInv
<1> QED
  BY Zenon, <1>1, <1>2, <1>3 DEF PoolIInv

LEMMA NextPool == PoolIInv /\ [PoolNext]_(poolVars) => PoolIInv'
<1> SUFFICES ASSUME PoolIInv, [PoolNext]_(poolVars) PROVE PoolIInv'
  BY Zenon
<1> USE DEF PoolIInv, PoolTypeOK, HolderInv, PoisonInv
<1>1. ASSUME NEW j \in Jobs, Spawn(j) PROVE PoolIInv'
  BY <1>1 DEF Spawn
<1>2. ASSUME NEW j \in Jobs, SpawnPanics(j) PROVE PoolIInv'
  BY Zenon, <1>2 DEF SpawnPanics
<1>3. CASE DropPool
  BY Zenon, <1>3 DEF DropPool
<1>4. ASSUME NEW w \in Workers, RxLock(w) PROVE PoolIInv'
  BY Zenon, <1>4 DEF RxLock
<1>5. ASSUME NEW w \in Workers, RxLockPoisoned(w) PROVE PoolIInv'
  <2>1. PoolTypeOK'
    BY Zenon, <1>5, ExitTypes DEF RxLockPoisoned
  <2>2. HolderInv' /\ PoisonInv'
    BY Zenon, <1>5, ExitTypes DEF RxLockPoisoned
  <2> QED
    BY Zenon, <2>1, <2>2
<1>6. ASSUME NEW w \in Workers, Recv(w) PROVE PoolIInv'
  <2>1. Head(queue) \in Jobs /\ Tail(queue) \in Seq(Jobs)
    BY <1>6 DEF Recv
  <2> QED
    BY Zenon, <1>6, <2>1 DEF Recv
<1>7. ASSUME NEW w \in Workers, RecvDisconnected(w) PROVE PoolIInv'
  <2>1. PoolTypeOK'
    BY Zenon, <1>7, ExitTypes DEF RecvDisconnected
  <2>2. HolderInv' /\ PoisonInv'
    BY <1>7, ExitTypes DEF RecvDisconnected
  <2> QED
    BY Zenon, <2>1, <2>2
<1>8. ASSUME NEW w \in Workers, RunJob(w) PROVE PoolIInv'
  BY Zenon, <1>8 DEF RunJob
<1>9. ASSUME NEW w \in Workers, Release(w) PROVE PoolIInv'
  BY Zenon, <1>9 DEF Release
<1>10. ASSUME NEW w \in Workers, PanicJob(w) PROVE PoolIInv'
  BY Zenon, <1>10 DEF PanicJob
<1>11. ASSUME NEW w \in Workers, Unwind(w) PROVE PoolIInv'
  <2>1. PoolTypeOK'
    BY <1>11, ExitTypes DEF Unwind
  <2>2. HolderInv' /\ PoisonInv'
    BY <1>11, ExitTypes DEF Unwind
  <2> QED
    BY Zenon, <2>1, <2>2
<1>12. CASE UNCHANGED poolVars
  BY Zenon, <1>12 DEF poolVars
<1> QED
  BY Zenon, <1>1, <1>2, <1>3, <1>4, <1>5, <1>6, <1>7, <1>8, <1>9, <1>10, <1>11, <1>12
  DEF PoolNext, CallerStep, WorkerStep

\* The pool's state stays inside the inductive invariant.
THEOREM PoolInvariance == PoolSpec => []PoolIInv
  BY InitPool, NextPool, PTL DEF PoolSpec

\* No two jobs overlap, for any number of workers (thread_pool.rs:21): both
\* workers would hold the one mutex.
THEOREM Serial == PoolSpec => []OneJobAtATime
<1>1. PoolIInv => OneJobAtATime
  BY Zenon DEF PoolIInv, HolderInv, OneJobAtATime
<1> QED
  BY <1>1, PoolInvariance, PTL

\* The pool's state is well typed.
THEOREM PoolTypes == PoolSpec => []PoolTypeOK
  BY PoolInvariance, PTL DEF PoolIInv

-----------------------------------------------------------------------------

(* The refinement: the mapped state steps as SerialExecutor does. *)

LEMMA ConsHeadTail ==
    ASSUME NEW S, NEW q \in Seq(S), q # << >>
    PROVE  <<Head(q)>> \o Tail(q) = q
  OBVIOUS

LEMMA HeadTailCons ==
    ASSUME NEW S, NEW q \in Seq(S), NEW x \in S
    PROVE  /\ <<x>> \o q # << >>
           /\ Head(<<x>> \o q) = x
           /\ Tail(<<x>> \o q) = q
  OBVIOUS

LEMMA AppendCons ==
    ASSUME NEW S, NEW q \in Seq(S), NEW x \in S, NEW y \in S
    PROVE  Append(<<x>> \o q, y) = <<x>> \o Append(q, y)
  OBVIOUS

\* What Pending is, by the location of the holder of the mutex.
LEMMA PendingCases ==
    ASSUME PoolIInv
    PROVE  /\ \A w \in Workers : wpc[w] = "run" => Pending = <<job[w]>> \o queue
           /\ (\A w \in Workers : wpc[w] # "run") => Pending = queue
  BY Zenon DEF PoolIInv, PoolTypeOK, HolderInv, Pending

\* The last worker's exit closes the executor, an earlier one is a stutter.
LEMMA ExitCloses ==
    ASSUME PoolIInv, PoolIInv', NEW w \in Workers, Exit(w), wpc[w] # "dead",
           Pending = queue, Broken \/ queue = << >>, Broken' = Broken,
           Pending' = queue'
    PROVE  Executor!Close \/ UNCHANGED Executor!vars
<1> DEFINE other == \E v \in Workers \ {w} : wpc[v] # "dead"
<1>0. wpc' = [wpc EXCEPT ![w] = "dead"] /\ wpc \in [Workers -> Locations]
  BY Zenon DEF Exit, PoolIInv, PoolTypeOK
<1>1. CASE other
  <2>1. ReceiverAlive /\ ReceiverAlive'
    BY Zenon, <1>0, <1>1 DEF ReceiverAlive
  <2>2. UNCHANGED <<queue, answer>>
    BY Zenon, <1>1 DEF Exit
  <2> QED
    BY Zenon, <2>1, <2>2 DEF Executor!vars
<1>2. CASE ~other
  <2>1. ReceiverAlive /\ ~ReceiverAlive'
    BY Zenon, <1>0, <1>2 DEF ReceiverAlive
  <2>2. queue' = << >>
    BY Zenon, <1>2 DEF Exit
  <2>3. answer' = [j \in Jobs |-> IF Queued(j) THEN "aborted" ELSE answer[j]]
    BY Zenon, <1>2 DEF Exit
  <2> QED
    BY Zenon, <2>1, <2>2, <2>3 DEF Executor!Close, Queued
<1> QED
  BY Zenon, <1>1, <1>2

LEMMA InitRefines == PoolInit => Executor!Init
<1> SUFFICES ASSUME PoolInit PROVE Executor!Init
  BY Zenon
<1>1. ReceiverAlive
  BY Zenon DEF PoolInit, ReceiverAlive
<1>2. Pending = << >>
  BY Zenon DEF PoolInit, Pending
<1>3. ~Broken
  BY Zenon DEF PoolInit, Broken
<1> QED
  BY <1>1, <1>2, <1>3 DEF PoolInit, Executor!Init

LEMMA NextRefines ==
    ASSUME PoolIInv, PoolIInv', [PoolNext]_(poolVars)
    PROVE  [Executor!Next]_(Executor!vars)
<1> USE DEF PoolIInv, PoolTypeOK, HolderInv, PoisonInv
<1>1. ASSUME NEW j \in Jobs, Spawn(j) PROVE Executor!Accept(j)
  <2>1. Pending' = Append(Pending, j)
    BY <1>1, AppendCons DEF Spawn, Pending
  <2>2. Broken' = Broken /\ ReceiverAlive' = ReceiverAlive
    BY Zenon, <1>1 DEF Spawn, Broken, ReceiverAlive
  <2> QED
    BY Zenon, <1>1, <2>1, <2>2 DEF Spawn, Executor!Accept
<1>2. ASSUME NEW j \in Jobs, SpawnPanics(j) PROVE Executor!Refuse(j)
  <2>1. Pending' = Pending /\ Broken' = Broken /\ ReceiverAlive' = ReceiverAlive
    BY Zenon, <1>2 DEF SpawnPanics, Pending, Broken, ReceiverAlive
  <2> QED
    BY Zenon, <1>2, <2>1 DEF SpawnPanics, Executor!Refuse
<1>3. CASE DropPool
  BY Zenon, <1>3 DEF DropPool, Pending, Broken, ReceiverAlive, Executor!vars
<1>4. ASSUME NEW w \in Workers, RxLock(w) PROVE UNCHANGED Executor!vars
  <2>1. Pending = queue /\ Pending' = queue'
    BY Zenon, <1>4 DEF RxLock, Pending
  <2>2. Broken' = Broken /\ ReceiverAlive' = ReceiverAlive
    BY Zenon, <1>4 DEF RxLock, Broken, ReceiverAlive
  <2> QED
    BY Zenon, <1>4, <2>1, <2>2 DEF RxLock, Executor!vars
<1>5. ASSUME NEW w \in Workers, RxLockPoisoned(w)
      PROVE Executor!Close \/ UNCHANGED Executor!vars
  <2>1. Pending = queue /\ Pending' = queue'
    BY Zenon, <1>5 DEF RxLockPoisoned, Pending
  <2>2. Broken /\ Broken'
    BY Zenon, <1>5 DEF RxLockPoisoned, Broken
  <2> QED
    BY Zenon, <1>5, <2>1, <2>2, ExitCloses DEF RxLockPoisoned
<1>6. ASSUME NEW w \in Workers, Recv(w) PROVE UNCHANGED Executor!vars
  <2>1. Pending = queue
    BY Zenon, <1>6 DEF Recv, Pending
  <2>2. Pending' = <<Head(queue)>> \o Tail(queue)
    BY <1>6 DEF Recv, Pending
  <2>3. Pending' = Pending
    BY Zenon, <1>6, <2>1, <2>2, ConsHeadTail DEF Recv
  <2>4. Broken' = Broken /\ ReceiverAlive' = ReceiverAlive
    BY Zenon, <1>6 DEF Recv, Broken, ReceiverAlive
  <2> QED
    BY Zenon, <1>6, <2>3, <2>4 DEF Recv, Executor!vars
<1>7. ASSUME NEW w \in Workers, RecvDisconnected(w)
      PROVE Executor!Close \/ UNCHANGED Executor!vars
  <2>1. Pending = queue /\ Pending' = queue'
    BY Zenon, <1>7 DEF RecvDisconnected, Pending
  <2>2. Broken' = Broken
    BY Zenon, <1>7 DEF RecvDisconnected, Exit, Broken
  <2> QED
    BY Zenon, <1>7, <2>1, <2>2, ExitCloses DEF RecvDisconnected
<1>8. ASSUME NEW w \in Workers, wpc[w] = "run"
      PROVE  /\ Pending # << >>
             /\ Head(Pending) = job[w]
             /\ Tail(Pending) = queue
             /\ ~Broken
  <2>1. Pending = <<job[w]>> \o queue /\ job[w] \in Jobs
    BY Zenon, <1>8, PendingCases
  <2>2. ~Broken
    BY Zenon, <1>8 DEF Broken
  <2> QED
    BY <2>1, <2>2, HeadTailCons
<1>9. ASSUME NEW w \in Workers, RunJob(w) PROVE Executor!Complete
  <2>1. Pending' = queue /\ Broken' = Broken /\ ReceiverAlive' = ReceiverAlive
    BY <1>9 DEF RunJob, Pending, Broken, ReceiverAlive
  <2> QED
    BY Zenon, <1>8, <1>9, <2>1 DEF RunJob, Executor!Complete
<1>10. ASSUME NEW w \in Workers, Release(w) PROVE UNCHANGED Executor!vars
  <2>1. Pending' = Pending /\ Broken' = Broken /\ ReceiverAlive' = ReceiverAlive
    BY Zenon, <1>10 DEF Release, Pending, Broken, ReceiverAlive
  <2> QED
    BY Zenon, <1>10, <2>1 DEF Release, Executor!vars
<1>11. ASSUME NEW w \in Workers, PanicJob(w) PROVE Executor!Break
  <2>1. Pending' = queue /\ Broken' /\ ReceiverAlive' = ReceiverAlive
    BY <1>11 DEF PanicJob, Pending, Broken, ReceiverAlive
  <2> QED
    BY Zenon, <1>8, <1>11, <2>1 DEF PanicJob, Executor!Break
<1>12. ASSUME NEW w \in Workers, Unwind(w)
       PROVE Executor!Close \/ UNCHANGED Executor!vars
  <2>1. Pending = queue /\ Pending' = queue'
    BY Zenon, <1>12 DEF Unwind, Pending
  <2>2. Broken /\ Broken'
    BY Zenon, <1>12 DEF Unwind, Broken
  <2> QED
    BY Zenon, <1>12, <2>1, <2>2, ExitCloses DEF Unwind
<1>13. CASE UNCHANGED poolVars
  BY Zenon, <1>13 DEF poolVars, Pending, Broken, ReceiverAlive, Executor!vars
<1> QED
  BY Zenon, <1>1, <1>2, <1>3, <1>4, <1>5, <1>6, <1>7, <1>9, <1>10, <1>11, <1>12, <1>13
  DEF PoolNext, CallerStep, WorkerStep, Executor!Next

\* The pool implements the serial executor (thread_pool.rs:15-43): jobs take
\* effect one at a time in the order they were accepted, and after a panic
\* none does.
THEOREM PoolRefinement == PoolSpec => ImplementsExecutor
  BY InitRefines, NextRefines, PoolInvariance, PTL
  DEF PoolSpec, ImplementsExecutor, Executor!Spec

-----------------------------------------------------------------------------
(* Publish and subscribe, all steps together *)

INSTANCE FiniteSetTheorems

\* It does, of finite sets.
LEMMA Counts == Counting
<1>1. \A S \in SUBSET Channels : Cardinality(S) \in Nat
  BY Zenon, PubSubAssumption, FS_Subset, FS_CardinalityType
<1>2. ASSUME NEW S \in SUBSET Clients, NEW d \in Clients, d \notin S
      PROVE  Cardinality(S \cup {d}) = Cardinality(S) + 1
  <2>1. IsFiniteSet(S)
    BY Zenon, PubSubAssumption, FS_Subset
  <2> QED
    BY Zenon, <1>2, <2>1, FS_AddElement
<1> QED
  BY Zenon, <1>1, <1>2, FS_EmptySet DEF Counting

\* The hub and its clients keep to the inductive invariant.
THEOREM HubInvariance == HubSpec => []HubInv
<1>1. HubInv /\ [HubNext]_hubVars => HubInv'
  BY Zenon, NextHub, Counts
<1> QED
  BY <1>1, InitHub, PTL DEF HubSpec

\* No client comes into the list of a channel twice (pubsub.rs:39-43), so
\* the list of a message's addressees, which is copied from it, has each of
\* them once, whatever clients and channels there are.
THEOREM HubTypes == HubSpec => []HubTypeOK
<1>1. HubInv => HubTypeOK
  BY Zenon DEF HubInv
<1> QED
  BY <1>1, HubInvariance, PTL

\* A client that is gone is in the list of a channel only as long as nobody
\* has published to the channel since, or the publication that will take it
\* out is under way (pubsub.rs:96-113), although the task of the client may
\* end between any two sends and its last command runs after it.
THEOREM Swept == HubSpec => []GoneAreSwept
<1>1. HubInv => GoneAreSwept
  BY Zenon DEF HubInv, SweptInv, GoneAreSwept, Found
<1> QED
  BY <1>1, HubInvariance, PTL

\* Subscriptions, deliveries and answers are those of the abstract Pub/Sub:
\* each step of a method of the hub (pubsub.rs:30-123) that clients can tell
\* is one of its steps.  Removing a channel after its entry was let go of
\* (pubsub.rs:65-68, 108-111) takes nobody out: commands run one at a time.
THEOREM HubRefinement == HubSpec => ImplementsADT
<1>1. HubInv /\ [HubNext]_hubVars => [ADT!Next]_(ADT!vars)
  BY Zenon, NextHub, Counts DEF Refines
<1> QED
  BY <1>1, HubInvariance, HubInitRefines, PTL DEF HubSpec, ImplementsADT, ADT!Spec
=============================================================================
