------------------------------- MODULE PubSub -------------------------------
(***************************************************************************)
(* src/pubsub.rs, the commands of src/cmd/pubsub.rs, and the part of       *)
(* src/server.rs that hands messages to clients.                           *)
(*                                                                         *)
(* The hub is a concurrent map from a channel to the list of its           *)
(* subscribers; a method of the hub makes several calls on it, each of     *)
(* them a step.  Commands are jobs of the pool (SerialExecutor), so one    *)
(* method runs at a time; the tasks of the clients go on meanwhile: they   *)
(* read their messages, and they end, which drops the receiver of their    *)
(* messages and tells the hub nothing.  A channel without a list and one   *)
(* with an empty list are not told apart; the order of a list decides only *)
(* who is sent a message first, and a list is the number of times each     *)
(* client is in it.                                                        *)
(***************************************************************************)
EXTENDS Naturals, FiniteSets, Sequences

CONSTANTS
    Clients,
    Channels,
    Requests,     \* the commands of each client: [op, args (channels), msg]
    Quota,        \* [Clients -> Nat]: commands a client sends (bound)
    Unset

\* A client is a u64, a channel a String: there are finitely many of both.
ASSUME PubSubAssumption ==
    /\ \A c \in Clients :
         /\ Requests[c] \subseteq [op : {"subscribe", "unsubscribe", "unsubscribeAll", "publish"},
                                  args : Seq(Channels), msg : Nat]
         /\ \A r \in Requests[c] : /\ r.args # << >>
                                   /\ r.op = "publish" => Len(r.args) = 1
    /\ Quota \in [Clients -> Nat]
    /\ IsFiniteSet(Clients) /\ IsFiniteSet(Channels)

VARIABLES
    subscribers,  \* [Channels -> [Clients -> Nat]]: who is in each list
    pending,      \* clients whose command waits in the channel of the pool
    call,         \* the command of each client: see NewCall
    task,         \* the task of each client: "ready", "waiting" or "closed"
    rx,           \* pubsub_rx: messages not yet written to the client
    budget,       \* commands the client may still send
    \* history: messages written to the client, and the clients that were
    \* gone when a message was published to a channel
    written, swept

hubVars == <<subscribers, pending, call, task, rx, budget, written, swept>>

Nobody == [d \in Clients |-> 0]

\* What is left of the arguments, where the method is, who is still to be
\* sent the message, the ids that were found dead and the number that is
\* answered; and, as history, who has been sent the message.
NewCall(r) ==
    [request |-> r, left |-> r.args, at |-> "queued",
     togo |-> Nobody, dead |-> {}, count |-> 0, reached |-> {}]

Steps == {"queued", "entry", "retain", "remove", "get", "send", "clean", "count", "done"}

Calls(c) ==
    [request : Requests[c], left : Seq(Channels), at : Steps, togo : [Clients -> 0..1],
     dead : SUBSET Clients, count : Nat, reached : SUBSET Clients]
Messages == UNION {Requests[d] : d \in Clients}

ASSUME UnsetAssumption ==
    Unset \notin Nat /\ \A c \in Clients : Unset \notin Requests[c] /\ Unset \notin Calls(c)

HubInit ==
    /\ subscribers = [ch \in Channels |-> Nobody]
    /\ pending = << >>
    /\ call = [c \in Clients |-> Unset]
    /\ task = [c \in Clients |-> "ready"]
    /\ rx = [c \in Clients |-> << >>]
    /\ budget = Quota
    /\ written = [c \in Clients |-> << >>]
    /\ swept = {}

-----------------------------------------------------------------------------
(* The task of a client *)

Issue(c, r) ==
    /\ task[c] = "ready" /\ budget[c] > 0
    /\ task' = [task EXCEPT ![c] = "waiting"]
    /\ call' = [call EXCEPT ![c] = NewCall(r)]
    /\ pending' = Append(pending, c)
    /\ budget' = [budget EXCEPT ![c] = @ - 1]
    /\ UNCHANGED <<subscribers, rx, written, swept>>

At(c, location) == IF call[c] = Unset THEN FALSE ELSE call[c].at = location

\* The reply is written.  select! takes it and the messages in any order.
Reply(c) ==
    /\ task[c] = "waiting" /\ At(c, "done")
    /\ task' = [task EXCEPT ![c] = "ready"]
    /\ call' = [call EXCEPT ![c] = Unset]
    /\ UNCHANGED <<subscribers, pending, rx, budget, written, swept>>

ReceiveWaiting(c) ==
    /\ task[c] = "waiting" /\ rx[c] # << >>
    /\ written' = [written EXCEPT ![c] = Append(@, Head(rx[c]))]
    /\ rx' = [rx EXCEPT ![c] = Tail(@)]
    /\ UNCHANGED <<subscribers, pending, call, task, budget, swept>>

\* A message is written, between two commands or during one.
Receive(c) ==
    /\ task[c] # "closed" /\ rx[c] # << >>
    /\ written' = [written EXCEPT ![c] = Append(@, Head(rx[c]))]
    /\ rx' = [rx EXCEPT ![c] = Tail(@)]
    /\ UNCHANGED <<subscribers, pending, call, task, budget, swept>>

\* The client closes, or a write to it fails: handle_connection returns.  A
\* command that is in the pool is carried out all the same.
Close(c) ==
    /\ \/ task[c] = "ready"
       \/ task[c] = "waiting" /\ (At(c, "done") \/ rx[c] # << >>)
    /\ task' = [task EXCEPT ![c] = "closed"]
    /\ rx' = [rx EXCEPT ![c] = << >>]
    /\ call' = [call EXCEPT ![c] = IF At(c, "done") THEN Unset ELSE @]
    /\ UNCHANGED <<subscribers, pending, budget, written, swept>>

-----------------------------------------------------------------------------
(* The hub, in a job of the pool *)

Running(c) == IF call[c] = Unset THEN FALSE ELSE call[c].at \notin {"queued", "done"}

FirstStep(op) ==
    CASE op = "subscribe" -> "entry" [] op = "publish" -> "get" [] OTHER -> "retain"

StartOverlapping(c) ==
    /\ pending # << >> /\ c = Head(pending)
    /\ pending' = Tail(pending)
    /\ call' = [call EXCEPT ![c] = [call[c] EXCEPT !.at = FirstStep(call[c].request.op)]]
    /\ UNCHANGED <<subscribers, task, rx, budget, written, swept>>

\* The pool runs the oldest job, and no other meanwhile.
Start(c) ==
    /\ pending # << >> /\ c = Head(pending)
    /\ \A d \in Clients : ~Running(d)
    /\ pending' = Tail(pending)
    /\ call' = [call EXCEPT ![c] = [call[c] EXCEPT !.at = FirstStep(call[c].request.op)]]
    /\ UNCHANGED <<subscribers, task, rx, budget, written, swept>>

\* The job of c goes on at `location`, with `left` to do.
Go(c, location, left) ==
    call' = [call EXCEPT ![c] =
               [call[c] EXCEPT !.at = IF left = << >> THEN "count" ELSE location,
                               !.left = left]]

PushAgain(list, c) == [list EXCEPT ![c] = list[c] + 1]

\* A client that is in the list already is not pushed again.
Push(list, c) == IF list[c] > 0 THEN list ELSE [list EXCEPT ![c] = list[c] + 1]

\* subscribe, one channel: entry(..).or_default() and push
SubscribeTo(c) ==
    LET ch == Head(call[c].left)
    IN  /\ At(c, "entry")
        /\ subscribers' = [subscribers EXCEPT ![ch] = Push(subscribers[ch], c)]
        /\ Go(c, "entry", Tail(call[c].left))
        /\ swept' = swept \ {<<c, ch>>}
        /\ UNCHANGED <<pending, task, rx, budget, written>>

Without(list, ids) == [d \in Clients |-> IF d \in ids THEN 0 ELSE list[d]]

\* unsubscribe, one channel: retain, and if nobody is left drop the entry and
\* then remove it.  Without arguments all the entries are gone through and
\* the empty ones are removed under their locks.
UnsubscribeFrom(c) ==
    LET ch == Head(call[c].left)
        kept == Without(subscribers[ch], {c})
    IN  /\ At(c, "retain")
        /\ subscribers' = [subscribers EXCEPT ![ch] = kept]
        /\ IF call[c].request.op = "unsubscribe" /\ subscribers[ch] # Nobody /\ kept = Nobody
           THEN Go(c, "remove", call[c].left)
           ELSE Go(c, "retain", Tail(call[c].left))
        /\ UNCHANGED <<pending, task, rx, budget, written, swept>>

\* self.subscribers.remove(ch), whoever is in it by now
RemoveChannel(c) ==
    /\ At(c, "remove")
    /\ subscribers' = [subscribers EXCEPT ![Head(call[c].left)] = Nobody]
    /\ Go(c, "retain", Tail(call[c].left))
    /\ UNCHANGED <<pending, task, rx, budget, written, swept>>

\* publish: the entry is looked up, and locked while its list is gone through.
Get(c) ==
    LET list == subscribers[Head(call[c].left)]
    IN  /\ At(c, "get")
        /\ call' = [call EXCEPT ![c] =
                      [call[c] EXCEPT !.at = IF list = Nobody THEN "count" ELSE "send",
                                      !.togo = list]]
        /\ swept' = swept \cup ({d \in Clients : task[d] = "closed"} \X {Head(call[c].left)})
        /\ UNCHANGED <<subscribers, pending, task, rx, budget, written>>

\* One subscriber is sent the message.  A send to a client whose receiver is
\* gone fails.
SendTo(c, d) ==
    LET togo == [call[c].togo EXCEPT ![d] = call[c].togo[d] - 1]
        failed == task[d] = "closed"
        dead == IF failed THEN call[c].dead \cup {d} ELSE call[c].dead
    IN  /\ At(c, "send") /\ call[c].togo[d] > 0
        /\ rx' = IF failed THEN rx ELSE [rx EXCEPT ![d] = Append(rx[d], call[c].request)]
        /\ call' = [call EXCEPT ![c] =
                      [call[c] EXCEPT !.at = IF togo # Nobody THEN "send"
                                             ELSE IF dead = {} THEN "count" ELSE "clean",
                                      !.togo = togo, !.dead = dead,
                                      !.count = IF failed THEN call[c].count ELSE call[c].count + 1,
                                      !.reached = IF failed THEN call[c].reached
                                                  ELSE call[c].reached \cup {d}]]
        /\ UNCHANGED <<subscribers, pending, task, budget, written, swept>>

CleanLast(c) ==
    LET ch == Head(call[c].left)
        one == \E d \in Clients : subscribers[ch] = [Nobody EXCEPT ![d] = 1]
        kept == IF one THEN Nobody ELSE subscribers[ch]
    IN  /\ At(c, "clean")
        /\ subscribers' = [subscribers EXCEPT ![ch] = kept]
        /\ IF kept = Nobody THEN Go(c, "remove", call[c].left) ELSE Go(c, "count", << >>)
        /\ UNCHANGED <<pending, task, rx, budget, written, swept>>

\* publish: those that failed are taken out.
Clean(c) ==
    LET ch == Head(call[c].left)
        kept == Without(subscribers[ch], call[c].dead)
    IN  /\ At(c, "clean")
        /\ subscribers' = [subscribers EXCEPT ![ch] = kept]
        /\ IF kept = Nobody THEN Go(c, "remove", call[c].left) ELSE Go(c, "count", << >>)
        /\ UNCHANGED <<pending, task, rx, budget, written, swept>>

\* subscription_count, and the end of the command
Count(c) ==
    LET mine == {ch \in Channels : subscribers[ch][c] > 0}
        n == IF call[c].request.op = "publish" THEN call[c].count ELSE Cardinality(mine)
    IN  /\ At(c, "count")
        /\ call' = [call EXCEPT ![c] = IF task[c] = "closed" THEN Unset
                                       ELSE [call[c] EXCEPT !.at = "done", !.count = n]]
        /\ UNCHANGED <<subscribers, pending, task, rx, budget, written, swept>>

HubStep(c) ==
    \/ Start(c)
    \/ SubscribeTo(c)
    \/ UnsubscribeFrom(c)
    \/ RemoveChannel(c)
    \/ Get(c)
    \/ \E d \in Clients : SendTo(c, d)
    \/ Clean(c)
    \/ Count(c)

ClientTask(c) == Reply(c) \/ Receive(c)

HubNext ==
    \E c \in Clients :
        \/ \E r \in Requests[c] : Issue(c, r)
        \/ ClientTask(c)
        \/ Close(c)
        \/ HubStep(c)

HubSpec == HubInit /\ [][HubNext]_hubVars

\* The pool's threads and the tasks are scheduled; clients are free to stop.
FairHub ==
    HubSpec /\ \A c \in Clients : WF_hubVars(ClientTask(c)) /\ WF_hubVars(HubStep(c))

-----------------------------------------------------------------------------
\* Type invariant.  No client is in a list twice.
HubTypeOK ==
    /\ subscribers \in [Channels -> [Clients -> 0..1]]
    /\ pending \in Seq(Clients)
    /\ task \in [Clients -> {"ready", "waiting", "closed"}]
    /\ budget \in [Clients -> Nat]
    /\ swept \subseteq Clients \X Channels
    /\ DOMAIN call = Clients /\ DOMAIN rx = Clients /\ DOMAIN written = Clients
    /\ \A c \in Clients :
         /\ call[c] # Unset => call[c] \in Calls(c)
         /\ rx[c] \in Seq(Messages) /\ written[c] \in Seq(Messages)

\* A client that is gone is remembered only by channels nobody has published
\* to since (pubsub.rs:88, 104-112): a publication takes it out, at the
\* latest when it is answered, even if it subscribed after its connection
\* had ended.
GoneAreSwept ==
    \A p \in swept :
        subscribers[p[2]][p[1]] > 0 =>
            \E c \in Clients : (At(c, "send") \/ At(c, "clean")) /\ Head(call[c].left) = p[2]

\* A message that was sent to a client is written to it, or the client goes.
EveryMessageArrives == \A c \in Clients : rx[c] # << >> ~> rx[c] = << >>

Connected(c) == task[c] # "closed"

\* What clients can know of the hub.
Connections == [c \in Clients |-> Connected(c)]
Members == [ch \in Channels |-> {c \in Clients : subscribers[ch][c] > 0 /\ Connected(c)}]
Streams == [c \in Clients |-> IF Connected(c) THEN written[c] \o rx[c] ELSE << >>]
Asking == [c \in Clients |-> IF call[c] = Unset THEN Unset ELSE call[c].request]
Reached == [c \in Clients |-> IF call[c] = Unset THEN {} ELSE call[c].reached]
Answers == [c \in Clients |-> IF At(c, "done") THEN call[c].count ELSE Unset]

ADT == INSTANCE PubSubADT WITH
    connected <- Connections, members <- Members, stream <- Streams,
    request <- Asking, reached <- Reached, answer <- Answers

\* What clients see is the abstract Pub/Sub: a message reaches every client
\* subscribed to its channel, once and in the order of publication, PUBLISH
\* returns the number of those it has reached, and a subscription that has
\* been confirmed ends only by an UNSUBSCRIBE of its client, although
\* unsubscribe and publish remove a channel after they have let go of its
\* entry (pubsub.rs:65-68, 108-111).
ImplementsADT == ADT!Spec
=============================================================================
